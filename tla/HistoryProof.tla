---------------------------- MODULE HistoryProof ----------------------------
(***************************************************************************)
(* Proofs about History and ConfigDiff, for any configurations, any number *)
(* of backups, ids, faults and views.                                      *)
(***************************************************************************)
EXTENDS History, TLAPS, FiniteSetTheorems, WellFoundedInduction

-----------------------------------------------------------------------------
(* What the state is made of.                                              *)

\* The anchors of rules, aliases and dns fields whose changes are logged, and all
\* anchors there are.
PlainAnchors ==
    {RowAnchor("rule", k) : k \in Keys} \cup {RowAnchor("alias", k) : k \in Keys}
    \cup {Rescope(f) : f \in DnsFields \ NestedFields}
AllAnchors ==
    PlainAnchors \cup {RowAnchor("haproxy_backend", k) : k \in Keys} \cup {Telegraf}
    \cup {Rescope(f) : f \in NestedFields}

\* The value of a plain anchor as the diff sees it: of several rows with the key the
\* last, and of a field not its text but the value.
LastIn(s, k) == IF k \in KeysOf(s) THEN RowAt(s, k).val ELSE None
Held(c, anchor) ==
    IF anchor[1] = "xref" THEN LastIn(RowsIn(c, anchor[2]), anchor[3])
    ELSE IF c.dns = None \/ FieldOf(anchor) \notin DnsFields THEN None ELSE c.dns[FieldOf(anchor)]

\* An event is about that value, unless rows share the anchor.
Accords(e, c) ==
    Sole(c, e.anchor) => Held(c, e.anchor) = IF e.kind = "removed" THEN None ELSE e.val

Entries == [of: Ids, prev: Ids \cup {None}, anchor: AllAnchors, kind: EventKinds, val: Vals \cup {None}]
DiffRows == [base: Ids \cup {None}, body: {DiffConfigs(a, b) : a, b \in Configs}, raced: BOOLEAN]
View == [of: Ids, kind: Kinds, at: {"read", "write"}, new: Configs \cup {None}, base: Snapshot, no: Nat]

RowTypes == row \in [Ids -> Row \cup {None}]
DiffTypes ==
    /\ diff \in [Ids \X Kinds -> DiffRows \cup {None}]
    /\ \A b \in Ids, k \in Kinds : diff[b, k] # None => b \in Alive
EventTypes ==
    /\ event \subseteq Entries
    /\ \A e \in event : e.of \in Alive /\ e.prev \in Alive \cup {None}
StepTypes ==
    /\ ingest \in Ingest \cup {None}
    /\ view \in View \cup {None}
    /\ rebuild \in [at: {"idle", "listed", "locked"}, list: SUBSET Ids]
CountTypes ==
    /\ indexed \in BOOLEAN /\ gap \in BOOLEAN
    /\ made \in 0..MaxBackups /\ faults \in 0..MaxFaults /\ views \in 0..MaxViews
Types == RowTypes /\ DiffTypes /\ EventTypes /\ StepTypes /\ CountTypes

\* Number no still belongs to the backup with id b.
Same(b, no) == b \in Alive /\ row[b].no = no

\* Numbers come from the clock, so that one that was read is never given again; and
\* no two backups are of the same time.
SerialInv ==
    /\ \A b \in Alive : row[b].no <= made + faults /\ row[b].at <= made
    /\ \A b, p \in Alive : row[b].at = row[p].at => b = p
    /\ ingest # None => /\ ingest.no <= made + faults
                        /\ ingest.at = "write" => \A k \in Kinds : ingest.base[k] # None => ingest.base[k].no <= made + faults
    /\ view # None => view.no <= made + faults /\ view.base.no <= made + faults

\* What was read is what the backup holds, as long as the id is still its own.
IngestInv ==
    ingest # None /\ ingest.at = "write" =>
        /\ ingest.new \in Configs
        /\ ingest.base \in [Kinds -> Snapshot \cup {None}]
        /\ Same(ingest.of, ingest.no) => ingest.new = row[ingest.of].cfg
        /\ \A k \in Kinds : LET r == ingest.base[k] IN
              Usable(r) /\ Same(r.id, r.no) => r.cfg = row[r.id].cfg
ViewInv ==
    view # None /\ view.at = "write" =>
        /\ view.new \in Configs /\ view.base.cfg \in Configs
        /\ Same(view.of, view.no) => view.new = row[view.of].cfg
        /\ Same(view.base.id, view.base.no) => view.base.cfg = row[view.base.id].cfg

\* Backup p is the one before b.
IsPrevious(p, b) ==
    /\ p \in Alive /\ row[p].at < row[b].at
    /\ \A q \in Alive : row[q].at < row[b].at => row[q].at <= row[p].at

\* The base the pending events are computed against is the backup before.
BaseInv ==
    ingest # None /\ ingest.at = "write" /\ Same(ingest.of, ingest.no) =>
        LET r == ingest.base["previous"] IN
        Usable(r) /\ Same(r.id, r.no) => IsPrevious(r.id, ingest.of)

\* The backup that is being ingested is the newest.
NewestInv == ingest # None /\ Same(ingest.of, ingest.no) => row[ingest.of].at = made

\* The ingest has still to log the changes of b (if it does not log b whole).
Owed(b) ==
    /\ ingest # None /\ ingest.of = b
    /\ ~(ingest.at = "write" /\ ingest.base["previous"] = None /\ ingest.base["first"] = None)

\* Every event tells what its backup holds; those of a backup that is being ingested
\* do even when changes are missing elsewhere.
ToldInv ==
    \A e \in event :
        /\ e.anchor \in PlainAnchors
        /\ ~gap \/ (ingest # None /\ ingest.of = e.of /\ Same(ingest.of, ingest.no))
        => Accords(e, row[e.of].cfg)

\* Every change from one backup to the next is told, unless the earlier one is an
\* import that was never indexed.
CompleteInv ==
    ~gap =>
        \A b, p \in Alive :
            /\ IsPrevious(p, b) /\ ~Owed(b)
            /\ row[p].at # 0 \/ \E e \in event : e.of = p
            => \A a \in PlainAnchors :
                  Held(row[p].cfg, a) # Held(row[b].cfg, a)
                  => \E e \in event : e.of = b /\ e.anchor = a /\ e.kind # "reordered"

Inv ==
    Types /\ SerialInv /\ IngestInv /\ ViewInv /\ BaseInv /\ NewestInv /\ ToldInv /\ CompleteInv /\ CachedDiffTrue
-----------------------------------------------------------------------------
(* Least and greatest.                                                     *)

\* A member that nothing precedes in a relation that contains < is the least.
LEMMA MinimalIsLeast ==
    ASSUME NEW R, NEW S, S \subseteq Nat,
           \E n \in S : \A m \in S : ~(<<m, n>> \in R),
           \A m, n \in Nat : m < n => <<m, n>> \in R
    PROVE  \E n \in S : \A m \in S : n <= m
<1>1. PICK n \in S : \A m \in S : ~(<<m, n>> \in R)
    OBVIOUS
<1>2. ASSUME NEW m \in S PROVE n <= m
    <2>1. ~(m < n)
        BY <1>1, Zenon
    <2> QED BY <2>1
<1> QED BY <1>2

\* A non-empty set of natural numbers has a least element.
LEMMA LeastElement ==
    ASSUME NEW S, S \subseteq Nat, S # {}
    PROVE  \E n \in S : \A m \in S : n <= m
<1> DEFINE R == OpToRel(<, Nat)
<1>1. \E n \in S : \A m \in S : ~(<<m, n>> \in R)
    BY WFMin, NatLessThanWellFounded
<1>2. \A m, n \in Nat : m < n => <<m, n>> \in R
    BY DEF OpToRel
<1> HIDE DEF R
<1> QED BY <1>1, <1>2, MinimalIsLeast, Zenon

\* A non-empty set of natural numbers up to a bound has a greatest element.
LEMMA GreatestElement ==
    ASSUME NEW N \in Nat, NEW S, S \subseteq 0..N, S # {}
    PROVE  \E n \in S : \A m \in S : m <= n
<1> DEFINE T == {N - m : m \in S}
<1>0. ASSUME NEW m \in S PROVE N - m \in Nat
    <2>1. m \in 0..N
        OBVIOUS
    <2> QED BY <2>1
<1>1. T \subseteq Nat /\ T # {}
    BY <1>0
<1> HIDE DEF T
<1>2. PICK t \in T : \A u \in T : t <= u
    BY <1>1, LeastElement
<1>3. PICK n \in S : t = N - n
    BY DEF T
<1>4. ASSUME NEW m \in S PROVE m <= n
    <2>1. N - m \in T
        BY DEF T
    <2> QED BY <2>1, <1>2, <1>3
<1> QED BY <1>4
-----------------------------------------------------------------------------
(* The diff and the anchors.                                               *)

\* The positions of a key of a list: the last and the first are positions of it.
LEMMA KeyPositions ==
    ASSUME NEW s \in Seq(Rows), NEW k \in KeysOf(s)
    PROVE  /\ Index(s, k) \in At(s, k) /\ \A n \in At(s, k) : n <= Index(s, k)
           /\ Min(At(s, k)) \in At(s, k)
<1> DEFINE S == At(s, k)
<1>1. S \subseteq 0..Len(s) /\ S \subseteq Nat /\ Len(s) \in Nat
    BY DEF At
<1>2. S # {}
    BY DEF At, KeysOf
<1>3. Index(s, k) = Max(S)
    BY DEF Index
<1> HIDE DEF S
<1>4. PICK n \in S : \A m \in S : m <= n
    BY <1>1, <1>2, GreatestElement
<1>5. \A m \in S : n >= m
    BY <1>1, <1>4
<1>6. Max(S) \in S /\ \A m \in S : Max(S) >= m
    BY <1>4, <1>5 DEF Max
<1>7. \A m \in S : m <= Max(S)
    BY <1>1, <1>6
<1>8. PICK l \in S : \A m \in S : l <= m
    BY <1>1, <1>2, LeastElement
<1>9. Min(S) \in S
    BY <1>8 DEF Min
<1> QED BY <1>3, <1>6, <1>7, <1>9 DEF S

\* The row at a key is a row of the list, with that key.
LEMMA KeyRow ==
    ASSUME NEW s \in Seq(Rows), NEW k \in KeysOf(s)
    PROVE  /\ k \in Keys /\ Index(s, k) \in DOMAIN s
           /\ RowAt(s, k) = s[Index(s, k)] /\ RowAt(s, k) \in Rows /\ RowAt(s, k).key = k
<1>1. Index(s, k) \in DOMAIN s /\ s[Index(s, k)].key = k
    BY KeyPositions DEF At
<1>2. s[Index(s, k)] \in Rows
    BY <1>1
<1> QED BY <1>1, <1>2 DEF RowAt, Rows

\* What the resolver finds in a list is one of the rows with the key; and the row the
\* diff sees, if there is one only.
LEMMA ListValue ==
    ASSUME NEW s \in Seq(Rows), NEW k
    PROVE  /\ k \in KeysOf(s) => \E n \in At(s, k) : ValueIn(s, k) = s[n].val
           /\ (\A m, n \in At(s, k) : m = n) => ValueIn(s, k) = LastIn(s, k)
<1>1. ASSUME k \in KeysOf(s)
      PROVE  /\ Min(At(s, k)) \in At(s, k) /\ Index(s, k) \in At(s, k)
             /\ ValueIn(s, k) = s[Min(At(s, k))].val /\ LastIn(s, k) = s[Index(s, k)].val
    BY <1>1, KeyPositions DEF ValueIn, LastIn, RowAt
<1>2. ASSUME k \notin KeysOf(s) PROVE ValueIn(s, k) = None /\ LastIn(s, k) = None
    BY <1>2 DEF ValueIn, LastIn
<1>3. ASSUME k \in KeysOf(s), \A m, n \in At(s, k) : m = n
      PROVE  ValueIn(s, k) = LastIn(s, k)
    <2>1. Min(At(s, k)) = Index(s, k)
        BY <1>1, <1>3
    <2> QED BY <1>1, <1>3, <2>1
<1> QED BY <1>1, <1>2, <1>3

\* The parts of an anchor.
LEMMA RowAnchorParts ==
    ASSUME NEW scope, NEW k
    PROVE  /\ RowAnchor(scope, k)[1] = "xref" /\ RowAnchor(scope, k)[2] = scope /\ RowAnchor(scope, k)[3] = k
           /\ RowAnchor(scope, k) # Telegraf
BY DEF RowAnchor, Telegraf

LEMMA FieldAnchorParts ==
    /\ \A f \in DnsFields : FieldOf(Rescope(f)) = f /\ Rescope(f)[1] # "xref" /\ Rescope(f) # Telegraf
    /\ Telegraf[1] # "xref"
<1>1. \A f \in DnsFields : FieldOf(Rescope(f)) = f /\ Rescope(f)[1] # "xref" /\ Rescope(f) # Telegraf
    BY DEF DnsFields, NestedFields, Rescope, FieldOf, Telegraf
<1> QED BY <1>1 DEF Telegraf

\* Rows are looked up in the list of their scope.
LEMMA RowLookup ==
    ASSUME NEW c, NEW scope, NEW k
    PROVE  /\ Resolve(c, RowAnchor(scope, k)) = ValueIn(RowsIn(c, scope), k)
           /\ Held(c, RowAnchor(scope, k)) = LastIn(RowsIn(c, scope), k)
<1>1. Resolve(c, RowAnchor(scope, k)) = ValueIn(RowsIn(c, scope), k)
    BY RowAnchorParts DEF Resolve
<1>2. Held(c, RowAnchor(scope, k)) = LastIn(RowsIn(c, scope), k)
    BY RowAnchorParts DEF Held
<1> QED BY <1>1, <1>2

\* How the resolver takes an anchor apart.
LEMMA AnchorResolve ==
    ASSUME NEW c
    PROVE  /\ \A k \in Keys : Resolve(c, RowAnchor("rule", k)) = ValueIn(c.rules, k)
           /\ \A k \in Keys : Resolve(c, RowAnchor("alias", k)) = ValueIn(c.aliases, k)
           /\ \A k \in Keys : Resolve(c, RowAnchor("haproxy_backend", k)) = ValueIn(Backends(c), k)
           /\ \A f \in DnsFields : Resolve(c, Rescope(f)) = Stringify(IF c.dns = None THEN None ELSE c.dns[f])
           /\ Resolve(c, Telegraf) = Stringify(IF c.pkgs = None THEN None ELSE c.pkgs.telegraf)
<1>1. ASSUME NEW k, NEW scope PROVE Resolve(c, RowAnchor(scope, k)) = ValueIn(RowsIn(c, scope), k)
    BY RowLookup
<1>2. RowsIn(c, "rule") = c.rules /\ RowsIn(c, "alias") = c.aliases /\ RowsIn(c, "haproxy_backend") = Backends(c)
    BY DEF RowsIn
<1>3. ASSUME NEW f \in DnsFields
      PROVE  Resolve(c, Rescope(f)) = Stringify(IF c.dns = None THEN None ELSE c.dns[f])
    <2>1. Resolve(c, Rescope(f)) = Stringify(IF c.dns = None \/ FieldOf(Rescope(f)) \notin DnsFields THEN None
                                             ELSE c.dns[FieldOf(Rescope(f))])
        BY FieldAnchorParts DEF Resolve
    <2> QED BY <2>1, FieldAnchorParts
<1>4. Resolve(c, Telegraf) = Stringify(IF c.pkgs = None THEN None ELSE c.pkgs.telegraf)
    BY FieldAnchorParts DEF Resolve
<1> QED BY <1>1, <1>2, <1>3, <1>4

\* What a plain anchor holds.
LEMMA PlainHeld ==
    ASSUME NEW c
    PROVE  /\ \A k \in Keys : Held(c, RowAnchor("rule", k)) = LastIn(c.rules, k)
           /\ \A k \in Keys : Held(c, RowAnchor("alias", k)) = LastIn(c.aliases, k)
           /\ \A f \in DnsFields : Held(c, Rescope(f)) = IF c.dns = None THEN None ELSE c.dns[f]
<1>1. ASSUME NEW k, NEW scope PROVE Held(c, RowAnchor(scope, k)) = LastIn(RowsIn(c, scope), k)
    BY RowLookup
<1>2. RowsIn(c, "rule") = c.rules /\ RowsIn(c, "alias") = c.aliases
    BY DEF RowsIn
<1>3. ASSUME NEW f \in DnsFields PROVE Held(c, Rescope(f)) = IF c.dns = None THEN None ELSE c.dns[f]
    BY FieldAnchorParts DEF Held
<1> QED BY <1>1, <1>2, <1>3

\* What no rows share, the resolver shows as it is held.
LEMMA HeldShown ==
    ASSUME NEW c, IsConfig(c), NEW a \in PlainAnchors, Sole(c, a)
    PROVE  Resolve(c, a) = Shown(a, Held(c, a))
<1>1. ASSUME NEW k \in Keys, NEW scope \in {"rule", "alias"}, a = RowAnchor(scope, k)
      PROVE  Resolve(c, a) = Shown(a, Held(c, a))
    <2> DEFINE s == RowsIn(c, scope)
    <2>1. s \in Seq(Rows)
        BY DEF RowsIn, IsConfig
    <2>2. a[1] = "xref" /\ a[2] = scope /\ a[3] = k
        BY <1>1, RowAnchorParts
    <2>3. \A m, n \in At(s, k) : m = n
        BY <2>2 DEF Sole
    <2>4. Resolve(c, a) = ValueIn(s, k) /\ Held(c, a) = LastIn(s, k)
        BY <1>1, RowLookup
    <2> HIDE DEF s
    <2> QED BY <2>1, <2>2, <2>3, <2>4, ListValue DEF Shown
<1>2. ASSUME NEW f \in DnsFields, a = Rescope(f) PROVE Resolve(c, a) = Shown(a, Held(c, a))
    <2> DEFINE v == IF c.dns = None THEN None ELSE c.dns[f]
    <2>1. Resolve(c, a) = Stringify(v) /\ Held(c, a) = v
        BY <1>2, AnchorResolve, PlainHeld
    <2>2. Shown(a, v) = Stringify(v)
        BY <1>2, FieldAnchorParts DEF Shown
    <2> HIDE DEF v
    <2> QED BY <2>1, <2>2
<1> QED BY <1>1, <1>2 DEF PlainAnchors

\* The rows of a list are among the anchors of a configuration; and one of the values
\* enumerated under an anchor is what it resolves to.
Enumerates(c, scope, s) ==
    \A m \in DOMAIN s : <<RowAnchor(scope, s[m].key), s[m].val>> \in EnumerateAnchors(c)
Resolves(c, anchor) == \E q \in EnumerateAnchors(c) : q[1] = anchor /\ Resolve(c, anchor) = Shown(q[1], q[2])

\* Of any configuration every row resolves to a value enumerated under its anchor.
LEMMA RowRoundTrip ==
    ASSUME NEW c, NEW scope, NEW s \in Seq(Rows), NEW n \in DOMAIN s, Enumerates(c, scope, s),
           Resolve(c, RowAnchor(scope, s[n].key)) = ValueIn(s, s[n].key)
    PROVE  /\ s[n].key \in Keys /\ s[n].val \in Vals
           /\ Resolves(c, RowAnchor(scope, s[n].key))
           /\ LastIn(s, s[n].key) = s[n].val \/ \E m, l \in At(s, s[n].key) : m # l
<1> DEFINE k == s[n].key
<1>1. k \in Keys /\ s[n].val \in Vals
    <2>1. s[n] \in Rows
        OBVIOUS
    <2> QED BY <2>1 DEF Rows
<1>2. k \in KeysOf(s) /\ n \in At(s, k)
    BY DEF KeysOf, At
<1> HIDE DEF k
<1>3. PICK m \in At(s, k) : ValueIn(s, k) = s[m].val
    BY <1>2, ListValue
<1>4. m \in DOMAIN s /\ s[m].key = k
    BY DEF At
<1> DEFINE q == <<RowAnchor(scope, k), s[m].val>>
<1>5. q \in EnumerateAnchors(c) /\ q[1] = RowAnchor(scope, k) /\ q[2] = s[m].val
    BY <1>4 DEF Enumerates
<1> HIDE DEF q
<1>6. Resolve(c, RowAnchor(scope, k)) = Shown(q[1], q[2])
    BY <1>3, <1>5, RowAnchorParts DEF Shown, k
<1>7. LastIn(s, k) = s[n].val \/ \E x, l \in At(s, k) : x # l
    <2>1. Index(s, k) \in At(s, k) /\ LastIn(s, k) = s[Index(s, k)].val
        BY <1>2, KeyPositions DEF LastIn, RowAt
    <2> QED BY <1>2, <2>1
<1>8. Resolves(c, RowAnchor(scope, k))
    BY <1>5, <1>6 DEF Resolves
<1> QED BY <1>1, <1>7, <1>8 DEF k

\* The anchors of a configuration, one by one.
LEMMA RoundTrip ==
    ASSUME NEW c, IsConfig(c), NEW p \in EnumerateAnchors(c)
    PROVE  /\ p[1] \in AllAnchors /\ p[2] \in Vals \cup {None}
           /\ Resolves(c, p[1])
           /\ p[1] \in PlainAnchors /\ Sole(c, p[1]) => Held(c, p[1]) = p[2]
<1> DEFINE Goal == /\ p[1] \in AllAnchors /\ p[2] \in Vals \cup {None}
                   /\ Resolves(c, p[1])
                   /\ p[1] \in PlainAnchors /\ Sole(c, p[1]) => Held(c, p[1]) = p[2]
<1>1. ASSUME NEW scope \in {"rule", "alias", "haproxy_backend"}, NEW n \in DOMAIN RowsIn(c, scope),
             p = <<RowAnchor(scope, RowsIn(c, scope)[n].key), RowsIn(c, scope)[n].val>>
      PROVE  Goal
    <2> DEFINE s == RowsIn(c, scope)
               k == s[n].key
    <2>1. s \in Seq(Rows)
        BY DEF RowsIn, IsConfig, Backends, Packages
    <2>2. Enumerates(c, scope, s)
        BY DEF EnumerateAnchors, RowsIn, Enumerates
    <2>3. Resolve(c, RowAnchor(scope, k)) = ValueIn(s, k)
        BY RowAnchorParts DEF Resolve
    <2>4. Held(c, RowAnchor(scope, k)) = LastIn(s, k)
        BY RowAnchorParts DEF Held
    <2>5. p[1] = RowAnchor(scope, k) /\ p[2] = s[n].val
        BY <1>1
    <2>6. Sole(c, p[1]) => \A m, l \in At(s, k) : m = l
        BY <2>5, RowAnchorParts DEF Sole
    <2> HIDE DEF s
    <2>7. /\ s[n].key \in Keys /\ s[n].val \in Vals
          /\ Resolves(c, RowAnchor(scope, s[n].key))
          /\ LastIn(s, s[n].key) = s[n].val \/ \E m, l \in At(s, s[n].key) : m # l
        <3>1. n \in DOMAIN s
            BY DEF s
        <3>2. Resolve(c, RowAnchor(scope, s[n].key)) = ValueIn(s, s[n].key)
            BY <2>3
        <3> QED BY <3>1, <3>2, <2>1, <2>2, RowRoundTrip
    <2>8. p[1] \in AllAnchors
        BY <2>5, <2>7 DEF AllAnchors, PlainAnchors
    <2>9. Sole(c, p[1]) => Held(c, p[1]) = p[2]
        BY <2>4, <2>5, <2>6, <2>7
    <2> QED BY <2>5, <2>7, <2>8, <2>9
<1>2. ASSUME c.dns # None, NEW f \in DnsFields, p = <<Rescope(f), c.dns[f]>> PROVE Goal
    <2>1. c.dns[f] \in Vals \cup {None}
        BY <1>2 DEF IsConfig, Dns
    <2>2. p[1] = Rescope(f) /\ p[2] = c.dns[f]
        BY <1>2
    <2>3. Resolve(c, p[1]) = Shown(p[1], p[2]) /\ Held(c, p[1]) = p[2]
        BY <1>2, <2>2, AnchorResolve, PlainHeld, FieldAnchorParts DEF Shown
    <2>4. p[1] \in AllAnchors
        BY <2>2 DEF AllAnchors, PlainAnchors
    <2>5. Resolves(c, p[1])
        BY <2>3 DEF Resolves
    <2> QED BY <2>1, <2>2, <2>3, <2>4, <2>5
<1>3. ASSUME c.pkgs # None, p = <<Telegraf, c.pkgs.telegraf>> PROVE Goal
    <2>1. c.pkgs.telegraf \in Vals \cup {None}
        BY <1>3 DEF IsConfig, Packages
    <2>2. p[1] = Telegraf /\ p[2] = c.pkgs.telegraf
        BY <1>3
    <2>3. Resolve(c, p[1]) = Shown(p[1], p[2])
        BY <1>3, <2>2, AnchorResolve, FieldAnchorParts DEF Shown
    <2>4. p[1] \in AllAnchors /\ p[1] \notin PlainAnchors
        BY <2>2, RowAnchorParts, FieldAnchorParts DEF AllAnchors, PlainAnchors
    <2>5. Resolves(c, p[1])
        BY <2>3 DEF Resolves
    <2> QED BY <2>1, <2>2, <2>4, <2>5
<1>4. \/ \E scope \in {"rule", "alias", "haproxy_backend"} : \E n \in DOMAIN RowsIn(c, scope) :
            p = <<RowAnchor(scope, RowsIn(c, scope)[n].key), RowsIn(c, scope)[n].val>>
      \/ c.dns # None /\ \E f \in DnsFields : p = <<Rescope(f), c.dns[f]>>
      \/ c.pkgs # None /\ p = <<Telegraf, c.pkgs.telegraf>>
    <2>1. RowsIn(c, "rule") = c.rules /\ RowsIn(c, "alias") = c.aliases /\ RowsIn(c, "haproxy_backend") = Backends(c)
        BY DEF RowsIn
    <2> QED BY <2>1 DEF EnumerateAnchors
<1> QED BY <1>1, <1>2, <1>3, <1>4

\* The rows no later row hides are the rows at their keys.
LEMMA VisibleIs ==
    ASSUME NEW s \in Seq(Rows)
    PROVE  Visible(s) = {<<Index(s, k), RowAt(s, k)>> : k \in KeysOf(s)}
<1>1. ASSUME NEW k \in KeysOf(s) PROVE <<Index(s, k), RowAt(s, k)>> \in Visible(s)
    <2> DEFINE i == Index(s, k)
    <2>1. i \in DOMAIN s /\ s[i].key = k /\ RowAt(s, k) = s[i]
        BY KeyRow
    <2>2. \A n \in At(s, k) : n <= i
        BY KeyPositions
    <2> HIDE DEF i
    <2>3. ASSUME NEW l \in DOMAIN s, l > i PROVE s[l].key # s[i].key
        BY <2>1, <2>2, <2>3 DEF At
    <2>4. <<i, s[i]>> \in Visible(s)
        BY <2>1, <2>3 DEF Visible
    <2> QED BY <2>1, <2>4 DEF i
<1>2. ASSUME NEW n \in DOMAIN s, \A l \in DOMAIN s : l > n => s[l].key # s[n].key
      PROVE  s[n].key \in KeysOf(s) /\ Index(s, s[n].key) = n /\ RowAt(s, s[n].key) = s[n]
    <2> DEFINE k == s[n].key
    <2>1. k \in KeysOf(s) /\ n \in At(s, k)
        BY DEF KeysOf, At
    <2> HIDE DEF k
    <2>2. Index(s, k) \in DOMAIN s /\ s[Index(s, k)].key = k /\ n <= Index(s, k)
        BY <2>1, KeyPositions DEF At
    <2>3. ~(Index(s, k) > n)
        BY <1>2, <2>2 DEF k
    <2>4. Index(s, k) = n
        BY <2>2, <2>3
    <2> QED BY <2>1, <2>4 DEF k, RowAt
<1>3. \A x \in Visible(s) : x \in {<<Index(s, k), RowAt(s, k)>> : k \in KeysOf(s)}
    BY <1>2 DEF Visible
<1>4. \A x \in {<<Index(s, k), RowAt(s, k)>> : k \in KeysOf(s)} : x \in Visible(s)
    BY <1>1
<1> QED BY <1>3, <1>4

\* _diff_list of an ordered list is empty only when the visible rows are equal.
LEMMA RulesEqual ==
    ASSUME NEW a \in Seq(Rows), NEW b \in Seq(Rows)
    PROVE  Visible(a) = Visible(b)
           <=> /\ KeysOf(a) = KeysOf(b)
               /\ \A k \in KeysOf(a) : RowAt(a, k) = RowAt(b, k) /\ Index(a, k) = Index(b, k)
<1>1. ASSUME KeysOf(a) = KeysOf(b),
             \A k \in KeysOf(a) : RowAt(a, k) = RowAt(b, k) /\ Index(a, k) = Index(b, k)
      PROVE  Visible(a) = Visible(b)
    <2>1. {<<Index(a, k), RowAt(a, k)>> : k \in KeysOf(a)} = {<<Index(b, k), RowAt(b, k)>> : k \in KeysOf(b)}
        BY <1>1
    <2> QED BY <2>1, VisibleIs
<1>2. ASSUME NEW s \in Seq(Rows), NEW t \in Seq(Rows), Visible(s) = Visible(t), NEW k \in KeysOf(s)
      PROVE  k \in KeysOf(t) /\ RowAt(s, k) = RowAt(t, k) /\ Index(s, k) = Index(t, k)
    <2>1. <<Index(s, k), RowAt(s, k)>> \in Visible(t)
        BY <1>2, VisibleIs
    <2>2. PICK l \in KeysOf(t) : <<Index(s, k), RowAt(s, k)>> = <<Index(t, l), RowAt(t, l)>>
        BY <2>1, VisibleIs
    <2>3. Index(s, k) = Index(t, l) /\ RowAt(s, k) = RowAt(t, l)
        BY <2>2
    <2>4. RowAt(s, k).key = k /\ RowAt(t, l).key = l
        BY KeyRow
    <2> QED BY <2>3, <2>4
<1>3. ASSUME Visible(a) = Visible(b)
      PROVE  /\ KeysOf(a) = KeysOf(b)
             /\ \A k \in KeysOf(a) : RowAt(a, k) = RowAt(b, k) /\ Index(a, k) = Index(b, k)
    <2>1. \A k \in KeysOf(a) : k \in KeysOf(b) /\ RowAt(a, k) = RowAt(b, k) /\ Index(a, k) = Index(b, k)
        BY <1>2, <1>3, Zenon
    <2>2. \A k \in KeysOf(b) : k \in KeysOf(a)
        BY <1>2, <1>3, Zenon
    <2> QED BY <2>1, <2>2
<1> QED BY <1>1, <1>3

\* _diff_list of any list is empty only when the visible rows are the same.
LEMMA AliasesEqual ==
    ASSUME NEW a \in Seq(Rows), NEW b \in Seq(Rows)
    PROVE  {p[2] : p \in Visible(a)} = {p[2] : p \in Visible(b)}
           <=> KeysOf(a) = KeysOf(b) /\ \A k \in KeysOf(a) : RowAt(a, k) = RowAt(b, k)
<1> DEFINE V(s) == {p[2] : p \in Visible(s)}
<1>1. ASSUME NEW s \in Seq(Rows) PROVE V(s) = {RowAt(s, k) : k \in KeysOf(s)}
    <2>1. Visible(s) = {<<Index(s, k), RowAt(s, k)>> : k \in KeysOf(s)}
        BY VisibleIs
    <2>2. \A p \in Visible(s) : \E k \in KeysOf(s) : p[2] = RowAt(s, k)
        BY <2>1
    <2>3. ASSUME NEW k \in KeysOf(s) PROVE \E p \in Visible(s) : p[2] = RowAt(s, k)
        <3> DEFINE p == <<Index(s, k), RowAt(s, k)>>
        <3>1. p \in Visible(s) /\ p[2] = RowAt(s, k)
            BY <2>1
        <3> QED BY <3>1
    <2>4. \A r \in V(s) : r \in {RowAt(s, k) : k \in KeysOf(s)}
        BY <2>2
    <2>5. \A r \in {RowAt(s, k) : k \in KeysOf(s)} : r \in V(s)
        BY <2>3
    <2> QED BY <2>4, <2>5
<1>2. \A k \in KeysOf(a) : RowAt(a, k).key = k
    BY KeyRow
<1>3. \A k \in KeysOf(b) : RowAt(b, k).key = k
    BY KeyRow
<1>4. V(a) = {RowAt(a, k) : k \in KeysOf(a)} /\ V(b) = {RowAt(b, k) : k \in KeysOf(b)}
    BY <1>1
<1> HIDE DEF V
<1>5. ASSUME V(a) = V(b)
      PROVE  KeysOf(a) = KeysOf(b) /\ \A k \in KeysOf(a) : RowAt(a, k) = RowAt(b, k)
    <2>1. ASSUME NEW k \in KeysOf(a) PROVE k \in KeysOf(b) /\ RowAt(a, k) = RowAt(b, k)
        <3>1. PICK l \in KeysOf(b) : RowAt(a, k) = RowAt(b, l)
            BY <1>4, <1>5
        <3> QED BY <3>1, <1>2, <1>3
    <2>2. ASSUME NEW k \in KeysOf(b) PROVE k \in KeysOf(a)
        <3>1. PICK l \in KeysOf(a) : RowAt(b, k) = RowAt(a, l)
            BY <1>4, <1>5
        <3> QED BY <3>1, <1>2, <1>3
    <2> QED BY <2>1, <2>2
<1>6. ASSUME KeysOf(a) = KeysOf(b), \A k \in KeysOf(a) : RowAt(a, k) = RowAt(b, k)
      PROVE  V(a) = V(b)
    BY <1>4, <1>6
<1> QED BY <1>5, <1>6 DEF V

\* What an empty section of a list says.
LEMMA ListUntouched ==
    ASSUME NEW a, NEW b, NEW ordered \in BOOLEAN
    PROVE  Untouched(DiffList(a, b, ordered))
           <=> KeysOf(a) = KeysOf(b) /\ \A k \in KeysOf(a) : RowAt(a, k) = RowAt(b, k)
<1> DEFINE d == DiffList(a, b, ordered)
<1>1. /\ d.added = {RowAt(b, k) : k \in KeysOf(b) \ KeysOf(a)}
      /\ d.removed = {RowAt(a, k) : k \in KeysOf(a) \ KeysOf(b)}
      /\ d.modified = {k \in KeysOf(a) \cap KeysOf(b) : RowAt(a, k) # RowAt(b, k)}
    BY DEF DiffList
<1> HIDE DEF d
<1>2. d.added = {} <=> KeysOf(b) \subseteq KeysOf(a)
    BY <1>1
<1>3. d.removed = {} <=> KeysOf(a) \subseteq KeysOf(b)
    BY <1>1
<1>4. d.modified = {} <=> \A k \in KeysOf(a) \cap KeysOf(b) : RowAt(a, k) = RowAt(b, k)
    BY <1>1
<1>5. Untouched(d) <=> KeysOf(a) = KeysOf(b) /\ \A k \in KeysOf(a) : RowAt(a, k) = RowAt(b, k)
    BY <1>2, <1>3, <1>4 DEF Untouched
<1> QED BY <1>5 DEF d

\* An optional record is untouched when it is the same, provided that the changes are
\* empty only for equal records.
LEMMA OptionalUntouched ==
    ASSUME NEW a, NEW b, NEW changes, None \notin {a, b} => (changes = {} <=> a = b)
    PROVE  Untouched(DiffOptional(a, b, changes)) <=> a = b
<1> DEFINE d == DiffOptional(a, b, changes)
<1>1. /\ d.added = IF a = None THEN {b} \ {None} ELSE {}
      /\ d.removed = IF b = None THEN {a} \ {None} ELSE {}
      /\ d.modified = IF None \in {a, b} THEN {} ELSE changes
    BY DEF DiffOptional
<1> HIDE DEF d
<1>2. Untouched(d) <=> a = b
    BY <1>1 DEF Untouched
<1> QED BY <1>2 DEF d

\* The diff of two configurations is empty only when they are the same.
LEMMA EmptyIsSame ==
    ASSUME NEW a, NEW b, IsConfig(a), IsConfig(b)
    PROVE  IsEmpty(DiffConfigs(a, b)) <=> SameConfig(a, b)
<1> DEFINE d == DiffConfigs(a, b)
<1>1. /\ d.rules = DiffList(a.rules, b.rules, TRUE) /\ d.aliases = DiffList(a.aliases, b.aliases, FALSE)
      /\ d.dns = DiffOptional(a.dns, b.dns, FieldChanges(a.dns, b.dns))
      /\ d.pkgs = DiffOptional(a.pkgs, b.pkgs, PackageChanges(a.pkgs, b.pkgs))
      /\ d["rules"] = d.rules /\ d["aliases"] = d.aliases /\ d["dns"] = d.dns /\ d["pkgs"] = d.pkgs
    BY DEF DiffConfigs
<1>2. /\ DiffList(a.rules, b.rules, TRUE).reordered
           = {k \in KeysOf(a.rules) \cap KeysOf(b.rules) : Index(a.rules, k) # Index(b.rules, k)}
      /\ DiffList(a.aliases, b.aliases, FALSE).reordered = {}
    BY DEF DiffList, Moved
<1> HIDE DEF d
<1>3. /\ a.rules \in Seq(Rows) /\ b.rules \in Seq(Rows)
      /\ a.aliases \in Seq(Rows) /\ b.aliases \in Seq(Rows)
    BY DEF IsConfig
<1>4. Untouched(d.rules) /\ d.rules.reordered = {} <=> Visible(a.rules) = Visible(b.rules)
    <2>1. Untouched(d.rules)
          <=> /\ KeysOf(a.rules) = KeysOf(b.rules)
              /\ \A k \in KeysOf(a.rules) : RowAt(a.rules, k) = RowAt(b.rules, k)
        BY <1>1, ListUntouched
    <2>2. d.rules.reordered = {}
          <=> \A k \in KeysOf(a.rules) \cap KeysOf(b.rules) : Index(a.rules, k) = Index(b.rules, k)
        BY <1>1, <1>2
    <2>3. Visible(a.rules) = Visible(b.rules)
          <=> /\ KeysOf(a.rules) = KeysOf(b.rules)
              /\ \A k \in KeysOf(a.rules) : /\ RowAt(a.rules, k) = RowAt(b.rules, k)
                                            /\ Index(a.rules, k) = Index(b.rules, k)
        BY <1>3, RulesEqual
    <2> QED BY <2>1, <2>2, <2>3
<1>5. Untouched(d.aliases) /\ d.aliases.reordered = {}
      <=> {p[2] : p \in Visible(a.aliases)} = {p[2] : p \in Visible(b.aliases)}
    <2>1. Untouched(d.aliases)
          <=> /\ KeysOf(a.aliases) = KeysOf(b.aliases)
              /\ \A k \in KeysOf(a.aliases) : RowAt(a.aliases, k) = RowAt(b.aliases, k)
        BY <1>1, ListUntouched
    <2>2. {p[2] : p \in Visible(a.aliases)} = {p[2] : p \in Visible(b.aliases)}
          <=> /\ KeysOf(a.aliases) = KeysOf(b.aliases)
              /\ \A k \in KeysOf(a.aliases) : RowAt(a.aliases, k) = RowAt(b.aliases, k)
        BY <1>3, AliasesEqual
    <2> QED BY <2>1, <2>2, <1>1, <1>2
<1>6. Untouched(d.dns) <=> a.dns = b.dns
    <2>1. ASSUME a.dns # None, b.dns # None PROVE FieldChanges(a.dns, b.dns) = {} <=> a.dns = b.dns
        <3>1. a.dns \in Dns /\ b.dns \in Dns
            BY <2>1 DEF IsConfig
        <3>2. FieldChanges(a.dns, b.dns) = {} <=> \A f \in DOMAIN a.dns : a.dns[f] = b.dns[f]
            BY DEF FieldChanges
        <3> QED BY <3>1, <3>2 DEF Dns
    <2> QED BY <2>1, <1>1, OptionalUntouched
<1>7. Untouched(d.pkgs) <=> a.pkgs = b.pkgs
    <2>1. ASSUME a.pkgs # None, b.pkgs # None PROVE PackageChanges(a.pkgs, b.pkgs) = {} <=> a.pkgs = b.pkgs
        <3>1. a.pkgs \in Packages /\ b.pkgs \in Packages
            BY <2>1 DEF IsConfig
        <3>2. a.pkgs = b.pkgs <=> a.pkgs.telegraf = b.pkgs.telegraf /\ a.pkgs.haproxy = b.pkgs.haproxy
            BY <3>1 DEF Packages
        <3>3. PackageChanges(a.pkgs, b.pkgs) = {}
              <=> a.pkgs.telegraf = b.pkgs.telegraf /\ a.pkgs.haproxy = b.pkgs.haproxy
            BY DEF PackageChanges
        <3> QED BY <3>2, <3>3
    <2> QED BY <2>1, <1>1, OptionalUntouched
<1>8. IsEmpty(d) <=> /\ Untouched(d.rules) /\ Untouched(d.aliases) /\ Untouched(d.dns) /\ Untouched(d.pkgs)
                     /\ d.rules.reordered = {} /\ d.aliases.reordered = {}
    BY <1>1 DEF IsEmpty
<1>9. IsEmpty(d) <=> SameConfig(a, b)
    BY <1>4, <1>5, <1>6, <1>7, <1>8 DEF SameConfig
<1> QED BY <1>9 DEF d

\* The events of a list tell what the later list holds at their keys.
LEMMA ListTold ==
    ASSUME NEW s \in Seq(Rows), NEW t \in Seq(Rows), NEW ordered,
           NEW scope, NEW e \in ListEvents(DiffList(s, t, ordered), scope, t)
    PROVE  /\ e.kind \in EventKinds /\ e.val \in Vals
           /\ \E k \in Keys : /\ e.anchor = RowAnchor(scope, k)
                              /\ LastIn(t, k) = IF e.kind = "removed" THEN None ELSE e.val
<1> DEFINE d == DiffList(s, t, ordered)
<1>1. /\ d.added = {RowAt(t, k) : k \in KeysOf(t) \ KeysOf(s)}
      /\ d.removed = {RowAt(s, k) : k \in KeysOf(s) \ KeysOf(t)}
      /\ d.modified = {k \in KeysOf(s) \cap KeysOf(t) : RowAt(s, k) # RowAt(t, k)}
      /\ d.reordered \subseteq KeysOf(s) \cap KeysOf(t)
    BY DEF DiffList, Moved
<1> HIDE DEF d
<1>2. ASSUME NEW k \in KeysOf(t)
      PROVE  k \in Keys /\ RowAt(t, k).val \in Vals /\ LastIn(t, k) = RowAt(t, k).val
    BY KeyRow DEF Rows, LastIn
<1>3. ASSUME NEW r \in d.added, e = Event(RowAnchor(scope, r.key), "added", r.val)
      PROVE  \E k \in KeysOf(t) : e = Event(RowAnchor(scope, k), "added", RowAt(t, k).val)
    <2>1. PICK k \in KeysOf(t) : r = RowAt(t, k)
        BY <1>1
    <2>2. r.key = k
        BY <2>1, KeyRow
    <2> QED BY <1>3, <2>1, <2>2
<1>4. ASSUME NEW r \in d.removed, e = Event(RowAnchor(scope, r.key), "removed", r.val)
      PROVE  \E k \in KeysOf(s) \ KeysOf(t) : e = Event(RowAnchor(scope, k), "removed", RowAt(s, k).val)
    <2>1. PICK k \in KeysOf(s) \ KeysOf(t) : r = RowAt(s, k)
        BY <1>1
    <2>2. r.key = k
        BY <2>1, KeyRow
    <2> QED BY <1>4, <2>1, <2>2
<1>5. \/ \E r \in d.added : e = Event(RowAnchor(scope, r.key), "added", r.val)
      \/ \E r \in d.removed : e = Event(RowAnchor(scope, r.key), "removed", r.val)
      \/ \E k \in d.modified : e = Event(RowAnchor(scope, k), "modified", RowAt(t, k).val)
      \/ \E k \in d.reordered : e = Event(RowAnchor(scope, k), "reordered", RowAt(t, k).val)
    BY DEF ListEvents, d
<1>6. ASSUME NEW k \in KeysOf(t), NEW kind \in EventKinds \ {"removed"},
             e = Event(RowAnchor(scope, k), kind, RowAt(t, k).val)
      PROVE  /\ e.kind \in EventKinds /\ e.val \in Vals
             /\ \E x \in Keys : /\ e.anchor = RowAnchor(scope, x)
                                /\ LastIn(t, x) = IF e.kind = "removed" THEN None ELSE e.val
    <2>1. e.anchor = RowAnchor(scope, k) /\ e.kind = kind /\ e.val = RowAt(t, k).val
        BY <1>6 DEF Event
    <2> QED BY <2>1, <1>2
<1>7. ASSUME NEW k \in KeysOf(s) \ KeysOf(t), e = Event(RowAnchor(scope, k), "removed", RowAt(s, k).val)
      PROVE  /\ e.kind \in EventKinds /\ e.val \in Vals
             /\ \E x \in Keys : /\ e.anchor = RowAnchor(scope, x)
                                /\ LastIn(t, x) = IF e.kind = "removed" THEN None ELSE e.val
    <2>1. e.anchor = RowAnchor(scope, k) /\ e.kind = "removed" /\ e.val = RowAt(s, k).val
        BY <1>7 DEF Event
    <2>2. k \in Keys /\ RowAt(s, k).val \in Vals /\ LastIn(t, k) = None
        BY KeyRow DEF Rows, LastIn
    <2> QED BY <2>1, <2>2 DEF EventKinds
<1>8. {"added", "modified", "reordered"} \subseteq EventKinds \ {"removed"}
    BY DEF EventKinds
<1>9. \/ \E k \in KeysOf(t), kind \in {"added", "modified", "reordered"} :
            e = Event(RowAnchor(scope, k), kind, RowAt(t, k).val)
      \/ \E k \in KeysOf(s) \ KeysOf(t) : e = Event(RowAnchor(scope, k), "removed", RowAt(s, k).val)
    BY <1>1, <1>3, <1>4, <1>5
<1> QED BY <1>6, <1>7, <1>8, <1>9

\* A key whose value differs between two lists has an event that says so.
LEMMA ListLogged ==
    ASSUME NEW s \in Seq(Rows), NEW t \in Seq(Rows), NEW ordered,
           NEW scope, NEW k \in Keys, LastIn(s, k) # LastIn(t, k)
    PROVE  \E e \in ListEvents(DiffList(s, t, ordered), scope, t) :
              e.anchor = RowAnchor(scope, k) /\ e.kind # "reordered"
<1> DEFINE d == DiffList(s, t, ordered)
<1>1. /\ d.added = {RowAt(t, x) : x \in KeysOf(t) \ KeysOf(s)}
      /\ d.removed = {RowAt(s, x) : x \in KeysOf(s) \ KeysOf(t)}
      /\ d.modified = {x \in KeysOf(s) \cap KeysOf(t) : RowAt(s, x) # RowAt(t, x)}
    BY DEF DiffList
<1> HIDE DEF d
<1>2. /\ \A r \in d.added : Event(RowAnchor(scope, r.key), "added", r.val) \in ListEvents(d, scope, t)
      /\ \A r \in d.removed : Event(RowAnchor(scope, r.key), "removed", r.val) \in ListEvents(d, scope, t)
      /\ \A x \in d.modified : Event(RowAnchor(scope, x), "modified", RowAt(t, x).val) \in ListEvents(d, scope, t)
    BY DEF ListEvents
<1>3. /\ k \in KeysOf(s) => LastIn(s, k) = RowAt(s, k).val /\ RowAt(s, k).key = k
      /\ k \in KeysOf(t) => LastIn(t, k) = RowAt(t, k).val /\ RowAt(t, k).key = k
      /\ k \notin KeysOf(s) => LastIn(s, k) = None
      /\ k \notin KeysOf(t) => LastIn(t, k) = None
    BY KeyRow DEF LastIn
<1>4. ASSUME NEW kind \in {"added", "removed", "modified"}, NEW v,
             Event(RowAnchor(scope, k), kind, v) \in ListEvents(d, scope, t)
      PROVE  \E e \in ListEvents(d, scope, t) : e.anchor = RowAnchor(scope, k) /\ e.kind # "reordered"
    <2> DEFINE e == Event(RowAnchor(scope, k), kind, v)
    <2>1. e.anchor = RowAnchor(scope, k) /\ e.kind = kind
        BY DEF Event
    <2> HIDE DEF e
    <2> QED BY <1>4, <2>1 DEF e
<1>5. \E kind \in {"added", "removed", "modified"}, v \in {RowAt(s, k).val, RowAt(t, k).val} :
         Event(RowAnchor(scope, k), kind, v) \in ListEvents(d, scope, t)
    <2>1. CASE k \in KeysOf(t) \ KeysOf(s)
        <3>1. RowAt(t, k) \in d.added /\ RowAt(t, k).key = k
            BY <2>1, <1>1, <1>3
        <3> QED BY <3>1, <1>2
    <2>2. CASE k \in KeysOf(s) \ KeysOf(t)
        <3>1. RowAt(s, k) \in d.removed /\ RowAt(s, k).key = k
            BY <2>2, <1>1, <1>3
        <3> QED BY <3>1, <1>2
    <2>3. CASE k \in KeysOf(s) \cap KeysOf(t)
        <3>1. k \in d.modified
            BY <2>3, <1>1, <1>3
        <3> QED BY <3>1, <1>2
    <2> QED BY <2>1, <2>2, <2>3, <1>3
<1>6. \E e \in ListEvents(d, scope, t) : e.anchor = RowAnchor(scope, k) /\ e.kind # "reordered"
    BY <1>4, <1>5
<1> QED BY <1>6 DEF d

\* The optional value of a field.
FieldValue(w, f) == IF w = None THEN None ELSE w[f]

\* The events of the dns record tell what the later record holds.
LEMMA DnsTold ==
    ASSUME NEW a \in Dns \cup {None}, NEW b \in Dns \cup {None},
           NEW e \in DnsEvents(DiffOptional(a, b, FieldChanges(a, b)))
    PROVE  /\ e.kind \in EventKinds /\ e.val \in Vals \cup {None}
           /\ \E f \in DnsFields : /\ e.anchor = Rescope(f)
                                   /\ FieldValue(b, f) = IF e.kind = "removed" THEN None ELSE e.val
<1> DEFINE d == DiffOptional(a, b, FieldChanges(a, b))
           Told == /\ e.kind \in EventKinds /\ e.val \in Vals \cup {None}
                   /\ \E f \in DnsFields : /\ e.anchor = Rescope(f)
                                           /\ FieldValue(b, f) = IF e.kind = "removed" THEN None ELSE e.val
<1>1. /\ d.added = IF a = None THEN {b} \ {None} ELSE {}
      /\ d.removed = IF b = None THEN {a} \ {None} ELSE {}
      /\ d.modified = IF None \in {a, b} THEN {} ELSE FieldChanges(a, b)
    BY DEF DiffOptional
<1>2. \/ \E w \in d.added, f \in DnsFields : e = Event(Rescope(f), "added", w[f])
      \/ \E w \in d.removed, f \in DnsFields : e = Event(Rescope(f), "removed", w[f])
      \/ \E ch \in d.modified : e = ChangeEvent(Rescope(ch.field[1]), ch)
    BY DEF DnsEvents
<1> HIDE DEF d
<1>3. ASSUME NEW w \in d.added, NEW f \in DnsFields, e = Event(Rescope(f), "added", w[f]) PROVE Told
    <2>1. w = b /\ b # None /\ b \in Dns
        BY <1>1
    <2>2. e.kind = "added" /\ e.val = w[f] /\ e.anchor = Rescope(f)
        BY <1>3 DEF Event
    <2>3. b[f] \in Vals \cup {None}
        BY <2>1 DEF Dns
    <2> QED BY <2>1, <2>2, <2>3 DEF FieldValue, EventKinds
<1>4. ASSUME NEW w \in d.removed, NEW f \in DnsFields, e = Event(Rescope(f), "removed", w[f]) PROVE Told
    <2>1. w = a /\ b = None /\ a \in Dns
        BY <1>1
    <2>2. e.kind = "removed" /\ e.val = w[f] /\ e.anchor = Rescope(f)
        BY <1>4 DEF Event
    <2>3. a[f] \in Vals \cup {None}
        BY <2>1 DEF Dns
    <2> QED BY <2>1, <2>2, <2>3 DEF FieldValue, EventKinds
<1>5. ASSUME NEW ch \in d.modified, e = ChangeEvent(Rescope(ch.field[1]), ch) PROVE Told
    <2>1. a \in Dns /\ b \in Dns /\ a # None /\ b # None /\ ch \in FieldChanges(a, b)
        BY <1>1
    <2>2. PICK f \in DnsFields : ch = [field |-> ChangedField(f, a[f], b[f]), before |-> a[f], after |-> b[f]]
        BY <2>1 DEF FieldChanges, Dns
    <2>3. ch.field[1] = f /\ ch.before = a[f] /\ ch.after = b[f]
        <3>1. ChangedField(f, a[f], b[f])[1] = f
            BY DEF ChangedField
        <3> QED BY <2>2, <3>1
    <2>4. a[f] \in Vals \cup {None} /\ b[f] \in Vals \cup {None}
        BY <2>1 DEF Dns
    <2>5. \/ b[f] = None /\ e = Event(Rescope(f), "removed", a[f])
          \/ e = Event(Rescope(f), "added", b[f])
          \/ e = Event(Rescope(f), "modified", b[f])
        BY <1>5, <2>3 DEF ChangeEvent
    <2>6. /\ e.anchor = Rescope(f)
          /\ \/ b[f] = None /\ e.kind = "removed" /\ e.val = a[f]
             \/ e.kind \in {"added", "modified"} /\ e.val = b[f]
        BY <2>5 DEF Event
    <2> QED BY <2>1, <2>4, <2>6 DEF FieldValue, EventKinds
<1> QED BY <1>2, <1>3, <1>4, <1>5

\* A field that is no record and whose value differs has an event, and no event of a
\* record is a move.
LEMMA DnsLogged ==
    ASSUME NEW a \in Dns \cup {None}, NEW b \in Dns \cup {None}, NEW f \in DnsFields \ NestedFields,
           FieldValue(a, f) # FieldValue(b, f)
    PROVE  \E e \in DnsEvents(DiffOptional(a, b, FieldChanges(a, b))) :
              e.anchor = Rescope(f) /\ e.kind # "reordered"
<1> DEFINE d == DiffOptional(a, b, FieldChanges(a, b))
<1>1. /\ d.added = IF a = None THEN {b} \ {None} ELSE {}
      /\ d.removed = IF b = None THEN {a} \ {None} ELSE {}
      /\ d.modified = IF None \in {a, b} THEN {} ELSE FieldChanges(a, b)
    BY DEF DiffOptional
<1> HIDE DEF d
<1>2. /\ \A w \in d.added : Event(Rescope(f), "added", w[f]) \in DnsEvents(d)
      /\ \A w \in d.removed : Event(Rescope(f), "removed", w[f]) \in DnsEvents(d)
      /\ \A ch \in d.modified : Len(ch.field) = 1 => ChangeEvent(Rescope(ch.field[1]), ch) \in DnsEvents(d)
    BY DEF DnsEvents
<1>3. ASSUME NEW kind \in {"added", "removed", "modified"}, NEW v,
             Event(Rescope(f), kind, v) \in DnsEvents(d)
      PROVE  \E e \in DnsEvents(d) : e.anchor = Rescope(f) /\ e.kind # "reordered"
    <2> DEFINE e == Event(Rescope(f), kind, v)
    <2>1. e.anchor = Rescope(f) /\ e.kind = kind
        BY DEF Event
    <2> HIDE DEF e
    <2> QED BY <1>3, <2>1 DEF e
<1>4. \E e \in DnsEvents(d) : e.anchor = Rescope(f) /\ e.kind # "reordered"
    <2>1. CASE a = None
        <3>1. b \in d.added
            BY <2>1, <1>1 DEF FieldValue
        <3> QED BY <3>1, <1>2, <1>3
    <2>2. CASE b = None
        <3>1. a \in d.removed
            BY <2>2, <1>1 DEF FieldValue
        <3> QED BY <3>1, <1>2, <1>3
    <2>3. CASE a # None /\ b # None
        <3> DEFINE ch == [field |-> <<f>>, before |-> a[f], after |-> b[f]]
        <3>1. ch \in d.modified
            <4>1. ChangedField(f, a[f], b[f]) = <<f>>
                BY DEF ChangedField
            <4>2. f \in DOMAIN a /\ a[f] # b[f]
                BY <2>3 DEF Dns, FieldValue
            <4> QED BY <2>3, <1>1, <4>1, <4>2 DEF FieldChanges
        <3>2. ch.field[1] = f /\ Len(ch.field) = 1
            OBVIOUS
        <3> HIDE DEF ch
        <3>3. ChangeEvent(Rescope(f), ch) \in DnsEvents(d)
            BY <3>1, <3>2, <1>2
        <3>4. \E kind \in {"added", "removed", "modified"}, v \in {ch.before, ch.after} :
                 ChangeEvent(Rescope(f), ch) = Event(Rescope(f), kind, v)
            BY DEF ChangeEvent
        <3> QED BY <3>3, <3>4, <1>3
    <2> QED BY <2>1, <2>2, <2>3
<1> QED BY <1>4 DEF d

\* Events of packages are about telegraf.
LEMMA PackageTold ==
    ASSUME NEW a \in Packages \cup {None}, NEW b \in Packages \cup {None},
           NEW e \in PackageEvents(DiffOptional(a, b, PackageChanges(a, b)))
    PROVE  e.anchor = Telegraf /\ e.kind \in EventKinds /\ e.val \in Vals \cup {None}
<1> DEFINE d == DiffOptional(a, b, PackageChanges(a, b))
<1>1. /\ d.added \subseteq {b} \ {None}
      /\ d.removed \subseteq {a} \ {None}
      /\ d.modified = IF None \in {a, b} THEN {} ELSE PackageChanges(a, b)
    BY DEF DiffOptional
<1>2. \/ \E w \in d.added : e = Event(Telegraf, "added", w.telegraf)
      \/ \E w \in d.removed : e = Event(Telegraf, "removed", w.telegraf)
      \/ \E ch \in d.modified : ch.field = <<"telegraf", "url">> /\ e = ChangeEvent(Telegraf, ch)
    BY DEF PackageEvents
<1> HIDE DEF d
<1>3. \A w \in Packages : w.telegraf \in Vals \cup {None}
    BY DEF Packages
<1>4. CASE \E w \in d.added : e = Event(Telegraf, "added", w.telegraf)
    BY <1>4, <1>1, <1>3 DEF Event, EventKinds
<1>5. CASE \E w \in d.removed : e = Event(Telegraf, "removed", w.telegraf)
    BY <1>5, <1>1, <1>3 DEF Event, EventKinds
<1>6. ASSUME NEW ch \in d.modified, e = ChangeEvent(Telegraf, ch)
      PROVE  e.anchor = Telegraf /\ e.kind \in EventKinds /\ e.val \in Vals \cup {None}
    <2>1. a \in Packages /\ b \in Packages /\ ch \in PackageChanges(a, b)
        BY <1>1
    <2>2. ch.before \in Vals \cup {None} /\ ch.after \in Vals \cup {None}
        BY <2>1, <1>3 DEF PackageChanges
    <2>3. \E kind \in {"added", "removed", "modified"}, v \in {ch.before, ch.after} : e = Event(Telegraf, kind, v)
        BY <1>6 DEF ChangeEvent
    <2> QED BY <2>2, <2>3 DEF Event, EventKinds
<1> QED BY <1>2, <1>4, <1>5, <1>6

\* The plain anchors are those whose changes are logged.
LEMMA PlainIsLogged ==
    /\ Telegraf \notin PlainAnchors
    /\ \A a \in AllAnchors : a \in PlainAnchors <=> ~Unlogged(a)
<1>1. ASSUME NEW k \in Keys, NEW scope \in {"rule", "alias"}
      PROVE  RowAnchor(scope, k) # Telegraf /\ ~Unlogged(RowAnchor(scope, k))
    <2>1. ASSUME NEW f \in NestedFields PROVE RowAnchor(scope, k) # Rescope(f)
        <3>1. f \in DnsFields
            BY DEF DnsFields
        <3>2. Rescope(f)[1] # "xref"
            BY <3>1, FieldAnchorParts
        <3> QED BY <3>2, RowAnchorParts
    <2> QED BY <2>1, RowAnchorParts DEF Unlogged
<1>2. ASSUME NEW f \in DnsFields \ NestedFields PROVE Rescope(f) # Telegraf /\ ~Unlogged(Rescope(f))
    <2>1. \A g \in NestedFields : Rescope(f) # Rescope(g)
        <3>1. \A g \in NestedFields : FieldOf(Rescope(g)) = g /\ FieldOf(Rescope(f)) = f
            BY FieldAnchorParts DEF DnsFields
        <3> QED BY <3>1
    <2>2. Rescope(f)[2] # "haproxy_backend"
        BY DEF Rescope
    <2> QED BY <2>1, <2>2, FieldAnchorParts DEF Unlogged
<1>3. ASSUME NEW k \in Keys PROVE Unlogged(RowAnchor("haproxy_backend", k))
    BY RowAnchorParts DEF Unlogged
<1>4. Unlogged(Telegraf) /\ \A f \in NestedFields : Unlogged(Rescope(f))
    BY DEF Unlogged
<1>5. \A a \in PlainAnchors : a # Telegraf /\ ~Unlogged(a)
    BY <1>1, <1>2 DEF PlainAnchors
<1> QED BY <1>3, <1>4, <1>5 DEF AllAnchors

\* The parts of a configuration.
LEMMA ConfigParts ==
    ASSUME NEW c, IsConfig(c)
    PROVE  /\ c.rules \in Seq(Rows) /\ c.aliases \in Seq(Rows)
           /\ c.dns \in Dns \cup {None} /\ c.pkgs \in Packages \cup {None}
BY DEF IsConfig

\* The parts of the diff of two configurations.
LEMMA DiffParts ==
    ASSUME NEW a, NEW b
    PROVE  /\ DiffConfigs(a, b).rules = DiffList(a.rules, b.rules, TRUE)
           /\ DiffConfigs(a, b).aliases = DiffList(a.aliases, b.aliases, FALSE)
           /\ DiffConfigs(a, b).dns = DiffOptional(a.dns, b.dns, FieldChanges(a.dns, b.dns))
           /\ DiffConfigs(a, b).pkgs = DiffOptional(a.pkgs, b.pkgs, PackageChanges(a.pkgs, b.pkgs))
BY DEF DiffConfigs

\* Every event of a diff tells what the later configuration holds.
LEMMA DiffTold ==
    ASSUME NEW a, NEW b, IsConfig(a), IsConfig(b), NEW e \in DiffToAnchorEvents(DiffConfigs(a, b), b)
    PROVE  /\ e.anchor \in AllAnchors /\ e.kind \in EventKinds /\ e.val \in Vals \cup {None}
           /\ e.anchor \in PlainAnchors => Accords(e, b)
<1> DEFINE d == DiffConfigs(a, b)
           yes == TRUE
           no == FALSE
<1>1. \/ e \in ListEvents(d.rules, "rule", b.rules) \/ e \in ListEvents(d.aliases, "alias", b.aliases)
      \/ e \in DnsEvents(d.dns) \/ e \in PackageEvents(d.pkgs)
    BY DEF DiffToAnchorEvents
<1>f. /\ d.rules = DiffList(a.rules, b.rules, yes) /\ d.aliases = DiffList(a.aliases, b.aliases, no)
      /\ d.dns = DiffOptional(a.dns, b.dns, FieldChanges(a.dns, b.dns))
      /\ d.pkgs = DiffOptional(a.pkgs, b.pkgs, PackageChanges(a.pkgs, b.pkgs))
    BY DiffParts
<1> HIDE DEF d, yes, no
<1>c. /\ a.rules \in Seq(Rows) /\ a.aliases \in Seq(Rows)
      /\ a.dns \in Dns \cup {None} /\ a.pkgs \in Packages \cup {None}
      /\ b.rules \in Seq(Rows) /\ b.aliases \in Seq(Rows)
      /\ b.dns \in Dns \cup {None} /\ b.pkgs \in Packages \cup {None}
    BY ConfigParts
<1>2. CASE e \in ListEvents(d.rules, "rule", b.rules)
    <2>1. /\ e.kind \in EventKinds /\ e.val \in Vals
          /\ \E k \in Keys : /\ e.anchor = RowAnchor("rule", k)
                             /\ LastIn(b.rules, k) = IF e.kind = "removed" THEN None ELSE e.val
        <3>1. e \in ListEvents(DiffList(a.rules, b.rules, yes), "rule", b.rules)
            BY <1>2, <1>f
        <3> QED BY <3>1, <1>c, ListTold
    <2> QED BY <2>1, PlainHeld DEF Accords, PlainAnchors, AllAnchors
<1>3. CASE e \in ListEvents(d.aliases, "alias", b.aliases)
    <2>1. /\ e.kind \in EventKinds /\ e.val \in Vals
          /\ \E k \in Keys : /\ e.anchor = RowAnchor("alias", k)
                             /\ LastIn(b.aliases, k) = IF e.kind = "removed" THEN None ELSE e.val
        <3>1. e \in ListEvents(DiffList(a.aliases, b.aliases, no), "alias", b.aliases)
            BY <1>3, <1>f
        <3> QED BY <3>1, <1>c, ListTold
    <2> QED BY <2>1, PlainHeld DEF Accords, PlainAnchors, AllAnchors
<1>4. CASE e \in DnsEvents(d.dns)
    <2>1. /\ e.kind \in EventKinds /\ e.val \in Vals \cup {None}
          /\ \E f \in DnsFields : /\ e.anchor = Rescope(f)
                                  /\ FieldValue(b.dns, f) = IF e.kind = "removed" THEN None ELSE e.val
        BY <1>4, <1>f, <1>c, DnsTold
    <2> QED BY <2>1, PlainHeld DEF Accords, PlainAnchors, AllAnchors, FieldValue
<1>5. CASE e \in PackageEvents(d.pkgs)
    <2>1. e.anchor = Telegraf /\ e.kind \in EventKinds /\ e.val \in Vals \cup {None}
        BY <1>5, <1>f, <1>c, PackageTold
    <2> QED BY <2>1, PlainIsLogged DEF AllAnchors
<1> QED BY <1>1, <1>2, <1>3, <1>4, <1>5

\* Every plain anchor whose value differs has an event that is not a mere move.
LEMMA DiffLogged ==
    ASSUME NEW a, NEW b, IsConfig(a), IsConfig(b), NEW x \in PlainAnchors, Held(a, x) # Held(b, x)
    PROVE  \E e \in DiffToAnchorEvents(DiffConfigs(a, b), b) : e.anchor = x /\ e.kind # "reordered"
<1> DEFINE d == DiffConfigs(a, b)
           yes == TRUE
           no == FALSE
<1>1. \A e : \/ e \in ListEvents(d.rules, "rule", b.rules) \/ e \in ListEvents(d.aliases, "alias", b.aliases)
             \/ e \in DnsEvents(d.dns)
             => e \in DiffToAnchorEvents(d, b)
    BY DEF DiffToAnchorEvents
<1>f. /\ d.rules = DiffList(a.rules, b.rules, yes) /\ d.aliases = DiffList(a.aliases, b.aliases, no)
      /\ d.dns = DiffOptional(a.dns, b.dns, FieldChanges(a.dns, b.dns))
      /\ d.pkgs = DiffOptional(a.pkgs, b.pkgs, PackageChanges(a.pkgs, b.pkgs))
    BY DiffParts
<1> HIDE DEF d, yes, no
<1>c. /\ a.rules \in Seq(Rows) /\ a.aliases \in Seq(Rows)
      /\ a.dns \in Dns \cup {None} /\ a.pkgs \in Packages \cup {None}
      /\ b.rules \in Seq(Rows) /\ b.aliases \in Seq(Rows)
      /\ b.dns \in Dns \cup {None} /\ b.pkgs \in Packages \cup {None}
    BY ConfigParts
<1>2. ASSUME NEW k \in Keys, x = RowAnchor("rule", k)
      PROVE  \E e \in ListEvents(d.rules, "rule", b.rules) : e.anchor = x /\ e.kind # "reordered"
    <2>1. LastIn(a.rules, k) # LastIn(b.rules, k)
        BY <1>2, PlainHeld
    <2>2. \E e \in ListEvents(DiffList(a.rules, b.rules, yes), "rule", b.rules) :
             e.anchor = RowAnchor("rule", k) /\ e.kind # "reordered"
        BY <2>1, <1>c, ListLogged
    <2> QED BY <1>2, <2>2, <1>f
<1>3. ASSUME NEW k \in Keys, x = RowAnchor("alias", k)
      PROVE  \E e \in ListEvents(d.aliases, "alias", b.aliases) : e.anchor = x /\ e.kind # "reordered"
    <2>1. LastIn(a.aliases, k) # LastIn(b.aliases, k)
        BY <1>3, PlainHeld
    <2>2. \E e \in ListEvents(DiffList(a.aliases, b.aliases, no), "alias", b.aliases) :
             e.anchor = RowAnchor("alias", k) /\ e.kind # "reordered"
        BY <2>1, <1>c, ListLogged
    <2> QED BY <1>3, <2>2, <1>f
<1>4. ASSUME NEW f \in DnsFields \ NestedFields, x = Rescope(f)
      PROVE  \E e \in DnsEvents(d.dns) : e.anchor = x /\ e.kind # "reordered"
    <2>1. FieldValue(a.dns, f) # FieldValue(b.dns, f)
        BY <1>4, PlainHeld DEF FieldValue
    <2> QED BY <1>4, <2>1, <1>f, <1>c, DnsLogged
<1>5. \E e \in DiffToAnchorEvents(d, b) : e.anchor = x /\ e.kind # "reordered"
    BY <1>1, <1>2, <1>3, <1>4 DEF PlainAnchors
<1> QED BY <1>5 DEF d

\* The events a configuration is logged whole with tell what it holds.
LEMMA SeedTold ==
    ASSUME NEW c, IsConfig(c), NEW e \in SeedEvents(c)
    PROVE  /\ e.anchor \in AllAnchors /\ e.kind \in EventKinds /\ e.val \in Vals \cup {None}
           /\ e.anchor \in PlainAnchors => Accords(e, c)
<1>1. PICK p \in EnumerateAnchors(c) : e = Event(p[1], "added", p[2])
    BY DEF SeedEvents
<1>2. e.anchor = p[1] /\ e.kind = "added" /\ e.val = p[2]
    BY <1>1 DEF Event
<1> QED BY <1>2, RoundTrip DEF Accords, EventKinds
-----------------------------------------------------------------------------
(* Rows.                                                                   *)

\* The fields of a row.
LEMMA RowFields ==
    ASSUME RowTypes, NEW b \in Alive
    PROVE  /\ b \in Ids /\ row[b] \in Row /\ row[b].at \in 0..MaxBackups /\ row[b].at \in Nat
           /\ row[b].no \in Nat /\ row[b].cfg \in Configs /\ row[b].lost \in BOOLEAN
<1>1. b \in Ids /\ row[b] \in Row
    BY DEF RowTypes, Alive
<1>2. MaxBackups \in Nat /\ MaxFaults \in Nat
    BY HistoryAssumption
<1> QED BY <1>1, <1>2 DEF Row

\* A new row's id is not in use.
LEMMA FreshId == 1 + Max({0} \cup Alive) \notin Alive
<1> DEFINE S == {0} \cup Alive
           M == Max(S)
<1>1. MaxId \in Nat
    BY HistoryAssumption
<1>2. S \subseteq 0..MaxId /\ S # {}
    BY <1>1 DEF Alive, Ids
<1>3. \E n \in S : \A m \in S : n >= m
    <2> HIDE DEF S
    <2>1. PICK n \in S : \A m \in S : m <= n
        BY <1>1, <1>2, GreatestElement
    <2>2. \A m \in S : n >= m
        BY <2>1, <1>1, <1>2
    <2> QED BY <2>2
<1>4. M \in S /\ \A m \in S : M >= m
    <2> HIDE DEF S
    <2> QED BY <1>3 DEF Max
<1> HIDE DEF M
<1>5. M \in Nat
    BY <1>1, <1>2, <1>4
<1>6. ASSUME 1 + M \in Alive PROVE FALSE
    BY <1>4, <1>5, <1>6
<1> QED BY <1>6 DEF M

\* What the new row looks like.
LEMMA NewRowFields ==
    ASSUME CountTypes, NEW at \in 0..MaxBackups, NEW c \in Configs, made + faults + 1 <= MaxBackups + MaxFaults
    PROVE  /\ NewRow(at, c) \in Row /\ NewRow(at, c) # None
           /\ NewRow(at, c).at = at /\ NewRow(at, c).no = made + faults + 1 /\ NewRow(at, c).cfg = c
<1>1. NewRow(at, c) \in Row
    BY HistoryAssumption DEF NewRow, Row, CountTypes
<1>2. NewRow(at, c) # None
    BY <1>1, HistoryAssumption
<1>3. /\ NewRow(at, c).at = at /\ NewRow(at, c).no = made + faults + 1 /\ NewRow(at, c).cfg = c
    BY DEF NewRow
<1> QED BY <1>1, <1>2, <1>3

\* A row is inserted.
Inserts(b, at, c) == b \in Ids /\ b \notin Alive /\ row' = [row EXCEPT ![b] = NewRow(at, c)]

\* After an insertion there is one more backup and the others are as they were.
LEMMA Inserted ==
    ASSUME RowTypes, CountTypes, NEW b, NEW at \in 0..MaxBackups, NEW c \in Configs, Inserts(b, at, c),
           made + faults + 1 <= MaxBackups + MaxFaults
    PROVE  /\ RowTypes' /\ Alive' = Alive \cup {b} /\ \A p \in Alive : row'[p] = row[p] /\ p # b
           /\ row'[b].at = at /\ row'[b].no = made + faults + 1 /\ row'[b].cfg = c
<1> DEFINE r == NewRow(at, c)
<1>1. r \in Row /\ r # None /\ r.at = at /\ r.no = made + faults + 1 /\ r.cfg = c
    BY NewRowFields
<1> HIDE DEF r
<1>2. b \in Ids /\ b \notin Alive /\ row' = [row EXCEPT ![b] = r]
    BY DEF Inserts, r
<1>3. RowTypes' /\ row'[b] = r /\ \A p \in Ids \ {b} : row'[p] = row[p]
    BY <1>1, <1>2 DEF RowTypes
<1>4. Alive' = Alive \cup {b}
    BY <1>1, <1>2, <1>3 DEF Alive
<1>5. \A p \in Alive : row'[p] = row[p] /\ p # b
    BY <1>2, <1>3 DEF Alive
<1> QED BY <1>1, <1>3, <1>4, <1>5

\* After a deletion there is one backup less and the others are as they were.
LEMMA Removed ==
    ASSUME RowTypes, NEW b \in Alive, row' = [row EXCEPT ![b] = None]
    PROVE  RowTypes' /\ Alive' = Alive \ {b} /\ \A p \in Alive \ {b} : row'[p] = row[p]
<1>1. b \in Ids
    BY DEF Alive
<1>2. RowTypes' /\ row'[b] = None /\ \A p \in Ids \ {b} : row'[p] = row[p]
    BY <1>1 DEF RowTypes
<1>3. Alive' = Alive \ {b}
    BY <1>1, <1>2 DEF Alive
<1> QED BY <1>2, <1>3 DEF Alive

\* A lost file changes nothing else.
LEMMA FileLost ==
    ASSUME RowTypes, NEW b \in Readable, row' = [row EXCEPT ![b].lost = TRUE]
    PROVE  /\ RowTypes' /\ Alive' = Alive
           /\ \A p \in Alive : row'[p].at = row[p].at /\ row'[p].no = row[p].no /\ row'[p].cfg = row[p].cfg
<1> DEFINE r == [row[b] EXCEPT !.lost = TRUE]
<1>1. b \in Alive /\ b \in Ids /\ row[b] \in Row
    BY RowFields DEF Readable
<1>2. r \in Row /\ r.at = row[b].at /\ r.no = row[b].no /\ r.cfg = row[b].cfg
    BY <1>1 DEF Row
<1>3. row' = [row EXCEPT ![b] = r]
    OBVIOUS
<1> HIDE DEF r
<1>4. r # None
    BY <1>2, HistoryAssumption
<1>5. RowTypes' /\ row'[b] = r /\ \A p \in Ids \ {b} : row'[p] = row[p]
    BY <1>1, <1>2, <1>3 DEF RowTypes
<1>6. Alive' = Alive
    BY <1>1, <1>4, <1>5 DEF Alive
<1>7. ASSUME NEW p \in Alive
      PROVE row'[p].at = row[p].at /\ row'[p].no = row[p].no /\ row'[p].cfg = row[p].cfg
    BY <1>2, <1>5 DEF Alive
<1> QED BY <1>5, <1>6, <1>7

\* A backup or an import inserts a row; the clock has room for it.
LEMMA Insertions ==
    ASSUME CountTypes, NEW c \in Configs
    PROVE  /\ Backup(c) => /\ Inserts(1 + Max({0} \cup Alive), made + 1, c) /\ made + 1 \in 0..MaxBackups
                           /\ made + faults + 1 <= MaxBackups + MaxFaults
                           /\ made' = made + 1 /\ faults' = faults
           /\ Import(c) => /\ Inserts(1 + Max({0} \cup Alive), 0, c) /\ 0 \in 0..MaxBackups
                           /\ made + faults + 1 <= MaxBackups + MaxFaults
                           /\ made' = made /\ faults' = faults + 1
<1> DEFINE b == 1 + Max({0} \cup Alive)
<1>1. b \notin Alive
    BY FreshId
<1>2. Backup(c) => b \in Ids /\ row' = [row EXCEPT ![b] = NewRow(made + 1, c)]
    BY DEF Backup
<1>3. Import(c) => b \in Ids /\ row' = [row EXCEPT ![b] = NewRow(0, c)]
    BY DEF Import
<1> HIDE DEF b
<1>4. Backup(c) => made' = made + 1 /\ faults' = faults /\ made < MaxBackups
    BY DEF Backup
<1>5. Import(c) => made' = made /\ faults' = faults + 1 /\ faults < MaxFaults
    BY DEF Import, Fault
<1>6. made \in 0..MaxBackups /\ faults \in 0..MaxFaults /\ MaxBackups \in Nat /\ MaxFaults \in Nat
    BY HistoryAssumption DEF CountTypes
<1>7. Backup(c) => made + 1 \in 0..MaxBackups /\ made + faults + 1 <= MaxBackups + MaxFaults
    BY <1>4, <1>6
<1>8. Import(c) => 0 \in 0..MaxBackups /\ made + faults + 1 <= MaxBackups + MaxFaults
    BY <1>5, <1>6
<1>9. (Backup(c) => Inserts(b, made + 1, c)) /\ (Import(c) => Inserts(b, 0, c))
    BY <1>1, <1>2, <1>3 DEF Inserts
<1> QED BY <1>4, <1>5, <1>7, <1>8, <1>9 DEF b

\* Which steps touch rows.
LEMMA RowCases ==
    ASSUME Next
    PROVE  \/ \E c \in Configs : Backup(c) \/ Import(c)
           \/ \E b \in Ids : Delete(b) \/ LoseFile(b)
           \/ row' = row /\ made' = made /\ (faults' = faults \/ (faults < MaxFaults /\ faults' = faults + 1))
<1>1. ASSUME NEW b \in Ids, DiffSummary(b) \/ DiffVsFirst(b) PROVE row' = row /\ made' = made /\ faults' = faults
    BY <1>1 DEF DiffSummary, DiffVsFirst, OpenDiff
<1>2. CASE IngestRead \/ IngestCommit \/ IngestFail
    BY <1>2 DEF IngestRead, IngestCommit, IngestFail
<1>3. CASE ReadDiff \/ WriteDiff
    BY <1>3 DEF ReadDiff, WriteDiff
<1>4. CASE ReindexList \/ ReindexLock \/ ReindexCommit \/ ReindexKilled
    BY <1>4 DEF ReindexList, ReindexLock, ReindexCommit, ReindexKilled, Fault
<1> QED BY <1>1, <1>2, <1>3, <1>4 DEF Next

\* A backup that stays is what it was; a new one has a number nothing has seen yet.
Kept ==
    /\ \A p \in Alive \cap Alive' :
          row'[p].at = row[p].at /\ row'[p].no = row[p].no /\ row'[p].cfg = row[p].cfg
    /\ \A p \in Alive' \ Alive : row'[p].no = made + faults + 1 /\ made' + faults' = made + faults + 1
    /\ made + faults <= made' + faults'

\* Every step keeps rows in this sense, and counts within bounds.
LEMMA RowStep ==
    ASSUME RowTypes, CountTypes, Next
    PROVE  RowTypes' /\ Kept /\ made' \in 0..MaxBackups /\ faults' \in 0..MaxFaults
<1>0. /\ made \in 0..MaxBackups /\ faults \in 0..MaxFaults /\ MaxBackups \in Nat /\ MaxFaults \in Nat
      /\ made \in Nat /\ faults \in Nat
    BY HistoryAssumption DEF CountTypes
<1>1. ASSUME NEW c \in Configs, NEW b, NEW at \in 0..MaxBackups, Inserts(b, at, c),
             made + faults + 1 <= MaxBackups + MaxFaults, made' + faults' = made + faults + 1
      PROVE  RowTypes' /\ Kept
    <2>1. /\ RowTypes' /\ Alive' = Alive \cup {b} /\ \A p \in Alive : row'[p] = row[p]
          /\ row'[b].no = made + faults + 1
        BY <1>1, Inserted
    <2>2. made + faults <= made' + faults'
        BY <1>0, <1>1
    <2> QED BY <2>1, <2>2, <1>1 DEF Kept
<1>2. ASSUME NEW c \in Configs, Backup(c)
      PROVE  RowTypes' /\ Kept /\ made' \in 0..MaxBackups /\ faults' \in 0..MaxFaults
    <2>1. /\ Inserts(1 + Max({0} \cup Alive), made + 1, c) /\ made + 1 \in 0..MaxBackups
          /\ made + faults + 1 <= MaxBackups + MaxFaults /\ made' = made + 1 /\ faults' = faults
        BY <1>2, Insertions
    <2>2. made' + faults' = made + faults + 1
        BY <1>0, <2>1
    <2> QED BY <1>0, <1>1, <2>1, <2>2
<1>3. ASSUME NEW c \in Configs, Import(c)
      PROVE  RowTypes' /\ Kept /\ made' \in 0..MaxBackups /\ faults' \in 0..MaxFaults
    <2>1. /\ Inserts(1 + Max({0} \cup Alive), 0, c) /\ 0 \in 0..MaxBackups
          /\ made + faults + 1 <= MaxBackups + MaxFaults /\ made' = made /\ faults' = faults + 1
        BY <1>3, Insertions
    <2>2. made' + faults' = made + faults + 1
        BY <1>0, <2>1
    <2>3. faults' \in 0..MaxFaults
        BY <1>0, <1>3 DEF Import, Fault
    <2> QED BY <1>0, <1>1, <2>1, <2>2, <2>3
<1>4. ASSUME NEW b \in Ids, Delete(b)
      PROVE  RowTypes' /\ Kept /\ made' \in 0..MaxBackups /\ faults' \in 0..MaxFaults
    <2>1. b \in Alive /\ row' = [row EXCEPT ![b] = None] /\ made' = made /\ faults < MaxFaults /\ faults' = faults + 1
        BY <1>4 DEF Delete, Fault
    <2>2. RowTypes' /\ Alive' = Alive \ {b} /\ \A p \in Alive \ {b} : row'[p] = row[p]
        BY <2>1, Removed
    <2>3. made + faults <= made' + faults' /\ faults' \in 0..MaxFaults
        BY <1>0, <2>1
    <2>4. Kept
        BY <2>2, <2>3 DEF Kept
    <2> QED BY <1>0, <2>1, <2>2, <2>3, <2>4
<1>5. ASSUME NEW b \in Ids, LoseFile(b)
      PROVE  RowTypes' /\ Kept /\ made' \in 0..MaxBackups /\ faults' \in 0..MaxFaults
    <2>1. /\ b \in Readable /\ row' = [row EXCEPT ![b].lost = TRUE] /\ made' = made
          /\ faults < MaxFaults /\ faults' = faults + 1
        BY <1>5 DEF LoseFile, Fault
    <2>2. /\ RowTypes' /\ Alive' = Alive
          /\ \A p \in Alive : row'[p].at = row[p].at /\ row'[p].no = row[p].no /\ row'[p].cfg = row[p].cfg
        BY <2>1, FileLost
    <2>3. made + faults <= made' + faults' /\ faults' \in 0..MaxFaults
        BY <1>0, <2>1
    <2>4. Kept
        BY <2>2, <2>3 DEF Kept
    <2> QED BY <1>0, <2>1, <2>2, <2>3, <2>4
<1>6. CASE row' = row /\ made' = made /\ (faults' = faults \/ (faults < MaxFaults /\ faults' = faults + 1))
    <2>1. Alive' = Alive /\ RowTypes'
        BY <1>6 DEF Alive, RowTypes
    <2>2. made + faults <= made' + faults' /\ faults' \in 0..MaxFaults
        BY <1>0, <1>6
    <2>3. Kept
        BY <2>1, <2>2, <1>6 DEF Kept
    <2> QED BY <1>0, <1>6, <2>1, <2>2, <2>3
<1> QED BY <1>2, <1>3, <1>4, <1>5, <1>6, RowCases

\* A number that was read and still belongs to an id has belonged to it all along.
LEMMA SameKept ==
    ASSUME RowTypes, CountTypes, Kept, NEW b, NEW no \in Nat, no <= made + faults,
           b \in Alive', row'[b].no = no
    PROVE  /\ Same(b, no) /\ b \in Alive \cap Alive'
           /\ row'[b].cfg = row[b].cfg /\ row'[b].at = row[b].at /\ row'[b].no = row[b].no
<1>0. made \in Nat /\ faults \in Nat
    BY HistoryAssumption DEF CountTypes
<1>2. b \in Alive
    <2>1. ASSUME b \notin Alive PROVE FALSE
        <3>1. no = made + faults + 1
            BY <2>1 DEF Kept
        <3> QED BY <1>0, <3>1
    <2> QED BY <2>1
<1> QED BY <1>2 DEF Kept, Same

\* Latest picks the newest of a set of backups, Oldest one of it.
LEMMA LatestIs ==
    ASSUME RowTypes, NEW S, S \subseteq Alive, S # {}
    PROVE  Latest(S) \in S /\ \A p \in S : row[p].at <= row[Latest(S)].at
<1> DEFINE T == {row[p].at : p \in S}
<1>1. MaxBackups \in Nat /\ T \subseteq 0..MaxBackups /\ T # {}
    BY RowFields, HistoryAssumption
<1>2. PICK t \in T : \A u \in T : u <= t
    BY <1>1, GreatestElement
<1>3. PICK b \in S : t = row[b].at
    BY <1>2
<1>4. \A p \in S : row[p].at <= row[b].at
    BY <1>2, <1>3
<1> QED BY <1>4 DEF Latest

\* The same of Oldest.
LEMMA OldestIs ==
    ASSUME RowTypes, NEW S, S \subseteq Alive, S # {}
    PROVE  Oldest(S) \in S
<1> DEFINE T == {row[p].at : p \in S}
<1>1. T \subseteq Nat /\ T # {}
    BY RowFields
<1>2. PICK t \in T : \A u \in T : t <= u
    BY <1>1, LeastElement
<1>3. PICK b \in S : t = row[b].at
    BY <1>2
<1>4. \A p \in S : row[b].at <= row[p].at
    BY <1>2, <1>3
<1> QED BY <1>4 DEF Oldest

\* The base of a diff is another backup, or there is none; the previous one is the
\* one before.
LEMMA BaseIs ==
    ASSUME RowTypes, NEW b \in Alive, NEW k \in Kinds
    PROVE  /\ Base(b, k) \in Alive \cup {None}
           /\ k = "previous" /\ Base(b, k) # None => IsPrevious(Base(b, k), b)
           /\ k = "previous" /\ Base(b, k) = None => Earlier(b) = {}
<1> DEFINE S == IF k = "previous" THEN Earlier(b) ELSE Alive \ {b}
<1>1. S \subseteq Alive
    BY DEF Earlier
<1>2. Base(b, k) = IF S = {} THEN None ELSE IF k = "previous" THEN Latest(S) ELSE Oldest(S)
    BY DEF Base
<1>3. k = "previous" => S = Earlier(b)
    OBVIOUS
<1>4. None \notin Alive
    BY HistoryAssumption DEF Alive, Ids
<1> HIDE DEF S
<1>5. S # {} => /\ Latest(S) \in S /\ \A p \in S : row[p].at <= row[Latest(S)].at
                /\ Oldest(S) \in S
    BY <1>1, LatestIs, OldestIs
<1>6. CASE S = {}
    BY <1>2, <1>3, <1>6
<1>7. CASE S # {} /\ k = "previous"
    <2>1. Base(b, k) = Latest(S) /\ Latest(S) \in S /\ \A p \in S : row[p].at <= row[Latest(S)].at
        BY <1>2, <1>5, <1>7
    <2> QED BY <2>1, <1>1, <1>3, <1>4, <1>7 DEF IsPrevious, Earlier
<1>8. CASE S # {} /\ k # "previous"
    <2>1. Base(b, k) = Oldest(S) /\ Oldest(S) \in S
        BY <1>2, <1>5, <1>8
    <2> QED BY <2>1, <1>1, <1>8
<1> QED BY <1>6, <1>7, <1>8

\* What is read of a backup.
LEMMA ReadIs ==
    ASSUME RowTypes, NEW b \in Alive
    PROVE  /\ Read(b) \in Snapshot /\ Read(b).id = b /\ Read(b).no = row[b].no
           /\ Read(b).cfg # None => Read(b).cfg = row[b].cfg
<1>1. b \in Ids /\ row[b].no \in Nat /\ row[b].cfg \in Configs
    BY RowFields
<1>2. b # None
    BY <1>1, HistoryAssumption DEF Ids
<1> DEFINE x == IF row[b].lost THEN None ELSE row[b].cfg
<1>3. x \in Configs \cup {None} /\ (x # None => x = row[b].cfg)
    BY <1>1
<1>4. Read(b) = [id |-> b, no |-> row[b].no, cfg |-> x]
    BY <1>2 DEF Read
<1> HIDE DEF x
<1> QED BY <1>1, <1>3, <1>4 DEF Snapshot

\* What _compute_and_persist_diffs has read.
LEMMA ReadBases ==
    ASSUME RowTypes, NEW b \in Alive
    PROVE  [k \in Kinds |-> Read(Base(b, k))] \in [Kinds -> Snapshot \cup {None}]
<1>1. ASSUME NEW k \in Kinds PROVE Read(Base(b, k)) \in Snapshot \cup {None}
    <2>1. Base(b, k) \in Alive \cup {None}
        BY BaseIs
    <2>2. CASE Base(b, k) \in Alive
        BY <2>2, ReadIs
    <2>3. CASE Base(b, k) = None
        BY <2>3 DEF Read
    <2> QED BY <2>1, <2>2, <2>3
<1> QED BY <1>1

\* The steps of the worker's diff step and which of them leave it alone.
LEMMA IngestCases ==
    ASSUME Next
    PROVE  \/ \E c \in Configs : Backup(c)
           \/ IngestRead \/ IngestCommit \/ IngestFail
           \/ ingest' = ingest
<1>1. ASSUME NEW b \in Ids, DiffSummary(b) \/ DiffVsFirst(b) \/ Delete(b) \/ LoseFile(b) PROVE ingest' = ingest
    BY <1>1 DEF DiffSummary, DiffVsFirst, OpenDiff, Delete, LoseFile
<1>2. ASSUME NEW c \in Configs, Import(c) PROVE ingest' = ingest
    BY <1>2 DEF Import
<1>3. CASE ReadDiff \/ WriteDiff
    BY <1>3 DEF ReadDiff, WriteDiff
<1>4. CASE ReindexList \/ ReindexLock \/ ReindexCommit \/ ReindexKilled
    BY <1>4 DEF ReindexList, ReindexLock, ReindexCommit, ReindexKilled
<1> QED BY <1>1, <1>2, <1>3, <1>4 DEF Next

\* What IngestRead has read when it goes on.
ReadOn(b) ==
    /\ b = ingest.of /\ b \in Readable
    /\ ingest' = [ingest EXCEPT !.at = "write", !.new = row[b].cfg, !.base = [k \in Kinds |-> Read(Base(b, k))]]

\* The ingest that goes on, field by field.
LEMMA ReadOnFields ==
    ASSUME RowTypes, ingest \in Ingest, NEW b, ReadOn(b)
    PROVE  /\ ingest' \in Ingest /\ ingest'.of = b /\ ingest'.no = ingest.no /\ ingest'.at = "write"
           /\ ingest'.new = row[b].cfg /\ ingest'.new \in Configs
           /\ ingest'.base \in [Kinds -> Snapshot \cup {None}]
           /\ \A k \in Kinds : ingest'.base[k] = Read(Base(b, k))
<1>1. b \in Alive /\ b = ingest.of
    BY DEF ReadOn, Readable
<1> DEFINE bases == [k \in Kinds |-> Read(Base(b, k))]
<1>2. bases \in [Kinds -> Snapshot \cup {None}]
    BY <1>1, ReadBases
<1>3. row[b].cfg \in Configs
    BY <1>1, RowFields
<1>4. \A k \in Kinds : bases[k] = Read(Base(b, k))
    OBVIOUS
<1>5. ingest' = [ingest EXCEPT !.at = "write", !.new = row[b].cfg, !.base = bases]
    BY DEF ReadOn
<1> HIDE DEF bases
<1>6. /\ ingest'.of = ingest.of /\ ingest'.no = ingest.no /\ ingest'.at = "write"
      /\ ingest'.new = row[b].cfg /\ ingest'.base = bases
    BY <1>5 DEF Ingest
<1>7. ingest' \in Ingest
    BY <1>2, <1>3, <1>5 DEF Ingest
<1> QED BY <1>1, <1>2, <1>3, <1>4, <1>6, <1>7

\* IngestRead goes on, or gives up.
LEMMA IngestReadCases ==
    ASSUME IngestRead
    PROVE  /\ ingest # None
           /\ \/ ReadOn(ingest.of) /\ gap' = gap
              \/ ingest' = None /\ gap' = TRUE
BY DEF IngestRead, ReadOn

\* The worker's diff step keeps its type.
LEMMA IngestTyped ==
    ASSUME RowTypes, CountTypes, ingest \in Ingest \cup {None}, Next
    PROVE  ingest' \in Ingest \cup {None}
<1>1. ASSUME NEW c \in Configs, Backup(c) PROVE ingest' \in Ingest
    <2> DEFINE b == 1 + Max({0} \cup Alive)
    <2>1. b \in Ids /\ ingest' = [of |-> b, no |-> made + faults + 1, at |-> "read", new |-> None, base |-> <<>>]
        BY <1>1 DEF Backup
    <2>2. made + faults + 1 \in Nat
        BY HistoryAssumption DEF CountTypes
    <2> HIDE DEF b
    <2> QED BY <2>1, <2>2 DEF Ingest
<1>2. CASE IngestRead
    BY <1>2, IngestReadCases, ReadOnFields
<1>3. CASE IngestCommit \/ IngestFail
    BY <1>3 DEF IngestCommit, IngestFail
<1> QED BY <1>1, <1>2, <1>3, IngestCases

\* The steps of a view and which of them leave it alone.
LEMMA ViewCases ==
    ASSUME Next
    PROVE  \/ \E b \in Ids, k \in Kinds : OpenDiff(b, k)
           \/ ReadDiff \/ WriteDiff
           \/ view' = view
<1>1. ASSUME NEW b \in Ids, DiffSummary(b) \/ DiffVsFirst(b) PROVE \E k \in Kinds : OpenDiff(b, k)
    BY <1>1 DEF DiffSummary, DiffVsFirst, Kinds
<1>2. ASSUME NEW b \in Ids, Delete(b) \/ LoseFile(b) PROVE view' = view
    BY <1>2 DEF Delete, LoseFile
<1>3. ASSUME NEW c \in Configs, Backup(c) \/ Import(c) PROVE view' = view
    BY <1>3 DEF Backup, Import
<1>4. CASE IngestRead \/ IngestCommit \/ IngestFail
    BY <1>4 DEF IngestRead, IngestCommit, IngestFail
<1>5. CASE ReindexList \/ ReindexLock \/ ReindexCommit \/ ReindexKilled
    BY <1>5 DEF ReindexList, ReindexLock, ReindexCommit, ReindexKilled
<1> QED BY <1>1, <1>2, <1>3, <1>4, <1>5 DEF Next

\* A view that opens, field by field.
LEMMA OpenFields ==
    ASSUME RowTypes, NEW b \in Ids, NEW k \in Kinds, OpenDiff(b, k)
    PROVE  /\ b \in Alive /\ view' \in View /\ view'.at = "read" /\ view'.of = b /\ view'.no = row[b].no
           /\ view'.base = Read(Base(b, k)) /\ Base(b, k) \in Alive
<1>1. b \in Alive /\ Base(b, k) \in Alive
    BY BaseIs DEF OpenDiff
<1> DEFINE r == Read(Base(b, k))
<1>2. r \in Snapshot /\ row[b].no \in Nat
    BY <1>1, ReadIs, RowFields
<1>3. view' = [of |-> b, kind |-> k, at |-> "read", new |-> None, base |-> r, no |-> row[b].no]
    BY DEF OpenDiff
<1> HIDE DEF r
<1>4. view' \in View /\ view'.at = "read" /\ view'.of = b /\ view'.no = row[b].no /\ view'.base = r
    BY <1>2, <1>3 DEF View
<1> QED BY <1>1, <1>4 DEF r

\* A file that is read is that of the backup whose row was snapshotted.
LEMMA FileIs ==
    ASSUME RowTypes, NEW b, NEW no, FileOf(b, no) # None
    PROVE  FileOf(b, no) \in Configs /\ Same(b, no) /\ FileOf(b, no) = row[b].cfg
<1>1. b \in Readable /\ row[b].no = no /\ FileOf(b, no) = row[b].cfg
    BY DEF FileOf
<1>2. b \in Alive
    BY <1>1 DEF Readable
<1> QED BY <1>1, <1>2, RowFields DEF Same

\* A view that has read both files, field by field; or it has given up.
LEMMA ReadDiffFields ==
    ASSUME RowTypes, view \in View \cup {None}, ReadDiff
    PROVE  \/ view' = None
           \/ /\ view \in View /\ view # None /\ view' \in View /\ view'.at = "write" /\ view'.of = view.of /\ view'.no = view.no
              /\ view'.base.id = view.base.id /\ view'.base.no = view.base.no
              /\ view'.new \in Configs /\ view'.base.cfg \in Configs
              /\ Same(view.of, view.no) /\ view'.new = row[view.of].cfg
              /\ Same(view.base.id, view.base.no) /\ view'.base.cfg = row[view.base.id].cfg
<1> DEFINE new == FileOf(view.of, view.no)
           old == FileOf(view.base.id, view.base.no)
<1>1. view # None /\ view \in View
    BY DEF ReadDiff
<1>2. \/ view' = None
      \/ new # None /\ old # None /\ view' = [view EXCEPT !.at = "write", !.new = new, !.base.cfg = old]
    BY DEF ReadDiff
<1>3. CASE new # None /\ old # None /\ view' = [view EXCEPT !.at = "write", !.new = new, !.base.cfg = old]
    <2>1. /\ new \in Configs /\ Same(view.of, view.no) /\ new = row[view.of].cfg
          /\ old \in Configs /\ Same(view.base.id, view.base.no) /\ old = row[view.base.id].cfg
        BY <1>3, FileIs
    <2> HIDE DEF new, old
    <2> DEFINE r == [view.base EXCEPT !.cfg = old]
    <2>2. view.base \in Snapshot
        BY <1>1 DEF View
    <2>3. r \in Snapshot /\ r.id = view.base.id /\ r.no = view.base.no /\ r.cfg = old
        BY <2>1, <2>2 DEF Snapshot
    <2>4. view' = [view EXCEPT !.at = "write", !.new = new, !.base = r]
        BY <1>3, <1>1 DEF View
    <2> HIDE DEF r
    <2>5. /\ view' \in View /\ view'.at = "write" /\ view'.of = view.of /\ view'.no = view.no
          /\ view'.new = new /\ view'.base = r
        BY <1>1, <2>1, <2>3, <2>4 DEF View
    <2> QED BY <1>1, <2>1, <2>3, <2>5
<1> QED BY <1>2, <1>3

\* The diff step, the view and the rebuild keep their types.
LEMMA StepsTyped ==
    ASSUME RowTypes, CountTypes, StepTypes, Next
    PROVE  StepTypes'
<1>1. ingest' \in Ingest \cup {None}
    BY IngestTyped DEF StepTypes
<1>2. view' \in View \cup {None}
    <2>1. view \in View \cup {None}
        BY DEF StepTypes
    <2>2. CASE \E b \in Ids, k \in Kinds : OpenDiff(b, k)
        BY <2>2, OpenFields
    <2>3. CASE ReadDiff
        BY <2>1, <2>3, ReadDiffFields
    <2>4. CASE WriteDiff
        BY <2>4 DEF WriteDiff
    <2> QED BY <2>1, <2>2, <2>3, <2>4, ViewCases
<1>3. rebuild' \in [at: {"idle", "listed", "locked"}, list: SUBSET Ids]
    <2>1. rebuild \in [at: {"idle", "listed", "locked"}, list: SUBSET Ids]
        BY DEF StepTypes
    <2>2. CASE ReindexList
        <3>1. Alive \subseteq Ids
            BY DEF Alive
        <3> QED BY <2>1, <2>2, <3>1 DEF ReindexList
    <2>3. CASE ReindexLock \/ ReindexCommit \/ ReindexKilled
        BY <2>1, <2>3 DEF ReindexLock, ReindexCommit, ReindexKilled
    <2>4. ASSUME NEW b \in Ids, DiffSummary(b) \/ DiffVsFirst(b) \/ Delete(b) \/ LoseFile(b) PROVE rebuild' = rebuild
        BY <2>4 DEF DiffSummary, DiffVsFirst, OpenDiff, Delete, LoseFile
    <2>5. ASSUME NEW c \in Configs, Backup(c) \/ Import(c) PROVE rebuild' = rebuild
        BY <2>5 DEF Backup, Import
    <2>6. CASE IngestRead \/ IngestCommit \/ IngestFail
        BY <2>1, <2>6 DEF IngestRead, IngestCommit, IngestFail
    <2>7. CASE ReadDiff \/ WriteDiff
        BY <2>1, <2>7 DEF ReadDiff, WriteDiff
    <2> QED BY <2>1, <2>2, <2>3, <2>4, <2>5, <2>6, <2>7 DEF Next
<1> QED BY <1>1, <1>2, <1>3 DEF StepTypes

\* Counters and marks keep their types.
LEMMA CountsTyped ==
    ASSUME RowTypes, CountTypes, Next
    PROVE  CountTypes'
<1>1. made' \in 0..MaxBackups /\ faults' \in 0..MaxFaults
    BY RowStep
<1>2. views' \in 0..MaxViews
    <2>1. views \in 0..MaxViews /\ MaxViews \in Nat
        BY HistoryAssumption DEF CountTypes
    <2>2. ASSUME NEW b \in Ids, DiffSummary(b) \/ DiffVsFirst(b) PROVE views < MaxViews /\ views' = views + 1
        BY <2>2 DEF DiffSummary, DiffVsFirst, OpenDiff
    <2>3. ASSUME NEW b \in Ids, Delete(b) \/ LoseFile(b) PROVE views' = views
        BY <2>3 DEF Delete, LoseFile
    <2>4. ASSUME NEW c \in Configs, Backup(c) \/ Import(c) PROVE views' = views
        BY <2>4 DEF Backup, Import
    <2>5. CASE IngestRead \/ IngestCommit \/ IngestFail
        BY <2>5, <2>1 DEF IngestRead, IngestCommit, IngestFail
    <2>6. CASE ReadDiff \/ WriteDiff
        BY <2>6, <2>1 DEF ReadDiff, WriteDiff
    <2>7. CASE ReindexList \/ ReindexLock \/ ReindexCommit \/ ReindexKilled
        BY <2>7, <2>1 DEF ReindexList, ReindexLock, ReindexCommit, ReindexKilled
    <2>8. views' = views \/ (views < MaxViews /\ views' = views + 1)
        BY <2>2, <2>3, <2>4, <2>5, <2>6, <2>7 DEF Next, IngestRead, IngestCommit, IngestFail, ReadDiff, WriteDiff,
           ReindexList, ReindexLock, ReindexCommit, ReindexKilled
    <2> QED BY <2>1, <2>8
<1>3. indexed' \in BOOLEAN /\ gap' \in BOOLEAN
    <2>1. indexed \in BOOLEAN /\ gap \in BOOLEAN
        BY DEF CountTypes
    <2>2. ASSUME NEW b \in Ids, DiffSummary(b) \/ DiffVsFirst(b) \/ LoseFile(b) PROVE indexed' = indexed /\ gap' = gap
        BY <2>2 DEF DiffSummary, DiffVsFirst, OpenDiff, LoseFile
    <2>3. ASSUME NEW b \in Ids, Delete(b) PROVE indexed' = indexed /\ gap' \in BOOLEAN
        BY <2>1, <2>3 DEF Delete
    <2>4. ASSUME NEW c \in Configs, Backup(c) \/ Import(c) PROVE indexed' = indexed /\ gap' \in BOOLEAN
        BY <2>1, <2>4 DEF Backup, Import
    <2>5. CASE IngestRead \/ IngestCommit \/ IngestFail
        BY <2>5, <2>1 DEF IngestRead, IngestCommit, IngestFail
    <2>6. CASE ReadDiff \/ WriteDiff
        BY <2>6, <2>1 DEF ReadDiff, WriteDiff
    <2>7. CASE ReindexList \/ ReindexLock \/ ReindexCommit \/ ReindexKilled
        BY <2>7, <2>1 DEF ReindexList, ReindexLock, ReindexCommit, ReindexKilled
    <2> QED BY <2>1, <2>2, <2>3, <2>4, <2>5, <2>6, <2>7 DEF Next
<1> QED BY <1>1, <1>2, <1>3 DEF CountTypes
-----------------------------------------------------------------------------
(* Numbers, and what was read.                                             *)

\* When a new row appears: its time, and what that says of the other rows.
LEMMA NewTimes ==
    ASSUME RowTypes, CountTypes, Next
    PROVE  /\ made <= made'
           /\ \A p \in Alive' \ Alive :
                 \/ row'[p].at = 0 /\ (\A b \in Alive : row[b].at # 0) /\ ingest' = ingest /\ Alive' = Alive \cup {p}
                 \/ row'[p].at = made + 1 /\ made' = made + 1 /\ ingest = None /\ Alive' = Alive \cup {p}
<1>0. made \in Nat /\ faults \in Nat
    BY HistoryAssumption DEF CountTypes
<1>1. ASSUME NEW c \in Configs, Backup(c)
      PROVE  /\ made <= made'
             /\ \A p \in Alive' \ Alive : row'[p].at = made + 1 /\ made' = made + 1 /\ ingest = None /\ Alive' = Alive \cup {p}
    <2> DEFINE b == 1 + Max({0} \cup Alive)
    <2>1. /\ Inserts(b, made + 1, c) /\ made + 1 \in 0..MaxBackups
          /\ made + faults + 1 <= MaxBackups + MaxFaults /\ made' = made + 1
        BY <1>1, Insertions
    <2>2. ingest = None
        BY <1>1 DEF Backup
    <2> HIDE DEF b
    <2>3. Alive' = Alive \cup {b} /\ row'[b].at = made + 1
        BY <2>1, Inserted
    <2> QED BY <1>0, <2>1, <2>2, <2>3
<1>2. ASSUME NEW c \in Configs, Import(c)
      PROVE  /\ made <= made'
             /\ \A p \in Alive' \ Alive : /\ row'[p].at = 0 /\ (\A b \in Alive : row[b].at # 0) /\ ingest' = ingest
                                          /\ Alive' = Alive \cup {p}
    <2> DEFINE b == 1 + Max({0} \cup Alive)
    <2>1. /\ Inserts(b, 0, c) /\ 0 \in 0..MaxBackups
          /\ made + faults + 1 <= MaxBackups + MaxFaults /\ made' = made
        BY <1>2, Insertions
    <2>2. ingest' = ingest /\ \A p \in Alive : row[p].at # 0
        BY <1>2 DEF Import
    <2> HIDE DEF b
    <2>3. Alive' = Alive \cup {b} /\ row'[b].at = 0
        BY <2>1, Inserted
    <2> QED BY <1>0, <2>1, <2>2, <2>3
<1>3. ASSUME NEW b \in Ids, Delete(b) PROVE made <= made' /\ Alive' \subseteq Alive
    <2>1. b \in Alive /\ row' = [row EXCEPT ![b] = None] /\ made' = made
        BY <1>3 DEF Delete
    <2>2. Alive' = Alive \ {b}
        BY <2>1, Removed
    <2>3. made <= made'
        BY <1>0, <2>1
    <2> QED BY <2>2, <2>3
<1>4. ASSUME NEW b \in Ids, LoseFile(b) PROVE made <= made' /\ Alive' \subseteq Alive
    <2>1. b \in Readable /\ row' = [row EXCEPT ![b].lost = TRUE] /\ made' = made
        BY <1>4 DEF LoseFile
    <2>2. Alive' = Alive
        BY <2>1, FileLost
    <2>3. made <= made'
        BY <1>0, <2>1
    <2> QED BY <2>2, <2>3
<1>5. ASSUME row' = row, made' = made PROVE made <= made' /\ Alive' \subseteq Alive
    BY <1>0, <1>5 DEF Alive
<1> QED BY <1>1, <1>2, <1>3, <1>4, <1>5, RowCases

\* Rows keep different times and numbers within the clock.
LEMMA RowSerials ==
    ASSUME RowTypes, CountTypes, SerialInv, Next
    PROVE  /\ \A b \in Alive' : row'[b].no <= made' + faults' /\ row'[b].at <= made'
           /\ \A b, p \in Alive' : row'[b].at = row'[p].at => b = p
<1>0. made \in Nat /\ faults \in Nat /\ made' \in Nat /\ faults' \in Nat
    BY HistoryAssumption, RowStep DEF CountTypes
<1>1. RowTypes' /\ Kept
    BY RowStep
<1>2. \A b \in Alive : row[b].at \in Nat /\ row[b].no \in Nat
    BY RowFields
<1>3. /\ \A b \in Alive : row[b].no <= made + faults /\ row[b].at <= made
      /\ \A b, p \in Alive : row[b].at = row[p].at => b = p
    BY DEF SerialInv
<1>4. ASSUME NEW b \in Alive' PROVE row'[b].no <= made' + faults' /\ row'[b].at <= made'
    <2>1. CASE b \in Alive
        <3>1. row'[b].no = row[b].no /\ row'[b].at = row[b].at /\ made <= made' /\ made + faults <= made' + faults'
            BY <1>1, <2>1, NewTimes DEF Kept
        <3>2. row[b].no \in Nat /\ row[b].at \in Nat /\ row[b].no <= made + faults /\ row[b].at <= made
            BY <1>2, <1>3, <2>1
        <3> DEFINE m == made'
                   f == faults'
        <3>3. m \in Nat /\ f \in Nat /\ made <= m /\ made + faults <= m + f
            BY <1>0, <3>1
        <3> HIDE DEF m, f
        <3>4. row[b].no <= m + f /\ row[b].at <= m
            BY <1>0, <3>2, <3>3
        <3> QED BY <3>1, <3>4 DEF m, f
    <2>2. CASE b \notin Alive
        <3>1. row'[b].no = made + faults + 1 /\ made' + faults' = made + faults + 1
            BY <1>1, <2>2 DEF Kept
        <3>2. row'[b].at = 0 \/ (row'[b].at = made + 1 /\ made' = made + 1)
            BY <2>2, NewTimes
        <3>3. row'[b].no <= made' + faults'
            <4> DEFINE n == made + faults + 1
            <4>1. n <= n
                BY <1>0
            <4>2. row'[b].no = n /\ made' + faults' = n
                BY <3>1
            <4> HIDE DEF n
            <4> QED BY <4>1, <4>2
        <3>4. row'[b].at <= made'
            BY <1>0, <3>2
        <3> QED BY <3>3, <3>4
    <2> QED BY <2>1, <2>2
<1>5. ASSUME NEW b \in Alive', NEW p \in Alive', row'[b].at = row'[p].at PROVE b = p
    <2>1. ASSUME NEW x \in Alive' \ Alive, NEW y \in Alive PROVE row'[x].at # row[y].at
        <3>1. row[y].at \in Nat /\ row[y].at <= made
            BY <1>2, <1>3
        <3>2. \/ row'[x].at = 0 /\ row[y].at # 0
              \/ row'[x].at = made + 1
            BY NewTimes
        <3> QED BY <1>0, <3>1, <3>2
    <2>2. \A x \in Alive \cap Alive' : row'[x].at = row[x].at
        BY <1>1 DEF Kept
    <2>3. CASE b \in Alive /\ p \in Alive
        BY <1>3, <1>5, <2>2, <2>3
    <2>4. CASE b \in Alive /\ p \notin Alive
        BY <1>5, <2>1, <2>2, <2>4
    <2>5. CASE b \notin Alive /\ p \in Alive
        BY <1>5, <2>1, <2>2, <2>5
    <2>6. CASE b \notin Alive /\ p \notin Alive
        <3>1. Alive' = Alive \cup {b}
            BY <2>6, NewTimes
        <3> QED BY <2>6, <3>1
    <2> QED BY <2>3, <2>4, <2>5, <2>6
<1> QED BY <1>4, <1>5

\* The fields of an ingest that is to write, and of a view.
LEMMA PendingFields ==
    ASSUME StepTypes
    PROVE  /\ ingest # None => ingest \in Ingest /\ ingest.of \in Ids /\ ingest.no \in Nat /\ ingest.at \in {"read", "write"}
           /\ view # None => /\ view \in View /\ view.of \in Ids /\ view.no \in Nat /\ view.kind \in Kinds
                             /\ view.base \in Snapshot /\ view.base.id \in Ids /\ view.base.no \in Nat
<1>1. ingest # None => ingest \in Ingest
    BY DEF StepTypes
<1>2. ASSUME view # None PROVE view \in View /\ view.base \in Snapshot
    BY <1>2 DEF StepTypes, View
<1> QED BY <1>1, <1>2 DEF Ingest, View, Snapshot

\* Every number known anywhere is within the clock.
LEMMA SerialStep ==
    ASSUME RowTypes, CountTypes, StepTypes, SerialInv, IngestInv, Next
    PROVE  SerialInv'
<1>0. made \in Nat /\ faults \in Nat /\ made' \in Nat /\ faults' \in Nat
    BY HistoryAssumption, RowStep DEF CountTypes
<1>1. made + faults <= made' + faults'
    BY RowStep DEF Kept
<1>m. ASSUME NEW n \in Nat, n <= made + faults PROVE n <= made' + faults'
    <2> DEFINE m == made'
               f == faults'
    <2>1. m \in Nat /\ f \in Nat /\ made + faults <= m + f
        BY <1>0, <1>1
    <2> HIDE DEF m, f
    <2>2. n <= m + f
        BY <1>0, <1>m, <2>1
    <2> QED BY <2>2 DEF m, f
<1>2. \A b \in Alive : row[b].no \in Nat /\ row[b].no <= made + faults
    BY RowFields DEF SerialInv
<1>3. ASSUME ingest' # None
      PROVE  /\ ingest'.no <= made' + faults'
             /\ ingest'.at = "write" =>
                   \A k \in Kinds : ingest'.base[k] # None => ingest'.base[k].no <= made' + faults'
    <2>1. ASSUME NEW c \in Configs, Backup(c) PROVE ingest'.no = made + faults + 1 /\ ingest'.at = "read"
        BY <2>1 DEF Backup
    <2>2. ASSUME NEW c \in Configs, Backup(c) PROVE made' + faults' = made + faults + 1
        <3>1. made' = made + 1 /\ faults' = faults
            BY <2>2, Insertions
        <3> QED BY <1>0, <3>1
    <2>3. CASE \E c \in Configs : Backup(c)
        <3> DEFINE n == made + faults + 1
        <3>1. n <= n
            BY <1>0
        <3>2. ingest'.no = n /\ made' + faults' = n /\ ingest'.at = "read"
            BY <2>1, <2>2, <2>3
        <3> HIDE DEF n
        <3> QED BY <3>1, <3>2
    <2>4. CASE IngestRead
        <3>1. ingest # None /\ ReadOn(ingest.of)
            BY <1>3, <2>4, IngestReadCases
        <3>2. ingest \in Ingest /\ ingest.no \in Nat /\ ingest.no <= made + faults
            BY <3>1, PendingFields DEF SerialInv
        <3>3. ingest'.no = ingest.no /\ \A k \in Kinds : ingest'.base[k] = Read(Base(ingest.of, k))
            BY <3>1, <3>2, ReadOnFields
        <3>4. ASSUME NEW k \in Kinds, ingest'.base[k] # None PROVE ingest'.base[k].no <= made' + faults'
            <4>1. Base(ingest.of, k) # None
                BY <3>3, <3>4 DEF Read
            <4>2. ingest.of \in Alive
                BY <3>1 DEF ReadOn, Readable
            <4>3. Base(ingest.of, k) \in Alive
                BY <4>1, <4>2, BaseIs
            <4> QED BY <1>m, <1>2, <3>3, <4>3, ReadIs
        <3> QED BY <1>m, <3>2, <3>3, <3>4
    <2>5. CASE ingest' = ingest
        <3>1. ingest.no \in Nat /\ ingest.no <= made + faults
            BY <1>3, <2>5, PendingFields DEF SerialInv
        <3>2. ASSUME ingest.at = "write", NEW k \in Kinds, ingest.base[k] # None
              PROVE  ingest.base[k].no <= made' + faults'
            <4>1. ingest.base[k] \in Snapshot /\ ingest.base[k].no <= made + faults
                BY <1>3, <2>5, <3>2 DEF IngestInv, SerialInv
            <4> QED BY <4>1, <1>m DEF Snapshot
        <3> QED BY <1>m, <2>5, <3>1, <3>2
    <2> QED BY <1>3, <2>3, <2>4, <2>5, IngestCases DEF IngestCommit, IngestFail
<1>4. ASSUME view' # None PROVE view'.no <= made' + faults' /\ view'.base.no <= made' + faults'
    <2>1. ASSUME NEW b \in Ids, NEW k \in Kinds, OpenDiff(b, k)
          PROVE  view'.no <= made' + faults' /\ view'.base.no <= made' + faults'
        <3>1. /\ b \in Alive /\ view'.no = row[b].no /\ view'.base = Read(Base(b, k)) /\ Base(b, k) \in Alive
            BY <2>1, OpenFields
        <3>2. view'.base.no = row[Base(b, k)].no
            BY <3>1, ReadIs
        <3> QED BY <1>m, <1>2, <3>1, <3>2
    <2>2. CASE view \in View /\ view # None /\ view'.no = view.no /\ view'.base.no = view.base.no
        BY <1>m, <2>2, PendingFields DEF SerialInv
    <2>3. CASE ReadDiff
        <3>1. view \in View \cup {None}
            BY DEF StepTypes
        <3> QED BY <1>4, <2>2, <2>3, <3>1, ReadDiffFields
    <2>4. CASE view' = view
        BY <1>4, <2>2, <2>4, PendingFields
    <2> QED BY <1>4, <2>1, <2>3, <2>4, ViewCases DEF WriteDiff
<1> QED BY <1>3, <1>4, RowSerials DEF SerialInv

\* What the worker has read stays true of the backups whose ids it holds.
LEMMA IngestStep ==
    ASSUME RowTypes, CountTypes, StepTypes, SerialInv, IngestInv, Next
    PROVE  IngestInv'
<1>1. Kept
    BY RowStep
<1> SUFFICES ASSUME ingest' # None, ingest'.at = "write"
             PROVE  /\ ingest'.new \in Configs
                    /\ ingest'.base \in [Kinds -> Snapshot \cup {None}]
                    /\ ingest'.of \in Alive' /\ row'[ingest'.of].no = ingest'.no => ingest'.new = row'[ingest'.of].cfg
                    /\ \A k \in Kinds : LET r == ingest'.base[k] IN
                          Usable(r) /\ r.id \in Alive' /\ row'[r.id].no = r.no => r.cfg = row'[r.id].cfg
    BY DEF IngestInv, Same, Usable
<1>2. CASE IngestRead
    <2>1. ingest # None /\ ReadOn(ingest.of) /\ row' = row
        BY <1>2, IngestReadCases DEF IngestRead
    <2>2. ingest \in Ingest
        BY <2>1, PendingFields
    <2>3. /\ ingest'.of = ingest.of /\ ingest'.new = row[ingest.of].cfg /\ ingest'.new \in Configs
          /\ ingest'.base \in [Kinds -> Snapshot \cup {None}]
          /\ \A k \in Kinds : ingest'.base[k] = Read(Base(ingest.of, k))
        BY <2>1, <2>2, ReadOnFields
    <2>4. ASSUME NEW k \in Kinds, Usable(ingest'.base[k])
          PROVE  ingest'.base[k].cfg = row[ingest'.base[k].id].cfg
        <3>1. Base(ingest.of, k) # None
            BY <2>3, <2>4 DEF Usable, Read
        <3>2. ingest.of \in Alive
            BY <2>1 DEF ReadOn, Readable
        <3>3. Base(ingest.of, k) \in Alive
            BY <3>1, <3>2, BaseIs
        <3> QED BY <2>3, <2>4, <3>3, ReadIs DEF Usable
    <2> QED BY <2>1, <2>3, <2>4
<1>3. CASE ingest' = ingest
    <2>1. /\ ingest.new \in Configs
          /\ ingest.base \in [Kinds -> Snapshot \cup {None}]
          /\ Same(ingest.of, ingest.no) => ingest.new = row[ingest.of].cfg
          /\ \A k \in Kinds : LET r == ingest.base[k] IN
                Usable(r) /\ Same(r.id, r.no) => r.cfg = row[r.id].cfg
        BY <1>3 DEF IngestInv
    <2>2. ASSUME ingest.of \in Alive', row'[ingest.of].no = ingest.no PROVE ingest.new = row'[ingest.of].cfg
        <3>1. ingest.no \in Nat /\ ingest.no <= made + faults
            BY <1>3, PendingFields DEF SerialInv
        <3> QED BY <1>1, <2>1, <2>2, <3>1, SameKept
    <2>3. ASSUME NEW k \in Kinds, NEW r, r = ingest.base[k], Usable(r), r.id \in Alive', row'[r.id].no = r.no
          PROVE  r.cfg = row'[r.id].cfg
        <3>1. r \in Snapshot /\ r.no <= made + faults
            BY <1>3, <2>1, <2>3 DEF SerialInv, Usable
        <3>2. r.no \in Nat
            BY <3>1 DEF Snapshot
        <3>3. Same(r.id, r.no) /\ row'[r.id].cfg = row[r.id].cfg
            BY <1>1, <2>3, <3>1, <3>2, SameKept
        <3> QED BY <2>1, <2>3, <3>3
    <2> QED BY <1>3, <2>1, <2>2, <2>3
<1>4. ASSUME NEW c \in Configs, Backup(c) PROVE FALSE
    BY <1>4 DEF Backup
<1> QED BY <1>2, <1>3, <1>4, IngestCases DEF IngestCommit, IngestFail

\* So does what a view has read.
LEMMA ViewStep ==
    ASSUME RowTypes, CountTypes, StepTypes, SerialInv, ViewInv, Next
    PROVE  ViewInv'
<1>1. Kept
    BY RowStep
<1> SUFFICES ASSUME view' # None, view'.at = "write"
             PROVE  /\ view'.new \in Configs /\ view'.base.cfg \in Configs
                    /\ view'.of \in Alive' /\ row'[view'.of].no = view'.no => view'.new = row'[view'.of].cfg
                    /\ view'.base.id \in Alive' /\ row'[view'.base.id].no = view'.base.no
                       => view'.base.cfg = row'[view'.base.id].cfg
    BY DEF ViewInv, Same
<1>2. CASE ReadDiff
    <2>1. row' = row /\ view \in View \cup {None}
        BY <1>2 DEF ReadDiff, StepTypes
    <2> QED BY <1>2, <2>1, ReadDiffFields
<1>3. CASE view' = view
    <2>1. /\ view.new \in Configs /\ view.base.cfg \in Configs
          /\ Same(view.of, view.no) => view.new = row[view.of].cfg
          /\ Same(view.base.id, view.base.no) => view.base.cfg = row[view.base.id].cfg
        BY <1>3 DEF ViewInv
    <2>2. /\ view.no \in Nat /\ view.no <= made + faults
          /\ view.base.no \in Nat /\ view.base.no <= made + faults
        BY <1>3, PendingFields DEF SerialInv
    <2>3. ASSUME view.of \in Alive', row'[view.of].no = view.no PROVE view.new = row'[view.of].cfg
        BY <1>1, <2>1, <2>2, <2>3, SameKept
    <2>4. ASSUME view.base.id \in Alive', row'[view.base.id].no = view.base.no
          PROVE  view.base.cfg = row'[view.base.id].cfg
        BY <1>1, <2>1, <2>2, <2>4, SameKept
    <2> QED BY <1>3, <2>1, <2>3, <2>4
<1>4. ASSUME NEW b \in Ids, NEW k \in Kinds, OpenDiff(b, k) PROVE FALSE
    BY <1>4, OpenFields
<1> QED BY <1>2, <1>3, <1>4, ViewCases DEF WriteDiff

\* The backup before another stays the one before, unless one of them goes, as long
\* as only an import comes in.
LEMMA PreviousKept ==
    ASSUME RowTypes, Kept, NEW p \in Alive \cap Alive', NEW b \in Alive \cap Alive', IsPrevious(p, b),
           \A q \in Alive' \ Alive : row'[q].at = 0
    PROVE  IsPrevious(p, b)'
<1>1. \A q \in Alive \cap Alive' : row'[q].at = row[q].at
    BY DEF Kept
<1>2. row[p].at \in Nat /\ row[p].at < row[b].at /\ row'[p].at = row[p].at /\ row'[b].at = row[b].at
    BY <1>1, RowFields DEF IsPrevious
<1>3. ASSUME NEW q \in Alive', row'[q].at < row'[b].at PROVE row'[q].at <= row'[p].at
    <2>1. CASE q \in Alive
        BY <1>1, <1>2, <1>3, <2>1 DEF IsPrevious
    <2>2. CASE q \notin Alive
        <3>1. row'[q].at = 0
            BY <2>2
        <3> QED BY <1>2, <3>1
    <2> QED BY <2>1, <2>2
<1> QED BY <1>2, <1>3 DEF IsPrevious

\* The base the worker holds stays the backup before.
LEMMA BaseStep ==
    ASSUME RowTypes, CountTypes, StepTypes, SerialInv, IngestInv, BaseInv, Next
    PROVE  BaseInv'
<1>1. Kept
    BY RowStep
<1> SUFFICES ASSUME ingest' # None, ingest'.at = "write", ingest'.of \in Alive', row'[ingest'.of].no = ingest'.no,
                    NEW r, r = ingest'.base["previous"], Usable(r), r.id \in Alive', row'[r.id].no = r.no
             PROVE  \A p, b : p = r.id /\ b = ingest'.of => IsPrevious(p, b)'
    BY DEF BaseInv, Same, Usable, IsPrevious
<1>2. CASE IngestRead
    <2>1. ingest # None /\ ReadOn(ingest.of) /\ row' = row
        BY <1>2, IngestReadCases DEF IngestRead
    <2>2. ingest \in Ingest
        BY <2>1, PendingFields
    <2>3. ingest'.of = ingest.of /\ r = Read(Base(ingest.of, "previous"))
        BY <2>1, <2>2, ReadOnFields DEF Kinds
    <2>4. Base(ingest.of, "previous") # None
        BY <2>3 DEF Usable, Read
    <2>5. ingest.of \in Alive
        BY <2>1 DEF ReadOn, Readable
    <2>6. Base(ingest.of, "previous") \in Alive /\ IsPrevious(Base(ingest.of, "previous"), ingest.of)
        BY <2>4, <2>5, BaseIs DEF Kinds
    <2>7. r.id = Base(ingest.of, "previous")
        BY <2>3, <2>6, ReadIs
    <2>8. \A p, b : IsPrevious(p, b) => IsPrevious(p, b)'
        BY <2>1 DEF IsPrevious, Alive
    <2> QED BY <2>3, <2>6, <2>7, <2>8
<1>3. CASE ingest' = ingest
    <2>1. r = ingest.base["previous"] /\ ingest # None /\ ingest.at = "write"
        BY <1>3
    <2>2. r \in Snapshot /\ r.no <= made + faults /\ ingest.no \in Nat /\ ingest.no <= made + faults
        BY <2>1, PendingFields DEF IngestInv, SerialInv, Usable, Kinds
    <2>3. r.no \in Nat
        BY <2>2 DEF Snapshot
    <2>4. Same(r.id, r.no) /\ r.id \in Alive \cap Alive'
        BY <1>1, <2>2, <2>3, SameKept
    <2>5. Same(ingest.of, ingest.no) /\ ingest.of \in Alive \cap Alive'
        BY <1>1, <1>3, <2>2, SameKept
    <2>6. IsPrevious(r.id, ingest.of)
        BY <2>1, <2>4, <2>5 DEF BaseInv
    <2>7. \A q \in Alive' \ Alive : row'[q].at = 0
        BY <2>1, NewTimes
    <2> QED BY <1>1, <1>3, <2>4, <2>5, <2>6, <2>7, PreviousKept
<1>4. ASSUME NEW c \in Configs, Backup(c) PROVE FALSE
    BY <1>4 DEF Backup
<1> QED BY <1>2, <1>3, <1>4, IngestCases DEF IngestCommit, IngestFail
-----------------------------------------------------------------------------
(* Cached diffs.                                                           *)

\* A diff row of backup b is true of the files, if it is not a raced one.
DiffTrue(d, b) ==
    d # None /\ ~d.raced /\ d.base # None =>
        d.base \in Alive /\ d.body = DiffConfigs(row[d.base].cfg, row[b].cfg)

\* Which steps touch diffs.
LEMMA DiffCases ==
    ASSUME RowTypes, CountTypes, Next
    PROVE  \/ IngestCommit \/ WriteDiff
           \/ \E b \in Ids : Delete(b)
           \/ diff' = diff /\ Alive \subseteq Alive'
<1>1. ASSUME row' = row PROVE Alive' = Alive
    BY <1>1 DEF Alive
<1>2. ASSUME NEW b \in Ids, DiffSummary(b) \/ DiffVsFirst(b) PROVE diff' = diff /\ row' = row
    BY <1>2 DEF DiffSummary, DiffVsFirst, OpenDiff
<1>3. ASSUME NEW b \in Ids, LoseFile(b) PROVE diff' = diff /\ Alive' = Alive
    <2>1. b \in Readable /\ row' = [row EXCEPT ![b].lost = TRUE] /\ diff' = diff
        BY <1>3 DEF LoseFile
    <2> QED BY <2>1, FileLost
<1>4. ASSUME NEW c \in Configs, Backup(c) PROVE diff' = diff /\ Alive \subseteq Alive'
    <2>1. diff' = diff
        BY <1>4 DEF Backup
    <2> QED BY <1>4, <2>1, Insertions, Inserted
<1>5. ASSUME NEW c \in Configs, Import(c) PROVE diff' = diff /\ Alive \subseteq Alive'
    <2>1. diff' = diff
        BY <1>5 DEF Import
    <2> QED BY <1>5, <2>1, Insertions, Inserted
<1>6. CASE IngestRead \/ IngestFail
    BY <1>1, <1>6 DEF IngestRead, IngestFail
<1>7. CASE ReadDiff
    BY <1>1, <1>7 DEF ReadDiff
<1>8. CASE ReindexList \/ ReindexLock \/ ReindexCommit \/ ReindexKilled
    BY <1>1, <1>8 DEF ReindexList, ReindexLock, ReindexCommit, ReindexKilled
<1> QED BY <1>1, <1>2, <1>3, <1>4, <1>5, <1>6, <1>7, <1>8 DEF Next

\* The row a diff is stored in.
LEMMA DiffRowIs ==
    ASSUME NEW r \in Snapshot, r.cfg \in Configs, NEW new \in Configs, NEW raced \in BOOLEAN
    PROVE  /\ DiffRow(r, new, raced) \in DiffRows
           /\ DiffRow(r, new, raced).base = r.id /\ DiffRow(r, new, raced).raced = raced
           /\ DiffRow(r, new, raced).body = DiffConfigs(r.cfg, new)
<1>1. r.id \in Ids
    BY DEF Snapshot
<1> DEFINE body == DiffConfigs(r.cfg, new)
<1>2. body \in {DiffConfigs(a, b) : a, b \in Configs}
    OBVIOUS
<1>3. DiffRow(r, new, raced) = [base |-> r.id, body |-> body, raced |-> raced]
    BY DEF DiffRow
<1> HIDE DEF body
<1>4. /\ DiffRow(r, new, raced) \in DiffRows
      /\ DiffRow(r, new, raced).base = r.id /\ DiffRow(r, new, raced).raced = raced
      /\ DiffRow(r, new, raced).body = body
    BY <1>1, <1>2, <1>3 DEF DiffRows
<1> QED BY <1>4 DEF body

\* A diff that is stored is that of the two backups, or it is marked as raced.
LEMMA DiffRowTrue ==
    ASSUME NEW r \in Snapshot, NEW new \in Configs, NEW b \in Alive, NEW no, NEW raced, r.cfg \in Configs,
           r.id \in Alive,
           raced = (Reused(b, no) \/ Reused(r.id, r.no)),
           Same(b, no) => new = row[b].cfg,
           Same(r.id, r.no) => r.cfg = row[r.id].cfg
    PROVE  DiffRow(r, new, raced) \in DiffRows /\ DiffTrue(DiffRow(r, new, raced), b)
<1>1. raced \in BOOLEAN
    OBVIOUS
<1>2. /\ DiffRow(r, new, raced) \in DiffRows
      /\ DiffRow(r, new, raced).base = r.id /\ DiffRow(r, new, raced).raced = raced
      /\ DiffRow(r, new, raced).body = DiffConfigs(r.cfg, new)
    BY <1>1, DiffRowIs
<1>3. ASSUME ~raced PROVE new = row[b].cfg /\ r.cfg = row[r.id].cfg
    BY <1>3 DEF Reused, Same
<1> QED BY <1>2, <1>3 DEF DiffTrue

\* A step that leaves the rows alone keeps the diffs, if the new ones are true.
LEMMA DiffsFromRows ==
    ASSUME DiffTypes, CachedDiffTrue, row' = row, diff' \in [Ids \X Kinds -> DiffRows \cup {None}],
           \A b \in Ids, k \in Kinds :
              \/ diff'[<<b, k>>] = diff[<<b, k>>]
              \/ b \in Alive /\ DiffTrue(diff'[<<b, k>>], b)
    PROVE  DiffTypes' /\ CachedDiffTrue'
<1>1. Alive' = Alive
    BY DEF Alive
<1>2. \A b \in Ids, k \in Kinds : diff[<<b, k>>] # None => b \in Alive
    BY DEF DiffTypes
<1>3. \A b \in Alive, k \in Kinds : DiffTrue(diff[<<b, k>>], b)
    BY DEF CachedDiffTrue, DiffTrue
<1>4. \A b \in Ids, k \in Kinds : diff'[<<b, k>>] # None => b \in Alive
    BY <1>2
<1>5. ASSUME NEW b \in Alive, NEW k \in Kinds PROVE DiffTrue(diff'[<<b, k>>], b)
    <2>1. b \in Ids
        BY DEF Alive
    <2> QED BY <2>1, <1>3
<1>6. DiffTypes'
    BY <1>1, <1>4 DEF DiffTypes
<1>7. CachedDiffTrue'
    BY <1>1, <1>5 DEF CachedDiffTrue, DiffTrue
<1> QED BY <1>6, <1>7

\* A view stores a diff.
LEMMA DiffsView ==
    ASSUME RowTypes, StepTypes, DiffTypes, CachedDiffTrue, ViewInv, WriteDiff
    PROVE  DiffTypes' /\ CachedDiffTrue'
<1>1. view # None /\ view.at = "write" /\ row' = row
    BY DEF WriteDiff
<1>2. /\ view.of \in Ids /\ view.kind \in Kinds /\ view.base \in Snapshot
    BY <1>1, PendingFields
<1>3. diff \in [Ids \X Kinds -> DiffRows \cup {None}]
    BY DEF DiffTypes
<1>4. CASE diff' = diff
    BY <1>1, <1>3, <1>4, DiffsFromRows
<1>5. CASE /\ {view.of, view.base.id} \subseteq Alive
           /\ diff' = [diff EXCEPT ![<<view.of, view.kind>>] =
                          DiffRow(view.base, view.new, Reused(view.of, view.no) \/ Reused(view.base.id, view.base.no))]
    <2> DEFINE raced == Reused(view.of, view.no) \/ Reused(view.base.id, view.base.no)
               d == DiffRow(view.base, view.new, raced)
    <2>1. /\ view.new \in Configs /\ view.base.cfg \in Configs
          /\ Same(view.of, view.no) => view.new = row[view.of].cfg
          /\ Same(view.base.id, view.base.no) => view.base.cfg = row[view.base.id].cfg
        BY <1>1 DEF ViewInv
    <2>2. view.of \in Alive /\ view.base.id \in Alive
        BY <1>5
    <2>3. d \in DiffRows /\ DiffTrue(d, view.of)
        BY <1>2, <2>1, <2>2, DiffRowTrue
    <2>4. diff' = [diff EXCEPT ![<<view.of, view.kind>>] = d]
        BY <1>5
    <2> HIDE DEF d
    <2>5. diff' \in [Ids \X Kinds -> DiffRows \cup {None}]
        BY <1>3, <2>3, <2>4
    <2>6. ASSUME NEW b \in Ids, NEW k \in Kinds
          PROVE  diff'[<<b, k>>] = diff[<<b, k>>] \/ (b \in Alive /\ DiffTrue(diff'[<<b, k>>], b))
        <3>1. CASE b = view.of /\ k = view.kind
            BY <1>3, <2>2, <2>3, <2>4, <3>1
        <3>2. CASE ~(b = view.of /\ k = view.kind)
            <4>1. <<b, k>> # <<view.of, view.kind>>
                BY <3>2
            <4> QED BY <1>3, <2>4, <4>1
        <3> QED BY <3>1, <3>2
    <2> QED BY <1>1, <2>5, <2>6, DiffsFromRows
<1> QED BY <1>4, <1>5 DEF WriteDiff

\* The worker stores the diffs of a new backup.
LEMMA DiffsIngest ==
    ASSUME RowTypes, StepTypes, DiffTypes, CachedDiffTrue, IngestInv, IngestCommit
    PROVE  DiffTypes' /\ CachedDiffTrue'
<1> DEFINE raced(k) == Reused(ingest.of, ingest.no) \/ Reused(ingest.base[k].id, ingest.base[k].no)
           d(k) == DiffRow(ingest.base[k], ingest.new, raced(k))
<1>1. ingest # None /\ ingest.at = "write" /\ row' = row /\ IngestFits
    BY DEF IngestCommit
<1>2. diff' = [p \in Ids \X Kinds |-> IF p[1] = ingest.of /\ Usable(ingest.base[p[2]]) THEN d(p[2]) ELSE diff[p]]
    BY DEF IngestCommit
<1>3. diff \in [Ids \X Kinds -> DiffRows \cup {None}]
    BY DEF DiffTypes
<1>4. ingest.of \in Alive /\ \A k \in Kinds : Usable(ingest.base[k]) => ingest.base[k].id \in Alive
    BY <1>1 DEF IngestFits
<1>5. ASSUME NEW k \in Kinds, Usable(ingest.base[k]) PROVE d(k) \in DiffRows /\ DiffTrue(d(k), ingest.of)
    <2> DEFINE r == ingest.base[k]
               rc == Reused(ingest.of, ingest.no) \/ Reused(r.id, r.no)
    <2>1. /\ ingest.new \in Configs /\ r \in Snapshot \cup {None}
          /\ Same(ingest.of, ingest.no) => ingest.new = row[ingest.of].cfg
          /\ Same(r.id, r.no) => r.cfg = row[r.id].cfg
        BY <1>1, <1>5 DEF IngestInv
    <2>2. r \in Snapshot /\ r.cfg \in Configs /\ r.id \in Alive
        BY <1>4, <1>5, <2>1 DEF Usable, Snapshot
    <2>3. DiffRow(r, ingest.new, rc) \in DiffRows /\ DiffTrue(DiffRow(r, ingest.new, rc), ingest.of)
        BY <1>4, <2>1, <2>2, DiffRowTrue
    <2> QED BY <2>3
<1> HIDE DEF d
<1>6. ASSUME NEW b \in Ids, NEW k \in Kinds
      PROVE  diff'[<<b, k>>] = IF b = ingest.of /\ Usable(ingest.base[k]) THEN d(k) ELSE diff[<<b, k>>]
    <2>1. <<b, k>> \in Ids \X Kinds /\ <<b, k>>[1] = b /\ <<b, k>>[2] = k
        OBVIOUS
    <2> QED BY <1>2, <2>1
<1>7. diff' \in [Ids \X Kinds -> DiffRows \cup {None}]
    <2>1. ASSUME NEW p \in Ids \X Kinds
          PROVE  (IF p[1] = ingest.of /\ Usable(ingest.base[p[2]]) THEN d(p[2]) ELSE diff[p]) \in DiffRows \cup {None}
        <3>1. p[2] \in Kinds /\ diff[p] \in DiffRows \cup {None}
            BY <1>3
        <3> QED BY <3>1, <1>5
    <2> QED BY <1>2, <2>1
<1>8. ASSUME NEW b \in Ids, NEW k \in Kinds
      PROVE  diff'[<<b, k>>] = diff[<<b, k>>] \/ (b \in Alive /\ DiffTrue(diff'[<<b, k>>], b))
    BY <1>4, <1>5, <1>6
<1> QED BY <1>1, <1>7, <1>8, DiffsFromRows

\* A deletion takes the diffs of the backup with it and forgets it as a base.
LEMMA DiffsDelete ==
    ASSUME RowTypes, DiffTypes, CachedDiffTrue, NEW x \in Ids, Delete(x)
    PROVE  DiffTypes' /\ CachedDiffTrue'
<1>1. /\ x \in Alive /\ row' = [row EXCEPT ![x] = None]
      /\ diff' = [p \in Ids \X Kinds |-> IF p[1] = x THEN None ELSE Forgotten(diff[p], x)]
    BY DEF Delete
<1>2. Alive' = Alive \ {x} /\ \A p \in Alive \ {x} : row'[p] = row[p]
    BY <1>1, Removed
<1>3. diff \in [Ids \X Kinds -> DiffRows \cup {None}]
    BY DEF DiffTypes
<1>4. ASSUME NEW d \in DiffRows \cup {None}
      PROVE  /\ Forgotten(d, x) \in DiffRows \cup {None}
             /\ d = None => Forgotten(d, x) = None
             /\ \/ Forgotten(d, x) = d /\ (d # None => d.base # x)
                \/ Forgotten(d, x).base = None
    <2>1. CASE d # None /\ d.base = x
        <3>1. d \in DiffRows /\ Forgotten(d, x) = [d EXCEPT !.base = None]
            BY <2>1 DEF Forgotten
        <3> QED BY <2>1, <3>1 DEF DiffRows
    <2>2. CASE ~(d # None /\ d.base = x)
        BY <2>2 DEF Forgotten
    <2> QED BY <2>1, <2>2
<1>5. ASSUME NEW b \in Ids, NEW k \in Kinds
      PROVE  diff'[<<b, k>>] = IF b = x THEN None ELSE Forgotten(diff[<<b, k>>], x)
    <2>1. <<b, k>> \in Ids \X Kinds /\ <<b, k>>[1] = b
        OBVIOUS
    <2> QED BY <1>1, <2>1
<1>6. diff' \in [Ids \X Kinds -> DiffRows \cup {None}]
    <2>1. ASSUME NEW p \in Ids \X Kinds
          PROVE  (IF p[1] = x THEN None ELSE Forgotten(diff[p], x)) \in DiffRows \cup {None}
        BY <1>3, <1>4
    <2> QED BY <1>1, <2>1
<1>7. ASSUME NEW b \in Ids, NEW k \in Kinds, diff'[<<b, k>>] # None PROVE b \in Alive'
    <2>1. b # x /\ diff[<<b, k>>] # None
        BY <1>3, <1>4, <1>5, <1>7
    <2> QED BY <1>2, <2>1 DEF DiffTypes
<1>8. ASSUME NEW b \in Alive', NEW k \in Kinds, NEW d, d = diff'[<<b, k>>], d # None, ~d.raced, d.base # None
      PROVE  d.base \in Alive' /\ d.body = DiffConfigs(row'[d.base].cfg, row'[b].cfg)
    <2>1. b \in Ids /\ b # x /\ b \in Alive
        BY <1>2 DEF Alive
    <2>2. d = diff[<<b, k>>] /\ d.base # x
        BY <1>3, <1>4, <1>5, <1>8, <2>1
    <2>3. d.base \in Alive /\ d.body = DiffConfigs(row[d.base].cfg, row[b].cfg)
        BY <1>8, <2>1, <2>2 DEF CachedDiffTrue
    <2> QED BY <1>2, <2>1, <2>2, <2>3
<1> QED BY <1>6, <1>7, <1>8 DEF DiffTypes, CachedDiffTrue

\* Diffs are kept true by every step.
LEMMA DiffStep ==
    ASSUME RowTypes, CountTypes, StepTypes, DiffTypes, CachedDiffTrue, IngestInv, ViewInv, Next
    PROVE  DiffTypes' /\ CachedDiffTrue'
<1>1. CASE diff' = diff /\ Alive \subseteq Alive'
    <2>1. Kept
        BY RowStep
    <2>2. DiffTypes'
        BY <1>1 DEF DiffTypes
    <2>3. ASSUME NEW b \in Alive', NEW k \in Kinds, NEW d, d = diff'[<<b, k>>], d # None, ~d.raced, d.base # None
          PROVE  d.base \in Alive' /\ d.body = DiffConfigs(row'[d.base].cfg, row'[b].cfg)
        <3>1. b \in Ids /\ d = diff[<<b, k>>]
            BY <1>1, <2>3 DEF Alive
        <3>2. b \in Alive
            BY <2>3, <3>1 DEF DiffTypes
        <3>3. d.base \in Alive /\ d.body = DiffConfigs(row[d.base].cfg, row[b].cfg)
            BY <2>3, <3>1, <3>2 DEF CachedDiffTrue
        <3> QED BY <1>1, <2>1, <3>2, <3>3 DEF Kept
    <2>4. CachedDiffTrue'
        BY <2>3 DEF CachedDiffTrue
    <2> QED BY <2>2, <2>4
<1> QED BY <1>1, DiffCases, DiffsIngest, DiffsView, DiffsDelete
-----------------------------------------------------------------------------
(* The log.                                                                *)

\* The backup being ingested stays the newest: no other is made meanwhile.
LEMMA NewestStep ==
    ASSUME RowTypes, CountTypes, StepTypes, SerialInv, NewestInv, Next
    PROVE  NewestInv'
<1>1. Kept
    BY RowStep
<1> SUFFICES ASSUME ingest' # None, ingest'.of \in Alive', row'[ingest'.of].no = ingest'.no
             PROVE  row'[ingest'.of].at = made'
    BY DEF NewestInv, Same
<1>2. ASSUME NEW c \in Configs, Backup(c) PROVE row'[ingest'.of].at = made'
    <2> DEFINE b == 1 + Max({0} \cup Alive)
    <2>1. /\ Inserts(b, made + 1, c) /\ made + 1 \in 0..MaxBackups
          /\ made + faults + 1 <= MaxBackups + MaxFaults /\ made' = made + 1
        BY <1>2, Insertions
    <2>2. ingest'.of = b
        BY <1>2 DEF Backup
    <2> HIDE DEF b
    <2>3. row'[b].at = made + 1
        BY <2>1, Inserted
    <2> QED BY <2>1, <2>2, <2>3
<1>3. ASSUME ingest # None, ingest'.of = ingest.of, ingest'.no = ingest.no PROVE row'[ingest'.of].at = made'
    <2>1. ingest.no \in Nat /\ ingest.no <= made + faults
        BY <1>3, PendingFields DEF SerialInv
    <2>2. Same(ingest.of, ingest.no) /\ row'[ingest.of].at = row[ingest.of].at
        BY <1>1, <1>3, <2>1, SameKept
    <2>3. made' = made
        <3>1. ASSUME NEW c \in Configs, Backup(c) PROVE FALSE
            BY <1>3, <3>1 DEF Backup
        <3>2. ASSUME NEW c \in Configs, Import(c) PROVE made' = made
            BY <3>2 DEF Import
        <3>3. ASSUME NEW b \in Ids, Delete(b) \/ LoseFile(b) PROVE made' = made
            BY <3>3 DEF Delete, LoseFile
        <3> QED BY <3>1, <3>2, <3>3, RowCases
    <2> QED BY <1>3, <2>2, <2>3 DEF NewestInv
<1>4. CASE IngestRead
    <2>1. ingest # None /\ ReadOn(ingest.of)
        BY <1>4, IngestReadCases
    <2>2. ingest \in Ingest
        BY <2>1, PendingFields
    <2> QED BY <1>3, <2>1, <2>2, ReadOnFields
<1> QED BY <1>2, <1>3, <1>4, IngestCases DEF IngestCommit, IngestFail

\* An entry of the log is the event and the backups it is logged with.
LEMMA LoggedIs ==
    ASSUME NEW es, NEW b, NEW p
    PROVE  /\ \A e \in Logged(es, b, p) :
                 \E f \in es : /\ e = [of |-> b, prev |-> p, anchor |-> f.anchor, kind |-> f.kind, val |-> f.val]
                               /\ e.of = b /\ e.prev = p /\ e.anchor = f.anchor /\ e.kind = f.kind /\ e.val = f.val
           /\ \A f \in es : \E e \in Logged(es, b, p) : e.of = b /\ e.anchor = f.anchor /\ e.kind = f.kind
<1> DEFINE R(f) == [of |-> b, prev |-> p, anchor |-> f.anchor, kind |-> f.kind, val |-> f.val]
<1>1. \A f : R(f).of = b /\ R(f).prev = p /\ R(f).anchor = f.anchor /\ R(f).kind = f.kind /\ R(f).val = f.val
    OBVIOUS
<1>2. Logged(es, b, p) = {R(f) : f \in es}
    BY DEF Logged
<1>3. \A e : (\E f \in es : e = R(f)) => \E f \in es :
            /\ e = R(f)
            /\ e.of = b /\ e.prev = p /\ e.anchor = f.anchor /\ e.kind = f.kind /\ e.val = f.val
    <2> HIDE DEF R
    <2> QED BY <1>1
<1>4. \A f \in es : \E e \in Logged(es, b, p) : e.of = b /\ e.anchor = f.anchor /\ e.kind = f.kind
    <2> HIDE DEF R
    <2> QED BY <1>1, <1>2
<1>5. \A e \in Logged(es, b, p) : \E f \in es : e = R(f)
    BY <1>2
<1> QED BY <1>3, <1>4, <1>5

\* Entry e is about backup b and tells what c holds.
Tells(e, b, c) ==
    /\ e \in Entries /\ e.of = b
    /\ e.anchor \in PlainAnchors => Accords(e, c)

\* The entries for the diff of two configurations tell what the later one holds.
LEMMA LoggedDiff ==
    ASSUME NEW a \in Configs, NEW c \in Configs, NEW b \in Ids, NEW p \in Ids \cup {None},
           NEW e \in Logged(DiffToAnchorEvents(DiffConfigs(a, c), c), b, p)
    PROVE  Tells(e, b, c) /\ e.prev = p
<1>1. IsConfig(a) /\ IsConfig(c)
    BY HistoryAssumption
<1>2. PICK f \in DiffToAnchorEvents(DiffConfigs(a, c), c) :
         /\ e = [of |-> b, prev |-> p, anchor |-> f.anchor, kind |-> f.kind, val |-> f.val]
         /\ e.of = b /\ e.prev = p /\ e.anchor = f.anchor /\ e.kind = f.kind /\ e.val = f.val
    BY LoggedIs
<1>3. /\ f.anchor \in AllAnchors /\ f.kind \in EventKinds /\ f.val \in Vals \cup {None}
      /\ f.anchor \in PlainAnchors => Accords(f, c)
    BY <1>1, DiffTold
<1>4. e \in Entries
    BY <1>2, <1>3 DEF Entries
<1> QED BY <1>2, <1>3, <1>4 DEF Tells, Accords

\* So do the entries of a configuration that is logged whole.
LEMMA LoggedSeed ==
    ASSUME NEW c \in Configs, NEW b \in Ids, NEW e \in Logged(SeedEvents(c), b, None)
    PROVE  Tells(e, b, c) /\ e.prev = None
<1>1. IsConfig(c)
    BY HistoryAssumption
<1>2. PICK f \in SeedEvents(c) :
         /\ e = [of |-> b, prev |-> None, anchor |-> f.anchor, kind |-> f.kind, val |-> f.val]
         /\ e.of = b /\ e.prev = None /\ e.anchor = f.anchor /\ e.kind = f.kind /\ e.val = f.val
    BY LoggedIs
<1>3. /\ f.anchor \in AllAnchors /\ f.kind \in EventKinds /\ f.val \in Vals \cup {None}
      /\ f.anchor \in PlainAnchors => Accords(f, c)
    BY <1>1, SeedTold
<1>4. e \in Entries
    BY <1>2, <1>3 DEF Entries
<1> QED BY <1>2, <1>3, <1>4 DEF Tells, Accords

\* What the worker's commit adds to the log.
LEMMA IngestLogs ==
    ASSUME RowTypes, StepTypes, IngestInv, IngestCommit
    PROVE  /\ event \subseteq event'
           /\ \A e \in event' \ event : Tells(e, ingest.of, ingest.new) /\ e.prev \in Alive \cup {None}
<1> DEFINE r == ingest.base["previous"]
           new == IF Usable(r) THEN Logged(DiffToAnchorEvents(DiffConfigs(r.cfg, ingest.new), ingest.new), ingest.of, r.id)
                  ELSE IF r = None /\ ingest.base["first"] = None THEN Logged(SeedEvents(ingest.new), ingest.of, None)
                  ELSE {}
<1>1. ingest # None /\ ingest.at = "write" /\ event' = event \cup new
    BY DEF IngestCommit
<1>2. /\ ingest.new \in Configs /\ r \in Snapshot \cup {None} /\ ingest.of \in Ids
    BY <1>1, PendingFields DEF IngestInv, Kinds
<1>3. Usable(r) => r.id \in Alive
    BY DEF IngestCommit, IngestFits, Kinds
<1>4. ASSUME NEW e \in new PROVE Tells(e, ingest.of, ingest.new) /\ e.prev \in Alive \cup {None}
    <2>1. CASE Usable(r)
        <3>1. r.cfg \in Configs /\ r.id \in Ids
            BY <1>2, <2>1 DEF Usable, Snapshot
        <3> HIDE DEF r
        <3>2. Tells(e, ingest.of, ingest.new) /\ e.prev = r.id
            BY <1>2, <1>4, <2>1, <3>1, LoggedDiff
        <3> QED BY <1>3, <2>1, <3>2
    <2>2. CASE ~Usable(r)
        <3>1. e \in Logged(SeedEvents(ingest.new), ingest.of, None)
            BY <1>4, <2>2
        <3> QED BY <1>2, <3>1, LoggedSeed
    <2> QED BY <2>1, <2>2
<1> HIDE DEF new
<1> QED BY <1>1, <1>4

\* What the deletion of a backup leaves of the log.
LEMMA CascadedIs ==
    ASSUME event \subseteq Entries, NEW x \in Ids
    PROVE  /\ \A e \in Cascaded(x) : \E f \in event :
                 /\ f.of # x /\ e \in Entries
                 /\ e.of = f.of /\ e.anchor = f.anchor /\ e.kind = f.kind /\ e.val = f.val
                 /\ e.prev = None \/ (e.prev = f.prev /\ e.prev # x)
           /\ \A f \in event : f.of # x =>
                 \E e \in Cascaded(x) : e.of = f.of /\ e.anchor = f.anchor /\ e.kind = f.kind
<1> DEFINE C(f) == IF f.prev = x THEN [f EXCEPT !.prev = None] ELSE f
<1>1. x # None
    BY HistoryAssumption DEF Ids
<1>2. ASSUME NEW f \in event
      PROVE  /\ C(f) \in Entries /\ C(f).of = f.of /\ C(f).anchor = f.anchor /\ C(f).kind = f.kind /\ C(f).val = f.val
             /\ C(f).prev = None \/ (C(f).prev = f.prev /\ C(f).prev # x)
    <2>1. f \in Entries
        OBVIOUS
    <2> QED BY <1>1, <2>1 DEF Entries
<1>3. Cascaded(x) = {C(e) : e \in {f \in event : f.of # x}}
    BY DEF Cascaded
<1> HIDE DEF C
<1>4. \A e \in Cascaded(x) : \E f \in event : f.of # x /\ e = C(f)
    BY <1>3
<1>5. \A f \in event : f.of # x => C(f) \in Cascaded(x)
    BY <1>3
<1> QED BY <1>2, <1>4, <1>5

\* What the reindex command logs of a backup it walks over.
LEMMA RebuiltIs ==
    ASSUME RowTypes, NEW b \in Walked
    PROVE  /\ \A e \in Rebuilt(b) : Tells(e, b, row[b].cfg) /\ e.prev \in Alive \cup {None}
           /\ Before(b) = None => Walked \cap Earlier(b) = {}
           /\ Before(b) # None => /\ Before(b) \in Walked \cap Earlier(b)
                                  /\ \A p \in Walked \cap Earlier(b) : row[p].at <= row[Before(b)].at
<1> DEFINE S == Walked \cap Earlier(b)
           a == Before(b)
<1>1. b \in Alive /\ S \subseteq Alive
    BY DEF Walked, Readable, Earlier
<1>2. a = IF S = {} THEN None ELSE Latest(S)
    BY DEF Before
<1>3. None \notin Alive
    BY HistoryAssumption DEF Alive, Ids
<1>4. Rebuilt(b) = IF a = None THEN Logged(SeedEvents(row[b].cfg), b, None)
                   ELSE Logged(DiffToAnchorEvents(DiffConfigs(row[a].cfg, row[b].cfg), row[b].cfg), b, a)
    BY DEF Rebuilt
<1>5. b \in Ids /\ row[b].cfg \in Configs
    BY <1>1, RowFields
<1> HIDE DEF S, a
<1>6. S # {} => a \in S /\ a # None /\ \A p \in S : row[p].at <= row[a].at
    BY <1>1, <1>2, <1>3, LatestIs
<1>7. CASE S = {}
    <2>1. a = None
        BY <1>2, <1>7
    <2>2. ASSUME NEW e \in Rebuilt(b) PROVE Tells(e, b, row[b].cfg) /\ e.prev \in Alive \cup {None}
        <3>1. e \in Logged(SeedEvents(row[b].cfg), b, None)
            BY <1>4, <2>1
        <3> QED BY <3>1, <1>5, LoggedSeed
    <2> QED BY <2>1, <2>2, <1>7 DEF S, a
<1>8. CASE S # {}
    <2>1. a \in S /\ a # None /\ a \in Alive
        BY <1>1, <1>6, <1>8
    <2>2. a \in Ids /\ row[a].cfg \in Configs
        BY <2>1, RowFields
    <2>3. ASSUME NEW e \in Rebuilt(b) PROVE Tells(e, b, row[b].cfg) /\ e.prev \in Alive \cup {None}
        <3>1. e \in Logged(DiffToAnchorEvents(DiffConfigs(row[a].cfg, row[b].cfg), row[b].cfg), b, a)
            BY <1>4, <2>1
        <3>2. Tells(e, b, row[b].cfg) /\ e.prev = a
            BY <3>1, <1>5, <2>2, LoggedDiff
        <3> QED BY <2>1, <3>2
    <2> QED BY <1>6, <1>8, <2>3 DEF S, a
<1> QED BY <1>7, <1>8

\* The rebuild's commit that replaces the log.
Rebuilds ==
    /\ rebuild.at = "locked" /\ rebuild.list \subseteq Alive
    /\ event' = UNION {Rebuilt(b) : b \in Walked}
    /\ gap' = (rebuild.list # Alive \/ Walked # Alive)
    /\ row' = row /\ ingest' = ingest

\* Which steps touch the log.
LEMMA EventCases ==
    ASSUME RowTypes, CountTypes, Next
    PROVE  \/ IngestCommit \/ Rebuilds
           \/ \E b \in Ids : Delete(b)
           \/ event' = event /\ (gap => gap') /\ Alive \subseteq Alive'
<1>0. row' = row => Alive \subseteq Alive'
    BY DEF Alive
<1>1. ASSUME NEW b \in Ids, DiffSummary(b) \/ DiffVsFirst(b) PROVE event' = event /\ gap' = gap /\ row' = row
    BY <1>1 DEF DiffSummary, DiffVsFirst, OpenDiff
<1>2. ASSUME NEW c \in Configs, Backup(c) \/ Import(c) PROVE event' = event /\ (gap => gap') /\ Alive \subseteq Alive'
    <2>1. Backup(c) => event' = event /\ gap' = gap
        BY DEF Backup
    <2>2. Import(c) => event' = event /\ (gap' <=> gap \/ Alive = {})
        BY DEF Import
    <2>3. Alive \subseteq Alive'
        BY <1>2, Insertions, Inserted
    <2> QED BY <1>2, <2>1, <2>2, <2>3
<1>3. ASSUME NEW b \in Ids, LoseFile(b) PROVE event' = event /\ gap' = gap /\ Alive \subseteq Alive'
    BY <1>3, FileLost DEF LoseFile
<1>4. CASE IngestRead \/ IngestFail
    <2>1. event' = event /\ (gap => gap') /\ row' = row
        BY <1>4 DEF IngestRead, IngestFail
    <2> QED BY <1>0, <2>1
<1>5. CASE ReadDiff \/ WriteDiff
    <2>1. event' = event /\ gap' = gap /\ row' = row
        BY <1>5 DEF ReadDiff, WriteDiff
    <2> QED BY <1>0, <2>1
<1>6. CASE ReindexList \/ ReindexLock \/ ReindexKilled
    <2>1. event' = event /\ gap' = gap /\ row' = row
        BY <1>6 DEF ReindexList, ReindexLock, ReindexKilled
    <2> QED BY <1>0, <2>1
<1>7. CASE ReindexCommit
    <2>1. CASE rebuild.list \subseteq Alive
        BY <1>7, <2>1 DEF ReindexCommit, Rebuilds
    <2>2. CASE ~(rebuild.list \subseteq Alive)
        <3>1. event' = event /\ gap' = gap /\ row' = row
            BY <1>7, <2>2 DEF ReindexCommit
        <3> QED BY <1>0, <3>1
    <2> QED BY <2>1, <2>2
<1> QED BY <1>0, <1>1, <1>2, <1>3, <1>4, <1>5, <1>6, <1>7 DEF Next

\* An entry of the rebuilt log is one of a backup the command walked over.
LEMMA RebuildLogs ==
    ASSUME RowTypes, Rebuilds, NEW e \in event'
    PROVE  \E b \in Walked : e \in Rebuilt(b) /\ b \in Alive /\ Tells(e, b, row[b].cfg) /\ e.prev \in Alive \cup {None}
<1>1. PICK b \in Walked : e \in Rebuilt(b)
    BY DEF Rebuilds
<1> QED BY <1>1, RebuiltIs DEF Walked, Readable

\* The log keeps its type and names backups that exist.
LEMMA EventsTyped ==
    ASSUME RowTypes, CountTypes, StepTypes, EventTypes, IngestInv, Next
    PROVE  EventTypes'
<1> SUFFICES ASSUME NEW e \in event' PROVE e \in Entries /\ e.of \in Alive' /\ e.prev \in Alive' \cup {None}
    BY DEF EventTypes, Entries, Ids, PlainAnchors, AllAnchors, EventKinds
<1>1. CASE IngestCommit
    <2>1. row' = row /\ ingest.of \in Alive
        BY <1>1 DEF IngestCommit, IngestFits
    <2>2. Alive' = Alive
        BY <2>1 DEF Alive
    <2>3. CASE e \in event
        BY <2>2, <2>3 DEF EventTypes
    <2>4. CASE e \notin event
        <3>1. Tells(e, ingest.of, ingest.new) /\ e.prev \in Alive \cup {None}
            BY <1>1, <2>4, IngestLogs
        <3> QED BY <2>1, <2>2, <3>1 DEF Tells
    <2> QED BY <2>3, <2>4
<1>2. CASE Rebuilds
    <2>1. row' = row
        BY <1>2 DEF Rebuilds
    <2>2. Alive' = Alive
        BY <2>1 DEF Alive
    <2>3. PICK b \in Walked : b \in Alive /\ Tells(e, b, row[b].cfg) /\ e.prev \in Alive \cup {None}
        BY <1>2, RebuildLogs
    <2> QED BY <2>2, <2>3 DEF Tells
<1>3. ASSUME NEW x \in Ids, Delete(x) PROVE e \in Entries /\ e.of \in Alive' /\ e.prev \in Alive' \cup {None}
    <2>1. x \in Alive /\ row' = [row EXCEPT ![x] = None] /\ event' = Cascaded(x)
        BY <1>3 DEF Delete
    <2>2. Alive' = Alive \ {x}
        BY <2>1, Removed
    <2>3. PICK f \in event : /\ f.of # x /\ e \in Entries /\ e.of = f.of
                             /\ e.prev = None \/ (e.prev = f.prev /\ e.prev # x)
        BY <2>1, CascadedIs DEF EventTypes
    <2> QED BY <2>2, <2>3 DEF EventTypes
<1>4. CASE event' = event /\ Alive \subseteq Alive'
    BY <1>4 DEF EventTypes
<1> QED BY <1>1, <1>2, <1>3, <1>4, EventCases

\* A backup that is being ingested after a step, and was there before it, was being
\* ingested before.
LEMMA PendingBefore ==
    ASSUME RowTypes, CountTypes, StepTypes, SerialInv, Next,
           ingest' # None, ingest'.of \in Alive, ingest'.of \in Alive', row'[ingest'.of].no = ingest'.no
    PROVE  ingest # None /\ ingest'.of = ingest.of /\ Same(ingest.of, ingest.no)
<1>1. ASSUME NEW c \in Configs, Backup(c) PROVE FALSE
    <2>1. ingest'.of = 1 + Max({0} \cup Alive)
        BY <1>1 DEF Backup
    <2> QED BY <2>1, FreshId
<1>2. ASSUME ingest # None, ingest'.of = ingest.of, ingest'.no = ingest.no PROVE Same(ingest.of, ingest.no)
    <2>1. ingest.no \in Nat /\ ingest.no <= made + faults
        BY <1>2, PendingFields DEF SerialInv
    <2>2. Kept
        BY RowStep
    <2> QED BY <1>2, <2>1, <2>2, SameKept
<1>3. CASE IngestRead
    <2>1. ingest # None /\ ReadOn(ingest.of)
        BY <1>3, IngestReadCases
    <2>2. ingest \in Ingest
        BY <2>1, PendingFields
    <2> QED BY <1>2, <2>1, <2>2, ReadOnFields
<1> QED BY <1>1, <1>2, <1>3, IngestCases DEF IngestCommit, IngestFail

\* The instance had no other backup, so that this one is logged whole.
Seeds == ingest.base["previous"] = None /\ ingest.base["first"] = None

\* What it takes for the worker's commit to leave no gap.
LEMMA CommitGap ==
    ASSUME IngestCommit, ~gap'
    PROVE  /\ Same(ingest.of, ingest.no)
           /\ ~gap \/ (Seeds /\ Alive = {ingest.of})
           /\ ~Seeds => LET r == ingest.base["previous"] IN Usable(r) /\ Same(r.id, r.no)
<1> DEFINE b == ingest.of
           r == ingest.base["previous"]
<1>1. b \in Alive /\ (Usable(r) => r.id \in Alive)
    BY DEF IngestCommit, IngestFits, Kinds
<1>2. gap' = (IF Seeds THEN Reused(b, ingest.no) \/ (gap /\ Alive # {b})
              ELSE gap \/ ~Usable(r) \/ (Reused(b, ingest.no) \/ Reused(r.id, r.no)))
    BY DEF IngestCommit, Seeds
<1> HIDE DEF b, r
<1>3. ~Reused(b, ingest.no)
    BY <1>2
<1>4. ~gap \/ (Seeds /\ Alive = {b})
    BY <1>2
<1>5. ~Seeds => Usable(r) /\ ~Reused(r.id, r.no)
    BY <1>2
<1>6. Same(b, ingest.no) /\ (~Seeds => Usable(r) /\ Same(r.id, r.no))
    BY <1>1, <1>3, <1>5 DEF Reused, Same
<1> QED BY <1>4, <1>6 DEF b, r

\* Events keep telling what their backup holds.
LEMMA ToldStep ==
    ASSUME RowTypes, CountTypes, StepTypes, EventTypes, SerialInv, IngestInv, ToldInv, Next
    PROVE  ToldInv'
<1> SUFFICES ASSUME NEW e \in event', e.anchor \in PlainAnchors,
                    \/ ~gap'
                    \/ ingest' # None /\ ingest'.of = e.of /\ ingest'.of \in Alive' /\ row'[ingest'.of].no = ingest'.no
             PROVE  \A c : c = row'[e.of].cfg => Accords(e, c)
    BY DEF ToldInv, Same, Accords, PlainAnchors
<1>1. Kept
    BY RowStep
<1>2. CASE event' = event /\ (gap => gap') /\ Alive \subseteq Alive'
    <2>1. e \in event /\ e.of \in Alive /\ e.of \in Alive'
        BY <1>2 DEF EventTypes
    <2>2. ~gap \/ (ingest # None /\ ingest.of = e.of /\ Same(ingest.of, ingest.no))
        BY <1>2, <2>1, PendingBefore
    <2>3. Accords(e, row[e.of].cfg)
        BY <2>1, <2>2 DEF ToldInv
    <2> QED BY <1>1, <2>1, <2>3 DEF Kept
<1>3. CASE IngestCommit
    <2>1. row' = row /\ ingest' = None /\ ingest # None /\ ingest.at = "write"
        BY <1>3 DEF IngestCommit
    <2>2. Same(ingest.of, ingest.no) /\ (~gap \/ (Seeds /\ Alive = {ingest.of}))
        BY <1>3, <2>1, CommitGap
    <2>3. CASE e \in event
        <3>1. e.of \in Alive
            BY <2>3 DEF EventTypes
        <3>2. ~gap \/ (ingest # None /\ ingest.of = e.of /\ Same(ingest.of, ingest.no))
            BY <2>1, <2>2, <3>1
        <3> QED BY <2>1, <2>3, <3>2 DEF ToldInv
    <2>4. CASE e \notin event
        <3>1. Tells(e, ingest.of, ingest.new)
            BY <1>3, <2>4, IngestLogs
        <3>2. ingest.new = row[ingest.of].cfg
            BY <2>1, <2>2 DEF IngestInv
        <3> QED BY <2>1, <3>1, <3>2 DEF Tells
    <2> QED BY <2>3, <2>4
<1>4. CASE Rebuilds
    <2>1. row' = row
        BY <1>4 DEF Rebuilds
    <2>2. PICK b \in Walked : Tells(e, b, row[b].cfg)
        BY <1>4, RebuildLogs
    <2> QED BY <2>1, <2>2 DEF Tells
<1>5. ASSUME NEW x \in Ids, Delete(x) PROVE \A c : c = row'[e.of].cfg => Accords(e, c)
    <2>1. x \in Alive /\ row' = [row EXCEPT ![x] = None] /\ event' = Cascaded(x)
        BY <1>5 DEF Delete
    <2>2. gap' <=> gap \/ (Earlier(x) # {} /\ \E p \in Alive : x \in Earlier(p))
        BY <1>5 DEF Delete
    <2>3. Alive' = Alive \ {x}
        BY <2>1, Removed
    <2>4. PICK f \in event : f.of # x /\ e.of = f.of /\ e.anchor = f.anchor /\ e.kind = f.kind /\ e.val = f.val
        BY <2>1, CascadedIs DEF EventTypes
    <2>5. f.of \in Alive /\ f.of \in Alive'
        BY <2>3, <2>4 DEF EventTypes
    <2>6. ~gap \/ (ingest # None /\ ingest.of = f.of /\ Same(ingest.of, ingest.no))
        BY <2>2, <2>4, <2>5, PendingBefore
    <2>7. Accords(f, row[f.of].cfg)
        BY <2>4, <2>6 DEF ToldInv
    <2>8. row'[e.of].cfg = row[f.of].cfg
        BY <1>1, <2>4, <2>5 DEF Kept
    <2> QED BY <2>4, <2>7, <2>8 DEF Accords
<1> QED BY <1>2, <1>3, <1>4, <1>5, EventCases

\* The log of a diff has an entry for every plain anchor whose value differs.
LEMMA LoggedChange ==
    ASSUME NEW a \in Configs, NEW c \in Configs, NEW b, NEW p, NEW x \in PlainAnchors, Held(a, x) # Held(c, x)
    PROVE  \E e \in Logged(DiffToAnchorEvents(DiffConfigs(a, c), c), b, p) :
              e.of = b /\ e.anchor = x /\ e.kind # "reordered"
<1>1. IsConfig(a) /\ IsConfig(c)
    BY HistoryAssumption
<1>2. PICK f \in DiffToAnchorEvents(DiffConfigs(a, c), c) : f.anchor = x /\ f.kind # "reordered"
    BY <1>1, DiffLogged
<1> QED BY <1>2, LoggedIs

\* Only one backup is the one before.
LEMMA PreviousUnique ==
    ASSUME RowTypes, SerialInv, NEW b \in Alive, NEW p, NEW q, IsPrevious(p, b), IsPrevious(q, b)
    PROVE  p = q
<1>1. p \in Alive /\ q \in Alive /\ row[p].at <= row[q].at /\ row[q].at <= row[p].at
    BY DEF IsPrevious
<1>2. row[p].at \in Nat /\ row[q].at \in Nat
    BY <1>1, RowFields
<1>3. row[p].at = row[q].at
    BY <1>1, <1>2
<1> QED BY <1>1, <1>3 DEF SerialInv

\* The log tells that anchor a has changed in backup b.
Changed(a, b) == \E e \in event : e.of = b /\ e.anchor = a /\ e.kind # "reordered"

\* CompleteInv for two backups and an anchor.
LEMMA CompleteIs ==
    ASSUME CompleteInv, ~gap, NEW b \in Alive, NEW p \in Alive, IsPrevious(p, b), ~Owed(b),
           row[p].at # 0 \/ \E e \in event : e.of = p,
           NEW a \in PlainAnchors, Held(row[p].cfg, a) # Held(row[b].cfg, a)
    PROVE  Changed(a, b)
BY DEF CompleteInv, Changed

\* The worker's commit leaves no change out.
LEMMA CompleteCommit ==
    ASSUME RowTypes, CountTypes, StepTypes, EventTypes, SerialInv, IngestInv, BaseInv, NewestInv, CompleteInv,
           IngestCommit, ~gap', NEW b \in Alive, NEW p \in Alive, IsPrevious(p, b),
           row[p].at # 0 \/ \E e \in event' : e.of = p,
           NEW a \in PlainAnchors, Held(row[p].cfg, a) # Held(row[b].cfg, a)
    PROVE  \E e \in event' : e.of = b /\ e.anchor = a /\ e.kind # "reordered"
<1> DEFINE r == ingest.base["previous"]
<1>1. ingest # None /\ ingest.at = "write" /\ ingest.of \in Alive
    BY DEF IngestCommit, IngestFits
<1>2. Same(ingest.of, ingest.no) /\ (~gap \/ (Seeds /\ Alive = {ingest.of})) /\ (~Seeds => Usable(r) /\ Same(r.id, r.no))
    BY CommitGap
<1>3. row[p].at \in Nat /\ row[b].at \in Nat /\ made \in Nat /\ row[p].at < row[b].at
    BY RowFields, HistoryAssumption DEF CountTypes, IsPrevious
<1>4. p # b
    BY <1>3
<1>5. ~gap
    BY <1>2, <1>4
<1>6. p # ingest.of
    <2>1. ASSUME p = ingest.of PROVE FALSE
        <3>1. row[p].at = made /\ row[b].at <= made
            BY <1>1, <1>2, <2>1 DEF NewestInv, SerialInv
        <3> QED BY <1>3, <3>1
    <2> QED BY <2>1
<1>7. row[p].at # 0 \/ \E e \in event : e.of = p
    BY <1>6, IngestLogs DEF Tells
<1>8. CASE ~Owed(b)
    <2>1. Changed(a, b)
        BY <1>5, <1>7, <1>8, CompleteIs
    <2> QED BY <2>1, IngestLogs DEF Changed
<1>9. CASE Owed(b)
    <2>1. b = ingest.of /\ ~Seeds
        BY <1>1, <1>9 DEF Owed, Seeds
    <2>2. Usable(r) /\ Same(r.id, r.no)
        BY <1>2, <2>1
    <2>3. IsPrevious(r.id, b)
        BY <1>1, <1>2, <2>1, <2>2 DEF BaseInv
    <2>4. r.cfg = row[r.id].cfg /\ ingest.new = row[ingest.of].cfg
        BY <1>1, <1>2, <2>2 DEF IngestInv, Kinds
    <2>5. event' = event \cup Logged(DiffToAnchorEvents(DiffConfigs(r.cfg, ingest.new), ingest.new), ingest.of, r.id)
        BY <2>2 DEF IngestCommit
    <2> HIDE DEF r
    <2>6. p = r.id
        BY <2>3, PreviousUnique
    <2>7. r.cfg \in Configs /\ ingest.new \in Configs /\ Held(r.cfg, a) # Held(ingest.new, a)
        BY <2>1, <2>4, <2>6, RowFields
    <2> QED BY <2>1, <2>5, <2>7, LoggedChange
<1> QED BY <1>8, <1>9

\* Nor does the rebuild.
LEMMA CompleteRebuild ==
    ASSUME RowTypes, SerialInv, Rebuilds, ~gap', NEW b \in Alive, NEW p \in Alive, IsPrevious(p, b),
           NEW a \in PlainAnchors, Held(row[p].cfg, a) # Held(row[b].cfg, a)
    PROVE  \E e \in event' : e.of = b /\ e.anchor = a /\ e.kind # "reordered"
<1>1. Walked = Alive /\ event' = UNION {Rebuilt(q) : q \in Walked}
    BY DEF Rebuilds
<1>2. p \in Walked \cap Earlier(b)
    BY <1>1 DEF IsPrevious, Earlier
<1>3. /\ Before(b) # None /\ Before(b) \in Alive /\ Before(b) \in Earlier(b)
      /\ \A q \in Walked \cap Earlier(b) : row[q].at <= row[Before(b)].at
    BY <1>1, <1>2, RebuiltIs
<1>4. IsPrevious(Before(b), b)
    BY <1>1, <1>3 DEF IsPrevious, Earlier
<1>5. Before(b) = p
    BY <1>4, PreviousUnique
<1>6. Rebuilt(b) = Logged(DiffToAnchorEvents(DiffConfigs(row[p].cfg, row[b].cfg), row[b].cfg), b, p)
    BY <1>3, <1>5 DEF Rebuilt
<1>7. row[p].cfg \in Configs /\ row[b].cfg \in Configs
    BY RowFields
<1>8. \E e \in Rebuilt(b) : e.of = b /\ e.anchor = a /\ e.kind # "reordered"
    BY <1>6, <1>7, LoggedChange
<1> QED BY <1>1, <1>8

\* A deletion between two backups is a gap; any other hides nothing.
LEMMA CompleteDelete ==
    ASSUME RowTypes, EventTypes, CompleteInv, NEW x \in Ids, Delete(x), ~gap',
           NEW b \in Alive \ {x}, NEW p \in Alive \ {x}, ~Owed(b),
           row[p].at < row[b].at, \A q \in Alive \ {x} : row[q].at < row[b].at => row[q].at <= row[p].at,
           row[p].at # 0 \/ \E e \in event' : e.of = p,
           NEW a \in PlainAnchors, Held(row[p].cfg, a) # Held(row[b].cfg, a)
    PROVE  \E e \in event' : e.of = b /\ e.anchor = a /\ e.kind # "reordered"
<1>1. x \in Alive /\ event' = Cascaded(x)
    BY DEF Delete
<1>2. gap' <=> gap \/ (Earlier(x) # {} /\ \E q \in Alive : x \in Earlier(q))
    BY DEF Delete
<1>3. IsPrevious(p, b)
    <2>1. ASSUME row[x].at < row[b].at PROVE row[x].at <= row[p].at
        <3>1. x \in Earlier(b)
            BY <1>1, <2>1 DEF Earlier
        <3>2. p \notin Earlier(x)
            BY <1>2, <3>1
        <3>3. ~(row[p].at < row[x].at)
            BY <3>2 DEF Earlier
        <3>4. row[p].at \in Nat /\ row[x].at \in Nat
            BY <1>1, RowFields
        <3> QED BY <3>3, <3>4
    <2> QED BY <2>1 DEF IsPrevious
<1>4. /\ \A e \in event' : \E f \in event : e.of = f.of
      /\ \A f \in event : f.of # x => \E e \in event' : e.of = f.of /\ e.anchor = f.anchor /\ e.kind = f.kind
    BY <1>1, CascadedIs DEF EventTypes
<1>5. Changed(a, b)
    BY <1>2, <1>3, <1>4, CompleteIs
<1> QED BY <1>4, <1>5 DEF Changed

\* A change that the worker owed the log and owes no more, was logged by its commit
\* or is a gap: what else ends it is a backup before which there was none.
LEMMA OwedBefore ==
    ASSUME RowTypes, CountTypes, StepTypes, Next, ~IngestCommit, ~gap', NEW b \in Alive, NEW p, IsPrevious(p, b),
           \/ ingest' = None \/ ingest'.of # b
           \/ ingest'.at = "write" /\ ingest'.base["previous"] = None /\ ingest'.base["first"] = None
    PROVE  ~Owed(b)
<1> SUFFICES ASSUME Owed(b) PROVE FALSE
    OBVIOUS
<1>1. ingest # None /\ ingest.of = b
    BY DEF Owed
<1>2. CASE ingest' = ingest
    BY <1>2 DEF Owed
<1>3. ASSUME NEW c \in Configs, Backup(c) PROVE FALSE
    BY <1>1, <1>3 DEF Backup
<1>4. CASE IngestFail
    BY <1>4 DEF IngestFail
<1>5. CASE IngestRead
    <2>1. ReadOn(b)
        BY <1>1, <1>5, IngestReadCases
    <2>2. ingest \in Ingest
        BY <1>1, PendingFields
    <2>3. ingest' \in Ingest /\ ingest'.of = b /\ ingest'.base["previous"] = Read(Base(b, "previous"))
        BY <2>1, <2>2, ReadOnFields DEF Kinds
    <2>4. Read(Base(b, "previous")) = None
        BY <2>3, HistoryAssumption
    <2>5. Base(b, "previous") \notin Alive
        BY <2>4, ReadIs, HistoryAssumption
    <2>6. Earlier(b) = {}
        BY <2>5, BaseIs DEF Kinds
    <2> QED BY <2>6 DEF IsPrevious, Earlier
<1> QED BY <1>2, <1>3, <1>4, <1>5, IngestCases

\* A backup that was just made is owed its changes.
LEMMA NewIsOwed ==
    ASSUME CountTypes, NEW c \in Configs, Backup(c)
    PROVE  /\ ingest' # None /\ ingest'.of = 1 + Max({0} \cup Alive) /\ ingest'.at = "read"
<1> DEFINE b == 1 + Max({0} \cup Alive)
<1>1. b \in Ids /\ ingest' = [of |-> b, no |-> made + faults + 1, at |-> "read", new |-> None, base |-> <<>>]
    BY DEF Backup
<1>2. made + faults + 1 \in Nat
    BY HistoryAssumption DEF CountTypes
<1> HIDE DEF b
<1>3. ingest' \in Ingest /\ ingest'.of = b /\ ingest'.at = "read"
    BY <1>1, <1>2 DEF Ingest
<1>4. ingest' # None
    BY <1>3, HistoryAssumption
<1> QED BY <1>3, <1>4 DEF b

\* A backup that comes in is before no other, as far as the log has to tell, and no
\* other is before it.
LEMMA NewApart ==
    ASSUME RowTypes, CountTypes, StepTypes, EventTypes, SerialInv, Next, event' = event,
           NEW b \in Alive', NEW p \in Alive', row'[p].at < row'[b].at,
           row'[p].at # 0 \/ \E e \in event' : e.of = p,
           \/ ingest' = None \/ ingest'.of # b
           \/ ingest'.at = "write" /\ ingest'.base["previous"] = None /\ ingest'.base["first"] = None
    PROVE  b \in Alive /\ p \in Alive
<1>0. made \in Nat
    BY HistoryAssumption DEF CountTypes
<1>1. Kept /\ RowTypes'
    BY RowStep
<1>2. row'[p].at \in Nat /\ row'[b].at \in Nat
    <2>1. \A q \in Alive : row[q].at \in Nat
        BY RowFields
    <2>2. \A q \in Alive' : q \in Alive \/ row'[q].at = 0 \/ row'[q].at = made + 1
        BY NewTimes
    <2>3. \A q \in Alive' : q \in Alive => row'[q].at = row[q].at
        BY <1>1 DEF Kept
    <2> QED BY <1>0, <2>1, <2>2, <2>3
<1>3. ASSUME NEW c \in Configs, Backup(c) PROVE b \in Alive /\ p \in Alive
    <2> DEFINE n == 1 + Max({0} \cup Alive)
    <2>1. ingest' # None /\ ingest'.of = n /\ ingest'.at = "read"
        BY <1>3, NewIsOwed
    <2>2. Inserts(n, made + 1, c) /\ made + 1 \in 0..MaxBackups /\ made + faults + 1 <= MaxBackups + MaxFaults
        BY <1>3, Insertions
    <2> HIDE DEF n
    <2>3. Alive' = Alive \cup {n} /\ row'[n].at = made + 1 /\ \A q \in Alive : row'[q] = row[q]
        BY <2>2, Inserted
    <2>4. b # n
        BY <2>1
    <2>5. b \in Alive /\ row'[b].at <= made
        BY <2>3, <2>4 DEF SerialInv
    <2>6. p # n
        BY <1>0, <1>2, <2>3, <2>5
    <2> QED BY <2>3, <2>5, <2>6
<1>4. ASSUME NEW c \in Configs, Import(c) PROVE b \in Alive /\ p \in Alive
    <2> DEFINE n == 1 + Max({0} \cup Alive)
    <2>2. Inserts(n, 0, c) /\ 0 \in 0..MaxBackups /\ made + faults + 1 <= MaxBackups + MaxFaults
        BY <1>4, Insertions
    <2> HIDE DEF n
    <2>3. Alive' = Alive \cup {n} /\ n \notin Alive /\ row'[n].at = 0
        BY <2>2, Inserted DEF Inserts
    <2>4. b # n
        BY <1>2, <2>3
    <2>5. p # n
        BY <2>3 DEF EventTypes
    <2> QED BY <2>3, <2>4, <2>5
<1>5. ASSUME NEW x \in Ids, Delete(x) PROVE b \in Alive /\ p \in Alive
    BY <1>5, Removed DEF Delete
<1>6. ASSUME NEW x \in Ids, LoseFile(x) PROVE b \in Alive /\ p \in Alive
    BY <1>6, FileLost DEF LoseFile
<1>7. CASE row' = row
    BY <1>7 DEF Alive
<1> QED BY <1>3, <1>4, <1>5, <1>6, <1>7, RowCases

\* Every change from one backup to the next stays told.
LEMMA CompleteStep ==
    ASSUME RowTypes, CountTypes, StepTypes, EventTypes, SerialInv, IngestInv, BaseInv, NewestInv, CompleteInv, Next
    PROVE  CompleteInv'
<1> SUFFICES ASSUME ~gap', NEW b \in Alive', NEW p \in Alive', row'[p].at < row'[b].at,
                    \A q \in Alive' : row'[q].at < row'[b].at => row'[q].at <= row'[p].at,
                    \/ ingest' = None \/ ingest'.of # b
                    \/ ingest'.at = "write" /\ ingest'.base["previous"] = None /\ ingest'.base["first"] = None,
                    row'[p].at # 0 \/ \E e \in event' : e.of = p,
                    NEW a \in PlainAnchors, NEW c, NEW d, c = row'[p].cfg, d = row'[b].cfg, Held(c, a) # Held(d, a)
             PROVE  \E e \in event' : e.of = b /\ e.anchor = a /\ e.kind # "reordered"
    BY DEF CompleteInv, IsPrevious, Owed
<1>1. Kept
    BY RowStep
<1>2. CASE IngestCommit
    <2>1. row' = row
        BY <1>2 DEF IngestCommit
    <2>2. Alive' = Alive
        BY <2>1 DEF Alive
    <2>3. IsPrevious(p, b)
        BY <2>1, <2>2 DEF IsPrevious
    <2> QED BY <1>2, <2>1, <2>2, <2>3, CompleteCommit
<1>3. CASE Rebuilds
    <2>1. row' = row
        BY <1>3 DEF Rebuilds
    <2>2. Alive' = Alive
        BY <2>1 DEF Alive
    <2>3. IsPrevious(p, b)
        BY <2>1, <2>2 DEF IsPrevious
    <2> QED BY <1>3, <2>1, <2>2, <2>3, CompleteRebuild
<1>4. ASSUME NEW x \in Ids, Delete(x) PROVE \E e \in event' : e.of = b /\ e.anchor = a /\ e.kind # "reordered"
    <2>1. x \in Alive /\ row' = [row EXCEPT ![x] = None] /\ ingest' = ingest
        BY <1>4 DEF Delete
    <2>2. Alive' = Alive \ {x} /\ \A q \in Alive \ {x} : row'[q] = row[q]
        BY <2>1, Removed
    <2>3. ~Owed(b)
        BY <2>1 DEF Owed
    <2> QED BY <1>4, <2>2, <2>3, CompleteDelete
<1>5. CASE ~IngestCommit /\ event' = event /\ (gap => gap') /\ Alive \subseteq Alive'
    <2>1. b \in Alive /\ p \in Alive
        BY <1>5, NewApart
    <2>2. \A q \in Alive : q \in Alive' /\ row'[q].at = row[q].at /\ row'[q].cfg = row[q].cfg
        BY <1>1, <1>5 DEF Kept
    <2>3. IsPrevious(p, b)
        BY <2>1, <2>2 DEF IsPrevious
    <2>4. ~Owed(b)
        BY <1>5, <2>1, <2>3, OwedBefore
    <2>5. row[p].at # 0 \/ \E e \in event : e.of = p
        BY <1>5, <2>1, <2>2
    <2>6. Held(row[p].cfg, a) # Held(row[b].cfg, a)
        BY <2>1, <2>2
    <2>7. Changed(a, b)
        BY <1>5, <2>1, <2>3, <2>4, <2>5, <2>6, CompleteIs
    <2> QED BY <1>5, <2>7 DEF Changed
<1> QED BY <1>2, <1>3, <1>4, <1>5, EventCases
-----------------------------------------------------------------------------
(* The invariant.                                                          *)

\* It holds in the beginning.
LEMMA InitInv == Init => Inv
<1> SUFFICES ASSUME Init PROVE Inv
    OBVIOUS
<1>0. MaxBackups \in Nat /\ MaxFaults \in Nat /\ MaxViews \in Nat
    BY HistoryAssumption
<1>1. row = [b \in Ids |-> None] /\ event = {} /\ ingest = None /\ view = None
    BY DEF Init
<1>2. Alive = {}
    BY <1>1 DEF Alive
<1>3. diff = [p \in Ids \X Kinds |-> None]
    BY DEF Init
<1>4. RowTypes /\ DiffTypes
    BY <1>1, <1>3 DEF RowTypes, DiffTypes
<1>5. EventTypes
    BY <1>1 DEF EventTypes
<1>6. StepTypes
    BY <1>1 DEF StepTypes, Init
<1>7. CountTypes
    <2>1. indexed \in BOOLEAN /\ gap \in BOOLEAN
        BY Zenon DEF Init
    <2>2. made \in 0..MaxBackups /\ faults \in 0..MaxFaults /\ views \in 0..MaxViews
        BY <1>0 DEF Init
    <2> QED BY <2>1, <2>2 DEF CountTypes
<1>8. SerialInv /\ CachedDiffTrue /\ CompleteInv
    BY <1>1, <1>2 DEF SerialInv, CachedDiffTrue, CompleteInv
<1>9. IngestInv /\ ViewInv /\ BaseInv /\ NewestInv /\ ToldInv
    BY <1>1 DEF IngestInv, ViewInv, BaseInv, NewestInv, ToldInv
<1> QED BY <1>4, <1>5, <1>6, <1>7, <1>8, <1>9 DEF Inv, Types

\* Every step keeps it.
LEMMA StepInv == Inv /\ [Next]_vars => Inv'
<1> SUFFICES ASSUME Inv, [Next]_vars PROVE Inv'
    OBVIOUS
<1>0. /\ RowTypes /\ DiffTypes /\ EventTypes /\ StepTypes /\ CountTypes
      /\ SerialInv /\ IngestInv /\ ViewInv /\ BaseInv /\ NewestInv /\ ToldInv /\ CompleteInv /\ CachedDiffTrue
    BY DEF Inv, Types
<1>1. CASE Next
    <2>1. RowTypes' /\ CountTypes'
        BY <1>0, <1>1, RowStep, CountsTyped
    <2>2. StepTypes' /\ DiffTypes' /\ CachedDiffTrue'
        BY <1>0, <1>1, StepsTyped, DiffStep
    <2>3. EventTypes' /\ ToldInv' /\ CompleteInv'
        BY <1>0, <1>1, EventsTyped, ToldStep, CompleteStep
    <2>4. SerialInv' /\ NewestInv'
        BY <1>0, <1>1, SerialStep, NewestStep
    <2>5. IngestInv' /\ ViewInv' /\ BaseInv'
        BY <1>0, <1>1, IngestStep, ViewStep, BaseStep
    <2> QED BY <2>1, <2>2, <2>3, <2>4, <2>5 DEF Inv, Types
<1>2. CASE UNCHANGED vars
    <2>1. /\ row' = row /\ diff' = diff /\ event' = event /\ indexed' = indexed /\ ingest' = ingest
          /\ view' = view /\ rebuild' = rebuild /\ made' = made /\ gap' = gap /\ faults' = faults /\ views' = views
        BY <1>2 DEF vars
    <2>2. Alive' = Alive
        BY <2>1 DEF Alive
    <2>3. RowTypes' /\ DiffTypes' /\ EventTypes'
        BY <1>0, <2>1, <2>2 DEF RowTypes, DiffTypes, EventTypes
    <2>4. StepTypes' /\ CountTypes'
        BY <1>0, <2>1 DEF StepTypes, CountTypes
    <2>5. SerialInv' /\ CachedDiffTrue'
        BY <1>0, <2>1, <2>2 DEF SerialInv, CachedDiffTrue
    <2>6. IngestInv' /\ ViewInv'
        BY <1>0, <2>1, <2>2 DEF IngestInv, ViewInv, Same
    <2>7. BaseInv' /\ NewestInv'
        BY <1>0, <2>1, <2>2 DEF BaseInv, NewestInv, Same, IsPrevious
    <2>8. ToldInv'
        BY <1>0, <2>1, <2>2 DEF ToldInv, Same
    <2>9. CompleteInv'
        BY <1>0, <2>1, <2>2 DEF CompleteInv, IsPrevious, Owed
    <2> QED BY <2>3, <2>4, <2>5, <2>6, <2>7, <2>8, <2>9 DEF Inv, Types
<1> QED BY <1>1, <1>2

\* It is invariant.
LEMMA Invariance == Spec => []Inv
BY InitInv, StepInv, PTL DEF Spec
-----------------------------------------------------------------------------
(* Reading the log.                                                        *)

\* Foremost picks an entry of the kind that says most.
LEMMA ForemostIs ==
    ASSUME NEW T, T \subseteq Entries, T # {}
    PROVE  Foremost(T) \in T /\ \A f \in T : Priority[Foremost(T).kind] <= Priority[f.kind]
<1> DEFINE N == {Priority[f.kind] : f \in T}
<1>1. \A f \in T : f.kind \in EventKinds
    BY DEF Entries
<1>2. \A k \in EventKinds : Priority[k] \in Nat
    BY DEF EventKinds, Priority
<1>3. N \subseteq Nat /\ N # {}
    BY <1>1, <1>2
<1>4. PICK n \in N : \A m \in N : n <= m
    BY <1>3, LeastElement
<1>5. PICK e \in T : n = Priority[e.kind]
    BY <1>4
<1>6. \A f \in T : Priority[e.kind] <= Priority[f.kind]
    BY <1>4, <1>5
<1> QED BY <1>6 DEF Foremost

\* One entry for each backup is kept, none of a kind that says less.
LEMMA DedupedIs ==
    ASSUME NEW S, S \subseteq Entries
    PROVE  /\ Deduped(S) \subseteq S
           /\ \A f \in S : \E e \in Deduped(S) : e.of = f.of /\ Priority[e.kind] <= Priority[f.kind]
<1> DEFINE T(b) == {f \in S : f.of = b}
<1>1. ASSUME NEW f \in S
      PROVE  /\ Foremost(T(f.of)) \in S /\ Foremost(T(f.of)).of = f.of
             /\ Priority[Foremost(T(f.of)).kind] <= Priority[f.kind]
    <2>1. f \in T(f.of) /\ T(f.of) \subseteq Entries /\ \A e \in T(f.of) : e \in S /\ e.of = f.of
        OBVIOUS
    <2> HIDE DEF T
    <2> QED BY <2>1, ForemostIs
<1>2. Deduped(S) = {Foremost(T(b)) : b \in {e.of : e \in S}}
    BY DEF Deduped
<1> HIDE DEF T
<1> QED BY <1>1, <1>2

\* The newest of some entries.
LEMMA NewestIs ==
    ASSUME RowTypes, EventTypes, NEW S, S \subseteq event, S # {}
    PROVE  LET n == CHOOSE e \in S : \A f \in S : row[f.of].at <= row[e.of].at
           IN  n \in S /\ \A f \in S : row[f.of].at <= row[n.of].at
<1> DEFINE T == {row[e.of].at : e \in S}
<1>0. \A e \in S : e.of \in Alive
    BY DEF EventTypes
<1>1. MaxBackups \in Nat /\ T \subseteq 0..MaxBackups /\ T # {}
    BY <1>0, RowFields, HistoryAssumption
<1>2. PICK t \in T : \A u \in T : u <= t
    BY <1>1, GreatestElement
<1>3. PICK e \in S : t = row[e.of].at
    BY <1>2
<1>4. \A f \in S : row[f.of].at <= row[e.of].at
    BY <1>2, <1>3
<1> QED BY <1>4

\* An anchor keeps its value from one backup to another if no entry between them says
\* otherwise.
LEMMA StaysSame ==
    ASSUME Inv, Settled, NEW a \in PlainAnchors, NEW q \in Alive, NEW b \in Alive,
           row[q].at # 0 \/ \E e \in event : e.of = q,
           row[q].at <= row[b].at,
           \A f \in event : f.anchor = a /\ row[f.of].at <= row[b].at => row[f.of].at <= row[q].at
    PROVE  Held(row[b].cfg, a) = Held(row[q].cfg, a)
<1> DEFINE Bad == {c \in Alive : /\ row[q].at <= row[c].at /\ row[c].at <= row[b].at
                                 /\ Held(row[c].cfg, a) # Held(row[q].cfg, a)}
           T == {row[c].at : c \in Bad}
<1>0. RowTypes /\ SerialInv /\ CompleteInv /\ ~gap /\ ingest = None
    BY DEF Inv, Types, Settled
<1>1. \A c \in Alive : row[c].at \in Nat
    BY <1>0, RowFields
<1>2. ASSUME Bad # {} PROVE FALSE
    <2>1. T \subseteq Nat /\ T # {}
        BY <1>1, <1>2
    <2>2. PICK t \in T : \A u \in T : t <= u
        BY <2>1, LeastElement
    <2>3. PICK c \in Bad : t = row[c].at
        BY <2>2
    <2>4. \A d \in Bad : row[c].at <= row[d].at
        BY <2>2, <2>3
    <2>5. /\ c \in Alive /\ row[q].at <= row[c].at /\ row[c].at <= row[b].at
          /\ Held(row[c].cfg, a) # Held(row[q].cfg, a)
        OBVIOUS
    <2> HIDE DEF T
    <2>6. row[q].at # row[c].at
        BY <1>0, <2>5 DEF SerialInv
    <2>7. q \in Earlier(c)
        BY <1>1, <2>5, <2>6 DEF Earlier
    <2> DEFINE p == Latest(Earlier(c))
    <2>8. p \in Earlier(c) /\ \A r \in Earlier(c) : row[r].at <= row[p].at
        BY <1>0, <2>7, LatestIs DEF Earlier
    <2> HIDE DEF p
    <2>9. p \in Alive /\ row[p].at < row[c].at /\ row[q].at <= row[p].at /\ IsPrevious(p, c)
        BY <2>7, <2>8 DEF Earlier, IsPrevious
    <2>10. Held(row[p].cfg, a) = Held(row[q].cfg, a)
        <3>1. row[p].at <= row[b].at /\ ~(row[c].at <= row[p].at)
            BY <1>1, <2>5, <2>9
        <3> QED BY <2>4, <2>9, <3>1
    <2>11. row[p].at # 0 \/ \E e \in event : e.of = p
        <3>1. CASE p = q
            BY <3>1
        <3>2. CASE p # q
            <4>1. row[p].at # row[q].at
                BY <1>0, <2>9, <3>2 DEF SerialInv
            <4> QED BY <1>1, <2>9, <4>1
        <3> QED BY <3>1, <3>2
    <2>12. ~Owed(c)
        BY <1>0 DEF Owed
    <2>13. Changed(a, c)
        <3> HIDE DEF Bad
        <3> QED BY <1>0, <2>5, <2>9, <2>10, <2>11, <2>12, CompleteIs
    <2>14. PICK e \in event : e.of = c /\ e.anchor = a
        BY <2>13 DEF Changed
    <2>15. row[c].at <= row[q].at
        BY <2>5, <2>14
    <2> QED BY <1>1, <2>5, <2>6, <2>15
<1>3. row[b].at <= row[b].at
    BY <1>1
<1> QED BY <1>2, <1>3

\* An entry after which an anchor has none up to backup b describes what b holds.
LEMMA LastDescribes ==
    ASSUME Inv, Settled, NEW e \in event, e.anchor \in PlainAnchors, NEW b \in Alive, row[e.of].at <= row[b].at,
           \A f \in event : f.anchor = e.anchor /\ row[f.of].at <= row[b].at => row[f.of].at <= row[e.of].at,
           \A q \in Alive : Sole(row[q].cfg, e.anchor)
    PROVE  Describes(e, row[b].cfg)
<1>1. e.of \in Alive /\ ~gap /\ RowTypes
    BY DEF Inv, Types, EventTypes, Settled
<1>2. Accords(e, row[e.of].cfg)
    BY <1>1 DEF Inv, ToldInv
<1>3. Held(row[b].cfg, e.anchor) = Held(row[e.of].cfg, e.anchor)
    BY <1>1, StaysSame
<1>4. Held(row[b].cfg, e.anchor) = IF e.kind = "removed" THEN None ELSE e.val
    BY <1>1, <1>2, <1>3 DEF Accords
<1>5. Resolve(row[b].cfg, e.anchor) = Shown(e.anchor, Held(row[b].cfg, e.anchor))
    <2>1. IsConfig(row[b].cfg)
        BY <1>1, RowFields, HistoryAssumption
    <2> QED BY <2>1, HeldShown
<1>6. Shown(e.anchor, None) = None
    BY DEF Shown, Stringify
<1> QED BY <1>4, <1>5, <1>6 DEF Describes

\* What the walk calls a change is told by the log, unless it is one from an import.
LEMMA ChangeTold ==
    ASSUME Inv, Settled, NEW a \in PlainAnchors, NEW b \in Alive, NEW p \in Earlier(b), row[p].at # 0,
           \A r \in Alive : Sole(row[r].cfg, a),
           Resolve(row[Latest(Earlier(b))].cfg, a) # Resolve(row[b].cfg, a)
    PROVE  Changed(a, b)
<1> DEFINE q == Latest(Earlier(b))
<1>0. RowTypes /\ CompleteInv /\ ~gap /\ ingest = None
    BY DEF Inv, Types, Settled
<1>1. q \in Earlier(b) /\ \A r \in Earlier(b) : row[r].at <= row[q].at
    BY <1>0, LatestIs DEF Earlier
<1> HIDE DEF q
<1>2. q \in Alive /\ IsPrevious(q, b) /\ p \in Alive /\ row[p].at <= row[q].at
    BY <1>1 DEF Earlier, IsPrevious
<1>3. row[q].at # 0
    <2>1. row[q].at \in Nat /\ row[p].at \in Nat
        BY <1>0, <1>2, RowFields
    <2> QED BY <1>2, <2>1
<1>4. ~Owed(b)
    BY <1>0 DEF Owed
<1>5. Held(row[q].cfg, a) # Held(row[b].cfg, a)
    <2>1. IsConfig(row[q].cfg) /\ IsConfig(row[b].cfg)
        BY <1>0, <1>2, RowFields, HistoryAssumption
    <2>2. /\ Resolve(row[q].cfg, a) = Shown(a, Held(row[q].cfg, a))
          /\ Resolve(row[b].cfg, a) = Shown(a, Held(row[b].cfg, a))
        BY <1>2, <2>1, HeldShown
    <2> QED BY <2>2 DEF q
<1> QED BY <1>0, <1>2, <1>3, <1>4, <1>5, CompleteIs

\* When the walk over the files calls a backup a change.
LEMMA WalkIs ==
    ASSUME NEW a, NEW b \in Alive, NEW p \in Earlier(b), WalkHistory(a)[b].isChange
    PROVE  Resolve(row[Latest(Earlier(b))].cfg, a) # Resolve(row[b].cfg, a)
<1> DEFINE ch(q) == Earlier(q) = {} \/ Resolve(row[Latest(Earlier(q))].cfg, a) # Resolve(row[q].cfg, a)
<1>1. WalkHistory(a) = [q \in Alive |-> [value |-> Resolve(row[q].cfg, a), isChange |-> ch(q)]]
    BY DEF WalkHistory
<1>2. WalkHistory(a)[b] = [value |-> Resolve(row[b].cfg, a), isChange |-> ch(b)]
    <2> HIDE DEF ch
    <2> QED BY <1>1
<1>3. ch(b)
    <2> HIDE DEF ch
    <2> QED BY <1>2
<1> QED BY <1>3

\* The newest entry up to a backup describes what the backup holds.
LEMMA BlameIs == Inv => BlameDescribes
<1> SUFFICES ASSUME Inv, Settled, NEW b \in Alive, NEW a \in Anchors, Followed(a), BlameCandidates(a, b) # {}
             PROVE  Describes(Blame(a, b), row[b].cfg)
    BY DEF BlameDescribes
<1> DEFINE C == BlameCandidates(a, b)
           S == Deduped(C)
           n == CHOOSE e \in S : \A f \in S : row[f.of].at <= row[e.of].at
<1>0. RowTypes /\ EventTypes /\ event \subseteq Entries
    BY DEF Inv, Types, EventTypes
<1>1. C \subseteq event /\ \A f \in event : f \in C <=> f.anchor = a /\ row[f.of].at <= row[b].at
    BY DEF BlameCandidates
<1>2. a \in AllAnchors
    BY <1>0 DEF Anchors, Entries
<1>3. a \in PlainAnchors /\ \A r \in Alive : Sole(row[r].cfg, a)
    BY <1>2, PlainIsLogged DEF Followed
<1>4. Blame(a, b) = n
    BY DEF Blame
<1>5. C # {}
    OBVIOUS
<1> HIDE DEF C
<1>6. S \subseteq C /\ \A f \in C : \E e \in S : e.of = f.of
    BY <1>0, <1>1, DedupedIs
<1> HIDE DEF S
<1>7. S \subseteq event /\ S # {}
    BY <1>1, <1>5, <1>6
<1>8. n \in S /\ \A f \in S : row[f.of].at <= row[n.of].at
    BY <1>0, <1>7, NewestIs
<1> HIDE DEF n
<1>9. n \in event /\ n.anchor = a /\ row[n.of].at <= row[b].at
    BY <1>1, <1>6, <1>8
<1>10. \A f \in event : f.anchor = n.anchor /\ row[f.of].at <= row[b].at => row[f.of].at <= row[n.of].at
    BY <1>1, <1>6, <1>8, <1>9
<1> QED BY <1>3, <1>4, <1>9, <1>10, LastDescribes

\* The timeline of the log has every change of the walk.
LEMMA WalkIndexed == Inv => WalkChangesIndexed
<1> SUFFICES ASSUME Inv, Settled, NEW q \in Alive, NEW x \in EnumerateAnchors(row[q].cfg), NEW b \in Alive,
                    Followed(x[1]), NEW p \in Earlier(b), row[p].at # 0, WalkHistory(x[1])[b].isChange
             PROVE  \E e \in IndexedHistory(x[1]) : e.of = b /\ e.kind # "reordered"
    BY DEF WalkChangesIndexed
<1> DEFINE a == x[1]
           S == {e \in event : e.anchor = a}
<1>0. RowTypes /\ event \subseteq Entries
    BY DEF Inv, Types, EventTypes
<1>1. IsConfig(row[q].cfg)
    BY <1>0, RowFields, HistoryAssumption
<1>2. a \in AllAnchors
    BY <1>1, RoundTrip
<1>3. a \in PlainAnchors /\ \A r \in Alive : Sole(row[r].cfg, a)
    BY <1>2, PlainIsLogged DEF Followed
<1>4. Resolve(row[Latest(Earlier(b))].cfg, a) # Resolve(row[b].cfg, a)
    BY WalkIs
<1>5. IndexedHistory(a) = Deduped(S)
    BY DEF IndexedHistory
<1> HIDE DEF a
<1>6. Changed(a, b)
    BY <1>3, <1>4, ChangeTold
<1>7. PICK f \in S : f.of = b /\ f.kind # "reordered"
    BY <1>6 DEF Changed
<1>8. S \subseteq Entries
    BY <1>0
<1> HIDE DEF S
<1>9. PICK e \in Deduped(S) : e.of = f.of /\ Priority[e.kind] <= Priority[f.kind]
    BY <1>8, DedupedIs
<1>10. e.kind # "reordered"
    <2>1. f.kind \in EventKinds
        BY <1>7, <1>8 DEF Entries
    <2>2. Priority[f.kind] < Priority["reordered"] /\ Priority[f.kind] \in Nat /\ Priority["reordered"] \in Nat
        BY <1>7, <2>1 DEF Priority, EventKinds
    <2> QED BY <1>9, <2>2
<1> QED BY <1>5, <1>7, <1>9, <1>10 DEF a

\* The cumulative view ends at what the later backup holds and counts the changes.
LEMMA CumulativeIs == Inv => CumulativeSound
<1> SUFFICES ASSUME Inv, Settled, NEW a \in Anchors, Followed(a), NEW since \in Alive, NEW until \in Alive,
                    row[since].at <= row[until].at
             PROVE  LET changes == {b \in Alive : /\ row[since].at < row[b].at /\ row[b].at <= row[until].at
                                                  /\ \E p \in Earlier(b) : row[p].at # 0
                                                  /\ WalkHistory(a)[b].isChange}
                    IN  IF Windowed(a, since, until) = {} THEN changes = {}
                        ELSE /\ Describes(Cumulative(a, since, until).last, row[until].cfg)
                             /\ Cardinality(changes) <= Cumulative(a, since, until).count
    BY DEF CumulativeSound
<1> DEFINE W == {e \in event : e.anchor = a /\ InWindow(e, since, until)}
           S == Windowed(a, since, until)
           n == CHOOSE e \in S : \A f \in S : row[f.of].at <= row[e.of].at
           changes == {b \in Alive : /\ row[since].at < row[b].at /\ row[b].at <= row[until].at
                                     /\ \E p \in Earlier(b) : row[p].at # 0
                                     /\ WalkHistory(a)[b].isChange}
           backups == {e.of : e \in S}
<1>0. RowTypes /\ EventTypes /\ event \subseteq Entries /\ \A e \in event : e.of \in Alive
    BY DEF Inv, Types, EventTypes
<1>1. a \in PlainAnchors /\ \A r \in Alive : Sole(row[r].cfg, a)
    <2>1. a \in AllAnchors
        BY <1>0 DEF Anchors, Entries
    <2> QED BY <2>1, PlainIsLogged DEF Followed
<1>2. \A q \in Alive : row[q].at \in Nat
    BY <1>0, RowFields
<1>3. W \subseteq event /\ \A f \in event :
         f \in W <=> f.anchor = a /\ row[since].at <= row[f.of].at /\ row[f.of].at <= row[until].at
    BY <1>0, <1>2 DEF InWindow
<1>4. S = Deduped(W)
    BY DEF Windowed
<1>5. Cumulative(a, since, until).last = n /\ Cumulative(a, since, until).count = Cardinality(backups)
    BY DEF Cumulative
<1> HIDE DEF W
<1>6. S \subseteq W /\ \A f \in W : \E e \in S : e.of = f.of
    BY <1>0, <1>3, <1>4, DedupedIs
<1> HIDE DEF S
<1>7. ASSUME NEW b \in changes PROVE b \in backups
    <2>1. PICK p \in Earlier(b) : row[p].at # 0
        OBVIOUS
    <2>2. b \in Alive /\ row[since].at < row[b].at /\ row[b].at <= row[until].at /\ WalkHistory(a)[b].isChange
        OBVIOUS
    <2> HIDE DEF changes
    <2>3. Resolve(row[Latest(Earlier(b))].cfg, a) # Resolve(row[b].cfg, a)
        BY <2>1, <2>2, WalkIs
    <2>4. Changed(a, b)
        BY <1>1, <2>1, <2>2, <2>3, ChangeTold
    <2>5. PICK f \in event : f.of = b /\ f.anchor = a
        BY <2>4 DEF Changed
    <2>6. f \in W
        BY <1>2, <1>3, <2>2, <2>5
    <2> QED BY <1>6, <2>5, <2>6
<1> HIDE DEF changes
<1>8. CASE S = {}
    <2>1. changes = {}
        BY <1>7, <1>8
    <2> QED BY <1>8, <2>1 DEF changes, S
<1>9. CASE S # {}
    <2>1. S \subseteq event
        BY <1>3, <1>6
    <2>2. n \in S /\ \A f \in S : row[f.of].at <= row[n.of].at
        BY <1>0, <1>9, <2>1, NewestIs
    <2>3. IsFiniteSet(backups)
        <3>1. MaxId \in Nat
            BY HistoryAssumption
        <3>2. IsFiniteSet(Ids)
            BY <3>1, FS_Interval DEF Ids
        <3>3. backups \subseteq Ids
            BY <1>0, <2>1 DEF Alive
        <3> HIDE DEF backups
        <3> QED BY <3>2, <3>3, FS_Subset
    <2> HIDE DEF n
    <2>4. n \in event /\ n.anchor = a /\ row[since].at <= row[n.of].at /\ row[n.of].at <= row[until].at
        BY <1>3, <1>6, <2>2
    <2>5. ASSUME NEW f \in event, f.anchor = n.anchor, row[f.of].at <= row[until].at
          PROVE  row[f.of].at <= row[n.of].at
        <3>1. CASE row[since].at <= row[f.of].at
            <4>1. f \in W
                BY <1>3, <2>4, <2>5, <3>1
            <4> QED BY <1>6, <2>2, <4>1
        <3>2. CASE ~(row[since].at <= row[f.of].at)
            BY <1>0, <1>2, <2>4, <3>2
        <3> QED BY <3>1, <3>2
    <2>6. Describes(n, row[until].cfg)
        BY <1>1, <2>4, <2>5, LastDescribes
    <2>7. Cardinality(changes) <= Cardinality(backups)
        <3>1. changes \subseteq backups
            BY <1>7
        <3> HIDE DEF backups
        <3> QED BY <2>3, <3>1, FS_Subset
    <2> QED BY <1>5, <1>9, <2>6, <2>7 DEF changes, S
<1> QED BY <1>8, <1>9

\* The types of the invariant are those of the runs.
LEMMA TypesOK == Inv => TypeOK
<1> SUFFICES ASSUME Inv PROVE TypeOK
    OBVIOUS
<1>0. RowTypes /\ DiffTypes /\ EventTypes /\ StepTypes /\ CountTypes
    BY DEF Inv, Types
<1>1. \A b \in Ids : row[b] = None \/ row[b] \in Row
    BY <1>0 DEF RowTypes
<1>2. ASSUME NEW b \in Ids, NEW k \in Kinds, diff[<<b, k>>] # None
      PROVE  /\ b \in Alive /\ diff[<<b, k>>].base \in Ids \cup {None}
             /\ diff[<<b, k>>].raced \in BOOLEAN
    <2>1. diff[<<b, k>>] \in DiffRows
        BY <1>0, <1>2 DEF DiffTypes
    <2>2. diff[<<b, k>>].base \in Ids \cup {None} /\ diff[<<b, k>>].raced \in BOOLEAN
        BY <2>1 DEF DiffRows
    <2>3. b \in Alive
        BY <1>0, <1>2 DEF DiffTypes
    <2> QED BY <2>2, <2>3
<1>3. \A e \in event : e.of \in Alive /\ e.prev \in Alive \cup {None} /\ e.kind \in EventKinds
    BY <1>0 DEF EventTypes, Entries
<1>4. (ingest = None \/ ingest.of \in Ids) /\ (view = None \/ view.of \in Ids)
    BY <1>0, PendingFields
<1>5. rebuild.at \in {"idle", "listed", "locked"} /\ rebuild.list \subseteq Ids
    BY <1>0 DEF StepTypes
<1>6. indexed \in BOOLEAN /\ gap \in BOOLEAN
    BY <1>0 DEF CountTypes
<1>7. made \in 0..MaxBackups /\ faults \in 0..MaxFaults /\ views \in 0..MaxViews
    BY <1>0 DEF CountTypes
<1> QED BY <1>1, <1>2, <1>3, <1>4, <1>5, <1>6, <1>7 DEF TypeOK
-----------------------------------------------------------------------------
(* The theorems.                                                           *)

\* Diffs and events name backups that exist (the foreign keys of BackupDiff and
\* AnchorEvent), and every variable keeps its type.
THEOREM HistoryTyped == Spec => []TypeOK
BY Invariance, TypesOK, PTL

\* The blame of instance_anchor_blame_summary describes what the backup holds,
\* whatever was made, deleted, imported, lost or rebuilt, in any order, as long as
\* the log has no gap.
THEOREM BlameTrue == Spec => []BlameDescribes
BY Invariance, BlameIs, PTL

\* The indexed timeline of instance_anchor_history shows every change that the walk
\* over the files would.
THEOREM TimelineComplete == Spec => []WalkChangesIndexed
BY Invariance, WalkIndexed, PTL

\* instance_cumulative_changes ends at what the later backup holds and counts no
\* fewer backups than changed the anchor.
THEOREM CumulativeTrue == Spec => []CumulativeSound
BY Invariance, CumulativeIs, PTL

\* A cached diff is the diff of the two files, whoever computed it last and however
\* often ids were used again.
THEOREM CacheTrue == Spec => []CachedDiffTrue
<1>1. Inv => CachedDiffTrue
    BY DEF Inv
<1> QED BY Invariance, <1>1, PTL

\* diff_configs hides no change of any two configurations, except in rows that a later
\* row with the same key hides from it.
THEOREM NoChangeHidden == Spec => []DiffSeesAll
<1>1. DiffSeesAll
    BY EmptyIsSame, HistoryAssumption DEF DiffSeesAll
<1> QED BY <1>1, PTL

\* resolve_anchor_value finds every anchor that enumerate_anchors writes, with the text
\* of a value written under it, in any configuration.
THEOREM AnchorsResolve == Spec => []AnchorsRoundTrip
<1>1. AnchorsRoundTrip
    BY RoundTrip, HistoryAssumption DEF AnchorsRoundTrip, Resolves
<1> QED BY <1>1, PTL

=============================================================================
