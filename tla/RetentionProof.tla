--------------------------- MODULE RetentionProof ---------------------------
(***************************************************************************)
(* Proof that retention never loses the newest backup, that without a      *)
(* count cap every bucket a tier reaches stays covered, and that a count   *)
(* cap is met and used up: for every calendar, policy, bound and order of  *)
(* ties.                                                                   *)
(***************************************************************************)
EXTENDS Retention, TLAPS, WellFoundedInduction, FiniteSetTheorems

RInv == TypeOK /\ NewestSurvives /\ TiersCovered

\* A member that nothing precedes in a relation that contains < is the least.
LEMMA MinimalIsLeast ==
    ASSUME NEW R, NEW S, S \subseteq Nat,
           \E n \in S : \A m \in S : ~(<<m, n>> \in R),
           \A m, n \in Nat : m < n => <<m, n>> \in R
    PROVE  \E n \in S : \A m \in S : n <= m
<1>1. PICK n \in S : \A m \in S : ~(<<m, n>> \in R)
    OBVIOUS
<1>2. ASSUME NEW m \in S PROVE n <= m
    <2>1. ~(m < n)
        BY <1>1, Zenon
    <2> QED BY <2>1
<1> QED BY <1>2

\* A non-empty set of natural numbers has a least element.
LEMMA LeastElement ==
    ASSUME NEW S, S \subseteq Nat, S # {}
    PROVE  \E n \in S : \A m \in S : n <= m
<1> DEFINE R == OpToRel(<, Nat)
<1>1. \E n \in S : \A m \in S : ~(<<m, n>> \in R)
    BY WFMin, NatLessThanWellFounded
<1>2. \A m, n \in Nat : m < n => <<m, n>> \in R
    BY DEF OpToRel
<1> HIDE DEF R
<1> QED BY <1>1, <1>2, MinimalIsLeast, Zenon

\* The window of a tier is a natural number of ticks.
LEMMA UnitNat == ASSUME NEW k \in Tiers PROVE Unit(k) \in Nat
<1>1. Day \in Nat /\ WeekDays \in Nat /\ MonthDays \in Nat
    BY RetentionAssumption
<1>2. WeekDays * Day \in Nat /\ MonthDays * Day \in Nat
    BY <1>1
<1> QED BY <1>1, <1>2 DEF Unit

\* A newer backup is in every window an older one is in.
LEMMA NewerInWindow ==
    ASSUME NEW p \in Policies, NEW k \in Tiers, NEW b \in Backup, NEW c \in Backup, NEW t \in Nat,
           InWindow(p, k, b, t), b.ts <= c.ts
    PROVE  InWindow(p, k, c, t)
<1>1. p.tier[k] \in Nat
    BY RetentionAssumption DEF InWindow, Policy
<1>2. PICK w \in Nat : w = p.tier[k] * Unit(k)
    BY <1>1, UnitNat
<1>3. b.ts \in Nat /\ c.ts \in Nat
    BY DEF Backup
<1> QED BY <1>2, <1>3 DEF InWindow

\* As time passes a window only loses backups.
LEMMA WindowCloses ==
    ASSUME NEW p \in Policies, NEW k \in Tiers, NEW b \in Backup, NEW t \in Nat,
           InWindow(p, k, b, t + 1)
    PROVE  InWindow(p, k, b, t)
<1>1. p.tier[k] \in Nat
    BY RetentionAssumption DEF InWindow, Policy
<1>2. PICK w \in Nat : w = p.tier[k] * Unit(k)
    BY <1>1, UnitNat
<1>3. b.ts \in Nat
    BY DEF Backup
<1> QED BY <1>2, <1>3 DEF InWindow

\* The sorted list of a non-empty set starts with a newest member, and its
\* positions are natural numbers.
LEMMA HeadIsNewest ==
    ASSUME NEW B \in SUBSET Backup, IsFiniteSet(B), B # {}, NEW o \in Orderings(B)
    PROVE  /\ DOMAIN o \subseteq Nat
           /\ 1 \in DOMAIN o /\ o[1] \in B
           /\ \A b \in B : b.ts <= o[1].ts
<1>1. Cardinality(B) \in Nat /\ DOMAIN o = 1..Cardinality(B)
    BY FS_CardinalityType DEF Orderings
<1>2. PICK b \in B, n \in DOMAIN o : o[n] = b
    BY DEF Orderings
<1>3. 1 \in DOMAIN o
    BY <1>1, <1>2
<1>4. o[1] \in B
    BY <1>3, <1>1 DEF Orderings
<1>5. ASSUME NEW c \in B PROVE c.ts <= o[1].ts
    <2>1. PICK m \in DOMAIN o : o[m] = c
        BY DEF Orderings
    <2>2. CASE m = 1
        BY <2>1, <2>2, <1>4 DEF Backup
    <2>3. CASE m # 1
        BY <2>1, <2>3, <1>1, <1>3 DEF Orderings
    <2> QED BY <2>2, <2>3
<1> QED BY <1>1, <1>3, <1>4, <1>5

\* compute_keep_ids keeps the newest backup, whatever the policy.
LEMMA KeepsNewest ==
    ASSUME NEW o, NEW p \in Policies, NEW t \in Nat
    PROVE  1 \in KeepPositions(o, p, t)
BY DEF KeepPositions, KeepTiered

\* What is kept are members of the list.
LEMMA KeepsMembers ==
    ASSUME NEW B \in SUBSET Backup, IsFiniteSet(B), B # {}, NEW o \in Orderings(B),
           NEW p \in Policies, NEW t \in Nat
    PROVE  Keep(o, p, t) \subseteq B
<1>1. KeepPositions(o, p, t) \subseteq DOMAIN o
    BY HeadIsNewest DEF KeepPositions, KeepTiered, TierKeep, FirstOf
<1> QED BY <1>1 DEF Keep, Orderings

\* Without a cap, each backup in a tier's window has one of its bucket kept
\* that is at least as new: the first of the bucket in the sorted list.
LEMMA KeepsCover ==
    ASSUME NEW B \in SUBSET Backup, IsFiniteSet(B), B # {}, NEW o \in Orderings(B),
           NEW p \in Policies, p.cap = 0, NEW t \in Nat,
           NEW k \in Tiers, NEW b \in B, InWindow(p, k, b, t)
    PROVE  \E r \in Keep(o, p, t) : Bucket(k, r) = Bucket(k, b) /\ b.ts <= r.ts
<1>1. HasTiers(p)
    BY DEF HasTiers, InWindow
<1>2. KeepPositions(o, p, t) = TierKeep(o, p, t) \cup {1}
    BY <1>1 DEF KeepPositions, KeepTiered
<1>3. PICK n \in DOMAIN o : o[n] = b
    BY DEF Orderings
<1> DEFINE Hits == {m \in DOMAIN o : InWindow(p, k, o[m], t) /\ Bucket(k, o[m]) = Bucket(k, b)}
<1>4. n \in Hits /\ Hits \subseteq DOMAIN o /\ DOMAIN o \subseteq Nat
    BY <1>3, HeadIsNewest
<1> HIDE DEF Hits
<1>5. PICK m \in Hits : \A l \in Hits : m <= l
    BY <1>4, LeastElement
<1>6. m \in TierKeep(o, p, t)
    BY <1>4, <1>5 DEF TierKeep, Hits
<1>7. o[m] \in Keep(o, p, t)
    BY <1>2, <1>6 DEF Keep
<1>8. Bucket(k, o[m]) = Bucket(k, b)
    BY <1>5 DEF Hits
<1>9. b.ts <= o[m].ts
    <2>1. m <= n /\ m \in DOMAIN o /\ m \in Nat /\ n \in Nat
        BY <1>4, <1>5
    <2>2. CASE m = n
        BY <1>3, <2>2 DEF Backup
    <2>3. CASE m < n
        BY <1>3, <2>1, <2>3 DEF Orderings
    <2> QED BY <2>1, <2>2, <2>3
<1> QED BY <1>7, <1>8, <1>9

\* A non-empty bounded set of numbers has a greatest element: the least of the
\* numbers that none of its members exceeds.
LEMMA GreatestElement ==
    ASSUME NEW N \in Nat, NEW S \in SUBSET (0..N), S # {}
    PROVE  \E u \in S : \A m \in S : m <= u
<1> DEFINE Above == {u \in Nat : \A m \in S : m <= u}
<1>1. N \in Above
    OBVIOUS
<1> SUFFICES ASSUME NEW u \in Above, \A v \in Above : u <= v
             PROVE  u \in S
    BY <1>1, LeastElement
<1>2. u \in Nat /\ \A m \in S : m <= u
    OBVIOUS
<1>3. SUFFICES ASSUME u \notin S PROVE FALSE
    OBVIOUS
<1>6. \A m \in S : m \in Nat /\ m <= u /\ m # u
    BY <1>2, <1>3
<1>4. u # 0
    <2>1. PICK m \in S : TRUE
        OBVIOUS
    <2> QED BY <1>6, <2>1
<1>5. u - 1 \in Above
    BY <1>2, <1>6, <1>4
<1> QED BY <1>2, <1>5

\* The positions taken first come before all others of the list, and are exactly
\* as many as asked for when there are more (the slice in compute_keep_ids).
LEMMA FirstOfIsSlice ==
    ASSUME NEW N \in Nat, NEW S \in SUBSET (1..N), NEW c \in Nat, Cardinality(S) > c
    PROVE  /\ \A m \in FirstOf(S, c), n \in S \ FirstOf(S, c) : m < n
           /\ Cardinality(FirstOf(S, c)) = c
<1> DEFINE F == FirstOf(S, c)
           Upto(n) == {m \in S : m <= n}
<1>0. IsFiniteSet(S) /\ S \subseteq Nat
    <2>1. IsFiniteSet(1..N)
        BY FS_Interval
    <2>2. IsFiniteSet(S)
        BY <2>1, FS_Subset
    <2>3. S \subseteq Nat
        OBVIOUS
    <2> QED BY <2>2, <2>3
<1>1. /\ F \subseteq S /\ IsFiniteSet(F) /\ Cardinality(F) \in Nat
      /\ \A n \in S : n \in F <=> Cardinality(Upto(n)) <= c
    <2>1. F \subseteq S /\ \A n \in S : n \in F <=> Cardinality(Upto(n)) <= c
        BY DEF FirstOf
    <2> QED BY <1>0, <2>1, FS_Subset, FS_CardinalityType
<1>2. \A n \in S : IsFiniteSet(Upto(n)) /\ Cardinality(Upto(n)) \in Nat
    <2> SUFFICES ASSUME NEW n \in S PROVE IsFiniteSet(Upto(n)) /\ Cardinality(Upto(n)) \in Nat
        OBVIOUS
    <2>1. Upto(n) \subseteq S
        OBVIOUS
    <2> QED BY <1>0, <2>1, FS_Subset, FS_CardinalityType
<1>3. ASSUME NEW m \in S, NEW n \in S, m <= n
      PROVE  Cardinality(Upto(m)) <= Cardinality(Upto(n))
    <2>1. m \in Nat /\ n \in Nat /\ \A l \in S : l \in Nat
        BY <1>0
    <2>2. Upto(m) \subseteq Upto(n)
        <3>1. ASSUME NEW l \in S, l <= m PROVE l <= n
            BY <1>3, <2>1, <3>1
        <3> QED BY <3>1
    <2> QED BY <1>2, <2>2, FS_Subset
<1> HIDE DEF F
<1>4. ASSUME NEW m \in F, NEW n \in S \ F PROVE m < n
    <2>1. SUFFICES ASSUME n <= m PROVE FALSE
        BY <1>1
    <2>2. Cardinality(Upto(n)) <= Cardinality(Upto(m)) /\ Cardinality(Upto(m)) <= c
        BY <1>1, <1>3, <2>1
    <2>3. Cardinality(Upto(n)) <= c
        BY <1>1, <1>2, <2>2
    <2> QED BY <1>1, <2>3
<1>5. Cardinality(F) <= c
    <2>1. CASE F = {}
        BY <2>1, FS_EmptySet
    <2>2. CASE F # {}
        <3>1. PICK u \in F : \A m \in F : m <= u
            <4>1. F \in SUBSET (0..N)
                BY <1>1
            <4> QED BY <4>1, <2>2, GreatestElement
        <3>2. Upto(u) = F
            <4>1. ASSUME NEW m \in S, m <= u PROVE m \in F
                BY <1>1, <1>4, <4>1
            <4> QED BY <1>1, <3>1, <4>1
        <3> QED BY <1>1, <3>2
    <2> QED BY <2>1, <2>2
<1>6. Cardinality(F) >= c
    <2>1. S \ F # {}
        <3>1. SUFFICES ASSUME S = F PROVE FALSE
            BY <1>1
        <3>2. Cardinality(S) \in Nat
            BY <1>0, FS_CardinalityType
        <3> QED BY <1>5, <3>1, <3>2
    <2>2. PICK n \in S \ F : \A m \in S \ F : n <= m
        BY <1>0, <2>1, LeastElement
    <2>3. Upto(n) = F \cup {n}
        <3>1. ASSUME NEW m \in S, m <= n, m # n PROVE m \in F
            BY <1>0, <2>2, <3>1
        <3>2. ASSUME NEW m \in F PROVE m \in S /\ m <= n
            BY <1>0, <1>1, <1>4
        <3>3. n \in S /\ n <= n
            BY <1>0
        <3> QED BY <3>1, <3>2, <3>3
    <2>4. Cardinality(Upto(n)) = Cardinality(F) + 1
        BY <1>1, <2>3, FS_AddElement
    <2>5. ~(Cardinality(Upto(n)) <= c)
        BY <1>1, <2>2
    <2> HIDE DEF Upto
    <2> QED BY <1>1, <2>4, <2>5
<1> QED BY <1>1, <1>4, <1>5, <1>6 DEF F

\* The cap of compute_keep_ids is met, and used up before a wanted backup goes.
LEMMA KeepsWithinCap ==
    ASSUME NEW B \in SUBSET Backup, IsFiniteSet(B), B # {}, NEW o \in Orderings(B),
           NEW p \in Policies, p.cap > 0, NEW t \in Nat
    PROVE  LET kept == KeepPositions(o, p, t)
           IN  /\ Cardinality(kept) <= p.cap
               /\ \A n \in TierKeep(o, p, t) \ kept :
                     /\ Cardinality(kept) = p.cap
                     /\ \A m \in kept : o[n].ts <= o[m].ts
<1>1. p.cap \in Nat
    BY RetentionAssumption DEF Policy
<1>2. Cardinality(B) \in Nat /\ DOMAIN o = 1..Cardinality(B) /\ 1 \in DOMAIN o
    BY FS_CardinalityType, HeadIsNewest DEF Orderings
<1>3. CASE ~HasTiers(p)
    <2>1. KeepPositions(o, p, t) \subseteq 1..p.cap
        BY <1>1, <1>2, <1>3 DEF KeepPositions
    <2>2. Cardinality(KeepPositions(o, p, t)) <= p.cap
        <3>1. PICK cap \in Nat : cap = p.cap
            BY <1>1
        <3>2. IsFiniteSet(1..cap) /\ Cardinality(1..cap) = cap
            <4>1. 1 \in Int /\ cap \in Int
                OBVIOUS
            <4>2. /\ IsFiniteSet(1..cap)
                  /\ Cardinality(1..cap) = IF 1 > cap THEN 0 ELSE cap - 1 + 1
                BY <4>1, FS_Interval, Zenon
            <4> QED BY <4>2
        <3>3. KeepPositions(o, p, t) \subseteq 1..cap
            BY <2>1, <3>1
        <3>4. Cardinality(KeepPositions(o, p, t)) <= Cardinality(1..cap)
            BY <3>2, <3>3, FS_Subset
        <3>5. Cardinality(KeepPositions(o, p, t)) <= cap
            BY <3>2, <3>4
        <3> QED BY <3>1, <3>5
    <2>3. TierKeep(o, p, t) = {}
        BY <1>3 DEF TierKeep, InWindow, HasTiers
    <2> QED BY <2>2, <2>3
<1>4. CASE HasTiers(p)
    <2> DEFINE wanted == TierKeep(o, p, t) \cup {1}
    <2>1. wanted \subseteq 1..Cardinality(B)
        BY <1>2 DEF TierKeep
    <2>2. wanted \subseteq Nat /\ IsFiniteSet(wanted) /\ Cardinality(wanted) \in Nat
        <3>1. IsFiniteSet(1..Cardinality(B))
            BY <1>2, FS_Interval
        <3>2. IsFiniteSet(wanted)
            BY <2>1, <3>1, FS_Subset
        <3> QED BY <1>2, <2>1, <3>2, FS_CardinalityType
    <2>3. 1 \in wanted /\ TierKeep(o, p, t) \subseteq wanted
        OBVIOUS
    <2>4. KeepPositions(o, p, t) = IF Cardinality(wanted) > p.cap
                                   THEN FirstOf(wanted, p.cap) \cup {1} ELSE wanted
        BY <1>4 DEF KeepPositions, KeepTiered
    <2> HIDE DEF wanted
    <2>5. CASE Cardinality(wanted) <= p.cap
        BY <1>1, <2>2, <2>3, <2>4, <2>5
    <2>6. CASE Cardinality(wanted) > p.cap
        <3>1. {m \in wanted : m <= 1} = {1}
            <4>1. \A m \in wanted : m \in Nat /\ m >= 1
                BY <1>2, <2>1
            <4> QED BY <2>3, <4>1
        <3>2. 1 \in FirstOf(wanted, p.cap)
            BY <1>1, <2>3, <3>1, FS_Singleton DEF FirstOf
        <3>3. KeepPositions(o, p, t) = FirstOf(wanted, p.cap)
            BY <2>4, <2>6, <3>2
        <3>4. /\ \A m \in FirstOf(wanted, p.cap), n \in wanted \ FirstOf(wanted, p.cap) : m < n
              /\ Cardinality(FirstOf(wanted, p.cap)) = p.cap
            BY <1>1, <1>2, <2>1, <2>6, FirstOfIsSlice
        <3>5. ASSUME NEW n \in TierKeep(o, p, t) \ FirstOf(wanted, p.cap),
                     NEW m \in FirstOf(wanted, p.cap)
              PROVE  o[n].ts <= o[m].ts
            <4>1. m < n
                BY <2>3, <3>4
            <4>2. m \in DOMAIN o /\ n \in DOMAIN o
                BY <1>2, <2>1, <2>3 DEF FirstOf
            <4> QED BY <4>1, <4>2 DEF Orderings
        <3> QED BY <1>1, <3>3, <3>4, <3>5
    <2> QED BY <1>1, <2>2, <2>5, <2>6
<1> QED BY <1>3, <1>4

-----------------------------------------------------------------------------
\* The initial state has no backup.
LEMMA RInit == Init => RInv
<1> SUFFICES ASSUME Init PROVE RInv
    OBVIOUS
<1>1. TypeOK
    BY FS_EmptySet DEF Init, TypeOK, Idle
<1>2. NewestSurvives /\ TiersCovered
    BY DEF Init, NewestSurvives, TiersCovered
<1> QED BY <1>1, <1>2 DEF RInv

\* The clock advances.
LEMMA RTick == ASSUME RInv, Tick PROVE RInv'
<1> USE DEF RInv
<1>1. TypeOK'
    <2>1. \A b \in taken : b.ts \in Nat
        BY DEF TypeOK, Backup
    <2> QED BY <2>1 DEF TypeOK, Tick
<1>2. NewestSurvives'
    BY DEF NewestSurvives, Tick
<1>3. TiersCovered'
    <2> SUFFICES ASSUME policy.cap = 0, NEW b \in taken, NEW k \in Tiers,
                        InWindow(policy, k, b, now + 1)
                 PROVE  \E r \in rows : Bucket(k, r) = Bucket(k, b) /\ b.ts <= r.ts
        BY DEF TiersCovered, Tick
    <2>1. InWindow(policy, k, b, now)
        BY WindowCloses DEF TypeOK
    <2> QED BY <2>1 DEF TiersCovered
<1> QED BY <1>1, <1>2, <1>3

\* Pruning: the newest and one of each covered bucket stay.
LEMMA RPrune == ASSUME RInv, Prune PROVE RInv'
<1> USE DEF RInv
<1>1. CASE UNCHANGED rows
    BY <1>1 DEF Prune, TypeOK, NewestSurvives, TiersCovered
<1>2. ASSUME rows # {}, NEW o \in Orderings(rows), NEW stuck \in SUBSET rows,
             rows' = Keep(o, policy, now) \cup stuck
      PROVE  RInv'
    <2> DEFINE K == Keep(o, policy, now)
    <2>1. /\ rows \in SUBSET Backup /\ IsFiniteSet(rows) /\ policy \in Policies /\ now \in Nat
          /\ taken \in SUBSET Backup /\ rows \subseteq taken
        BY DEF TypeOK
    <2>2. K \subseteq rows
        BY <1>2, <2>1, KeepsMembers
    <2>3. rows' \subseteq rows /\ IsFiniteSet(rows')
        BY <1>2, <2>1, <2>2, FS_Subset
    <2>4. TypeOK'
        BY <2>1, <2>3 DEF TypeOK, Prune
    <2>5. o[1] \in K /\ \A b \in rows : b.ts <= o[1].ts
        BY <1>2, <2>1, HeadIsNewest, KeepsNewest DEF Keep
    <2>6. NewestSurvives'
        <3> SUFFICES ASSUME taken # {} PROVE \E r \in rows' : \A b \in taken : b.ts <= r.ts
            BY DEF NewestSurvives, Prune
        <3>1. PICK r \in rows : \A b \in taken : b.ts <= r.ts
            BY DEF NewestSurvives
        <3>2. \A b \in taken : b.ts <= o[1].ts
            <4> SUFFICES ASSUME NEW b \in taken PROVE b.ts <= o[1].ts
                OBVIOUS
            <4>1. b.ts <= r.ts /\ r.ts <= o[1].ts
                BY <3>1, <2>5
            <4>2. b.ts \in Nat /\ r.ts \in Nat /\ o[1].ts \in Nat
                BY <2>1, <2>2, <2>5 DEF Backup
            <4> QED BY <4>1, <4>2
        <3> QED BY <3>2, <2>5, <1>2
    <2>7. TiersCovered'
        <3> SUFFICES ASSUME policy.cap = 0, NEW b \in taken, NEW k \in Tiers,
                            InWindow(policy, k, b, now)
                     PROVE  \E r \in rows' : Bucket(k, r) = Bucket(k, b) /\ b.ts <= r.ts
            BY DEF TiersCovered, Prune
        <3>1. PICK c \in rows : Bucket(k, c) = Bucket(k, b) /\ b.ts <= c.ts
            BY DEF TiersCovered
        <3>2. InWindow(policy, k, c, now)
            BY <3>1, <2>1, NewerInWindow
        <3>3. PICK r \in K : Bucket(k, r) = Bucket(k, c) /\ c.ts <= r.ts
            BY <3>2, <1>2, <2>1, KeepsCover
        <3>4. b.ts \in Nat /\ c.ts \in Nat /\ r.ts \in Nat
            BY <2>1, <2>2, <3>3 DEF Backup
        <3>5. Bucket(k, r) = Bucket(k, b) /\ b.ts <= r.ts
            BY <3>1, <3>3, <3>4
        <3> QED BY <3>5, <3>3, <1>2
    <2> QED BY <2>4, <2>6, <2>7
<1> QED BY <1>1, <1>2 DEF Prune

\* A row is added, by a backup or an import.
LEMMA RAdd ==
    ASSUME RInv, NEW ts \in Nat, ts <= now, Add(ts), UNCHANGED <<now, policy>>,
           pending' \in [started: Nat \cup {None}, pruned: BOOLEAN],
           pending'.started # None => pending'.started <= now
    PROVE  RInv'
<1> USE DEF RInv
<1> DEFINE new == [id |-> nextId, ts |-> ts]
<1>1. /\ rows \in SUBSET Backup /\ IsFiniteSet(rows) /\ now \in Nat /\ nextId \in Nat
      /\ taken \in SUBSET Backup /\ rows \subseteq taken /\ policy \in Policies
      /\ \A b \in taken : b.ts <= now /\ b.id < nextId
    BY DEF TypeOK
<1>2. new \in Backup /\ new.ts = ts /\ new.id = nextId
    BY <1>1 DEF Backup
<1>3. rows' = rows \cup {new} /\ taken' = taken \cup {new} /\ nextId' = nextId + 1
    BY DEF Add
<1> HIDE DEF new
<1>4. TypeOK'
    <2>1. IsFiniteSet(rows')
        BY <1>1, <1>3, FS_AddElement
    <2>2. \A b \in taken' : b.ts <= now /\ b.id < nextId + 1
        <3>1. \A b \in taken : b.id \in Nat
            BY <1>1 DEF Backup
        <3> QED BY <1>1, <1>2, <1>3, <3>1
    <2> QED BY <1>1, <1>2, <1>3, <2>1, <2>2 DEF TypeOK
<1>5. \A b \in taken : b.ts \in Nat
    BY <1>1 DEF Backup
<1>6. NewestSurvives'
    <2>1. CASE taken = {}
        BY <2>1, <1>2, <1>3 DEF NewestSurvives
    <2>2. CASE taken # {}
        <3>1. PICK r \in rows : \A b \in taken : b.ts <= r.ts
            BY <2>2 DEF NewestSurvives
        <3>2. r.ts \in Nat
            BY <1>1, <1>5
        <3>3. CASE ts <= r.ts
            BY <3>1, <3>3, <1>2, <1>3 DEF NewestSurvives
        <3>4. CASE r.ts < ts
            <4>1. \A b \in taken' : b.ts <= new.ts
                BY <3>1, <3>2, <3>4, <1>2, <1>3, <1>5
            <4> QED BY <4>1, <1>3 DEF NewestSurvives
        <3> QED BY <3>2, <3>3, <3>4
    <2> QED BY <2>1, <2>2
<1>7. TiersCovered'
    <2> SUFFICES ASSUME policy.cap = 0, NEW b \in taken', NEW k \in Tiers,
                        InWindow(policy, k, b, now)
                 PROVE  \E r \in rows' : Bucket(k, r) = Bucket(k, b) /\ b.ts <= r.ts
        BY DEF TiersCovered
    <2>1. CASE b = new
        BY <2>1, <1>2, <1>3
    <2>2. CASE b \in taken
        BY <2>2, <1>3 DEF TiersCovered
    <2> QED BY <2>1, <2>2, <1>3
<1> QED BY <1>4, <1>6, <1>7

\* RInv is inductive.
LEMMA RInductive == Spec => []RInv
<1>1. RInv /\ [Next]_vars => RInv'
    <2> SUFFICES ASSUME RInv, [Next]_vars PROVE RInv'
        OBVIOUS
    <2>1. CASE Begin
        <3>1. TypeOK'
            BY <2>1 DEF RInv, TypeOK, Begin
        <3> QED BY <2>1, <3>1 DEF RInv, Begin, NewestSurvives, TiersCovered
    <2>2. CASE GiveUp
        <3>1. TypeOK'
            BY <2>2 DEF RInv, TypeOK, GiveUp, Idle
        <3> QED BY <2>2, <3>1 DEF RInv, GiveUp, NewestSurvives, TiersCovered
    <2>3. CASE Record
        <3>1. pending.started \in Nat /\ pending.started <= now
            BY <2>3 DEF RInv, TypeOK, Record
        <3> QED BY <2>3, <3>1, RAdd DEF Record, Idle
    <2>4. CASE Import
        <3>1. PICK ts \in 0..now : Add(ts)
            BY <2>4 DEF Import
        <3>2. ts \in Nat /\ ts <= now
            BY <3>1 DEF RInv, TypeOK
        <3> QED BY <2>4, <3>1, <3>2, RAdd DEF Import, RInv, TypeOK
    <2>5. CASE UNCHANGED vars
        BY <2>5 DEF vars, RInv, TypeOK, NewestSurvives, TiersCovered
    <2> QED BY <2>1, <2>2, <2>3, <2>4, <2>5, RTick, RPrune DEF Next
<1> QED BY <1>1, RInit, PTL DEF Spec

-----------------------------------------------------------------------------
\* The clock, the rows and the backup in progress keep their shape; every row
\* is a backup that was taken, none lies in the future, and no id is used twice.
THEOREM RetentionTyped == Spec => []TypeOK
BY RInductive, PTL DEF RInv

\* For every policy, calendar and order of prunings, imports and failures, the
\* newest backup ever taken still has a row (compute_keep_ids and
\* _cleanup_old_backups).
THEOREM NewestNeverPruned == Spec => []NewestSurvives
BY RInductive, PTL DEF RInv

\* Without a count cap, every bucket that a tier's window reaches and in which a
\* backup was taken is represented by one at least as new.
THEOREM TiersStayCovered == Spec => []TiersCovered
BY RInductive, PTL DEF RInv
\* The cap is an upper bound and is used up: compute_keep_ids keeps at most cap
\* backups, and drops one that a tier wants only when cap others, none of them
\* older, are kept.
THEOREM CapIsTight == Spec => []CapTight
<1>1. ASSUME TypeOK PROVE CapTight
    <2>1. SUFFICES ASSUME policy.cap > 0, NEW o \in Orderings(rows), rows # {}
                  PROVE  LET kept == KeepPositions(o, policy, now)
                         IN  /\ Cardinality(kept) <= policy.cap
                             /\ \A n \in TierKeep(o, policy, now) \ kept :
                                   /\ Cardinality(kept) = policy.cap
                                   /\ \A m \in kept : o[n].ts <= o[m].ts
        BY DEF CapTight
    <2>2. rows \in SUBSET Backup /\ IsFiniteSet(rows) /\ policy \in Policies /\ now \in Nat
        BY <1>1 DEF TypeOK
    <2> QED BY <2>1, <2>2, KeepsWithinCap
<1> QED BY <1>1, RetentionTyped, PTL
=============================================================================
