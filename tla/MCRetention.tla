----------------------------- MODULE MCRetention -----------------------------
(***************************************************************************)
(* Two ticks a day, two-day weeks and three-day months keep several        *)
(* buckets of every tier within the bound, with windows that end inside a  *)
(* bucket.                                                                 *)
(***************************************************************************)
EXTENDS Retention, TLC

MCMonthOf(d) == d \div 3

Tiered(c, a, d, w, m) ==
    [cap |-> c, tier |-> ("all" :> a @@ "daily" :> d @@ "weekly" :> w @@ "monthly" :> m)]

MCPolicies ==
    {Tiered(0, None, None, None, None),
     Tiered(2, None, None, None, None),
     Tiered(0, 0, 1, 1, None),
     Tiered(0, None, 1, None, 1),
     Tiered(2, 1, None, 2, None),
     Tiered(1, None, 2, None, None)}
=============================================================================
