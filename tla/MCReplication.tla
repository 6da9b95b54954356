--------------------------- MODULE MCReplication ---------------------------
(* Instances of Replication: a few settings and passwords.                 *)
EXTENDS Replication, TLC

CONSTANTS sweep, k1, k2, rp

Setting(on, mirror, double) ==
    [enabled |-> on, mirror |-> mirror, encrypt |-> TRUE, double |-> double, pw |-> rp]

\* Keep-forever, mirrored with an outer layer on everything, and off.
MCConfigs == {Setting(TRUE, FALSE, FALSE), Setting(TRUE, TRUE, TRUE), Setting(FALSE, FALSE, FALSE)}

MCSymmetry == Permutations(Passwords)
=============================================================================
