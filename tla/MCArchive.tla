----------------------------- MODULE MCArchive -----------------------------
(* Instances of Archive: a few file names and one or two passwords.        *)
EXTENDS Archive, TLC

CONSTANTS p1, p2, p3, k1, k2

\* File names and passwords are interchangeable.
MCSymmetry == Permutations(Paths) \cup Permutations(Passwords)
=============================================================================
