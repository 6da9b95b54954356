------------------------------ MODULE MCWorker ------------------------------
(***************************************************************************)
(* Small instances of Worker.  Two processes A and B share the volume; A   *)
(* has two handler threads.  Both instances sit on one pfSense host.       *)
(***************************************************************************)
EXTENDS Worker, TLC

CONSTANTS A, B, a1, a2, b1, c1, fw

MCProcOf == [t \in Threads |-> IF t = b1 THEN B ELSE A]
MCHostOf == [i \in Instances |-> fw]

\* Job ids are only compared; the two handler threads of A are interchangeable.
MCSymmetry == Permutations(Jobs) \cup Permutations({a1, a2} \cap Threads)
=============================================================================
