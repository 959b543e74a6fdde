---------------------------- MODULE MCLocalCache ----------------------------
(* Instances of LocalCache for TLC. *)
EXTENDS LocalCache, TLC

CONSTANTS t1, t2, k1, k2, g1

\* Each key always carries the same tags.
OneTagSet == [k \in Keys |-> {Tags}]
\* Only k1 is ever loaded or written; the other keys are just invalidated.
OnlyK1 == [k \in Keys |-> IF k = k1 THEN {Tags} ELSE {}]

TaskSymmetry == Permutations(Tasks)
=============================================================================
