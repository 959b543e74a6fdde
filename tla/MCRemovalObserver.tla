------------------------- MODULE MCRemovalObserver -------------------------
(***************************************************************************)
(* Small instances of the removal observer for TLC.                        *)
(***************************************************************************)
EXTENDS RemovalObserver, TLC

CONSTANTS t1, t2, k1, k2, g1

\* Callers are interchangeable.
CallerSymmetry == Permutations(Tasks)
=============================================================================
