--------------------------- MODULE MCLoadBreaker ---------------------------
(***************************************************************************)
(* Small instances of the loader circuit breaker for TLC.                  *)
(***************************************************************************)
EXTENDS LoadBreaker, TLC

CONSTANTS t1, t2, k1, k2, l1, l2

\* Callers and load names are interchangeable.
CallerSymmetry == Permutations(Tasks) \cup Permutations(Loads)
=============================================================================
