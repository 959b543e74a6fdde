---------------------------- MODULE MCFencedLock ----------------------------
(***************************************************************************)
(* A small instance of the fenced locks for TLC.                           *)
(***************************************************************************)
EXTENDS FencedLock

CONSTANTS k1, k2, s1, s2, e1

WaitingOwner == [session |-> s2, endpoint |-> e1]
=============================================================================
