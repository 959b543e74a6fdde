------------------------------ MODULE MCOutbox ------------------------------
(***************************************************************************)
(* Small instances of the outbox for TLC.                                  *)
(***************************************************************************)
EXTENDS Outbox, TLC

CONSTANTS c1, x, y, w1, w2

\* A transaction that changes two targets, and two workers of which one gives a row
\* up at its first failure and the other at its second.
TwoRows == c1 :> {x, y}
OneAndTwo == w1 :> 1 @@ w2 :> 2
=============================================================================
