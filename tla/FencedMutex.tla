---------------------------- MODULE FencedMutex ----------------------------
(***************************************************************************)
(* What the fenced lock promises, without leases, sessions, re-entrancy or *)
(* a clock: a key has at most one holder, and every grant, of any key,     *)
(* carries a fence token above every token granted before it.  A holder    *)
(* may lose its key at any moment; the token is what protects the resource *)
(* then.                                                                   *)
(***************************************************************************)
EXTENDS Integers

CONSTANTS Keys, Owners, NoOwner

VARIABLES holder,   \* [Keys -> the grant in force, or Nobody]
          last      \* no token above it was ever granted

Nobody == [owner |-> NoOwner, token |-> 0]

Init == holder = [k \in Keys |-> Nobody] /\ last = 0

Without(S) == [k \in Keys |-> IF k \in S THEN Nobody ELSE holder[k]]

\* The holders of S lose their keys; tokens may be skipped.
Lapse(S) ==
    /\ holder' = Without(S)
    /\ last' \in Nat /\ last' >= last

\* S lapses and o is granted k.
Grant(S, k, o) ==
    /\ last' \in Nat /\ last' > last
    /\ holder' = [Without(S) EXCEPT ![k] = [owner |-> o, token |-> last']]

Next ==
    \E S \in SUBSET Keys :
        \/ Lapse(S)
        \/ \E k \in Keys, o \in Owners : Grant(S, k, o)

Spec == Init /\ [][Next]_<<holder, last>>
=============================================================================
