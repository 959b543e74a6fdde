---------------------------- MODULE MCDurableTier ----------------------------
(* Instances of DurableTier for TLC. *)
EXTENDS DurableTier, TLC

\* Key 1 is Sync, the others share the queue with different bounds.
SyncAndAsync == (1 :> 0) @@ (2 :> 1) @@ (3 :> 2)

Record(v, e, t) == [version |-> v, epoch |-> e, tombstone |-> t]

\* A value and a tombstone that tie, and a later write of an older epoch.
SomeRecords == {Record(1, 2, FALSE), Record(1, 2, TRUE), Record(2, 1, FALSE)}
=============================================================================
