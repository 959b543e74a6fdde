----------------------------- MODULE DurableTier -----------------------------
(***************************************************************************)
(* The durable tier of one node: DurabilityWritePath (grid/durability.rs)   *)
(* sends a record to the store at once or through its bounded queue,        *)
(* DurableValueStore (grid/durable_store.rs) merges it under a byte budget  *)
(* and flushes, the TombstoneTracker (grid/mod.rs) says which tombstones    *)
(* repair has confirmed and may be reclaimed, and a crash leaves what       *)
(* reached the disk.                                                        *)
(*                                                                          *)
(* sled is external: here it is the tree that the process sees (db) and the *)
(* one that survives (disk).  A flush makes them equal or fails; a crash    *)
(* keeps, key by key, what was flushed or what was written since.           *)
(***************************************************************************)
EXTENDS Integers, Sequences, FiniteSets, FiniteSetsExt

CONSTANTS Keys,          \* keys in the order of a scan, each a namespace
          MaxLag,        \* max_lag of a key's namespace; 0 for a Sync one
          Records,       \* the records callers write
          ValueBytes,    \* approx_bytes of a value
          MaxTotalBytes, \* max_total_bytes
          MaxRecords,    \* max_records of a collection cycle
          MaxTombstones, \* max_tombstones of the tracker's budget
          MaxFaults,     \* bound: failed flushes and crashes
          NoRecord, Untracked

Tracked == [version : Nat, confirmed : BOOLEAN]

ASSUME DurableAssumption ==
    /\ Keys \subseteq Nat /\ IsFiniteSet(Keys)
    /\ MaxLag \in [Keys -> Nat]
    /\ Records \subseteq [version : Nat, epoch : Nat, tombstone : BOOLEAN]
    /\ NoRecord \notin Records /\ Untracked \notin Tracked
    /\ ValueBytes \in Nat \ {0} /\ MaxTotalBytes \in Nat
    /\ MaxRecords \in Nat \ {0} /\ MaxTombstones \in Nat \ {0}
    /\ MaxFaults \in Nat

VARIABLES db,            \* the tree as the process sees it
          disk,          \* the tree that survives a crash
          used,          \* budget_used_bytes
          pending,       \* the write-behind queue
          tracker,       \* the tracked tombstones
          repair_debt,   \* the tracker is over its budget
          accepted,      \* history: the highest record a caller was told of
          faults         \* history: failures so far

store == <<db, disk, used>>

vars == <<db, disk, used, pending, tracker, repair_debt, accepted, faults>>

Trees == [Keys -> Records \cup {NoRecord}]

(* approx_bytes; a record that is not there takes none. *)
Bytes(r) == IF r = NoRecord THEN 0 ELSE IF r.tombstone THEN 1 ELSE ValueBytes

(* r stays when s is merged into it: the higher (version, epoch), and on a  *)
(* tie a tombstone.  Where neither is a tombstone the tie is between equal  *)
(* records.                                                                 *)
Beats(r, s) ==
    \/ r.version > s.version
    \/ r.version = s.version /\ r.epoch > s.epoch
    \/ r.version = s.version /\ r.epoch = s.epoch /\ (r.tombstone \/ ~s.tombstone)

(* A bug in which the last writer wins. *)
MergeLast(current, r) == r

(* ReplicatedValueRecord::merge of the stored record with a new one. *)
Merge(current, r) ==
    IF current = NoRecord THEN r ELSE IF Beats(current, r) THEN current ELSE r

(* scan_total_bytes. *)
TotalBytes(tree) == MapThenSumSet(LAMBDA k : Bytes(tree[k]), Keys)

Init == /\ db = [k \in Keys |-> NoRecord] /\ disk = db
        /\ used = 0
        /\ pending = <<>>
        /\ tracker = [k \in Keys |-> Untracked]
        /\ repair_debt = FALSE
        /\ accepted = [k \in Keys |-> NoRecord]
        /\ faults = 0

-----------------------------------------------------------------------------
(* The flush at the end of a change of the tree fails, or makes it durable. *)
Flush(flushed) ==
    IF flushed THEN disk' = db' /\ UNCHANGED faults
               ELSE faults < MaxFaults /\ faults' = faults + 1 /\ UNCHANGED disk

(* A bug in which the budget is charged for the record that came, also when *)
(* the one that was there stays.                                            *)
UpsertCharging(k, r, flushed) ==
    /\ used - Bytes(db[k]) + Bytes(r) <= MaxTotalBytes
    /\ db' = [db EXCEPT ![k] = Merge(@, r)]
    /\ used' = used - Bytes(db[k]) + Bytes(r)
    /\ Flush(flushed)

(* DurableValueStore::upsert, when it gets as far as the tree: would_fit    *)
(* compares the budget with the record that came, not with what the merge   *)
(* keeps.  A record that does not fit, or that sled does not insert, changes*)
(* nothing.                                                                 *)
Upsert(k, r, flushed) ==
    /\ used - Bytes(db[k]) + Bytes(r) <= MaxTotalBytes
    /\ db' = [db EXCEPT ![k] = Merge(@, r)]
    /\ used' = used - Bytes(db[k]) + Bytes(Merge(db[k], r))
    /\ Flush(flushed)

(* The caller is told that r is accepted. *)
Accept(k, r) == accepted' = [accepted EXCEPT ![k] = Merge(@, r)]

(* A bug in which a Sync write is acknowledged although the flush failed.   *)
WriteSyncUnflushed(k, r, flushed) ==
    /\ MaxLag[k] = 0
    /\ Upsert(k, r, flushed)
    /\ Accept(k, r)
    /\ UNCHANGED <<pending, tracker, repair_debt>>

(* write in a Sync namespace: acknowledged after upsert and its flush.  The *)
(* second flush has nothing left to do.                                     *)
WriteSync(k, r, flushed) ==
    /\ MaxLag[k] = 0
    /\ Upsert(k, r, flushed)
    /\ IF flushed THEN Accept(k, r) ELSE UNCHANGED accepted
    /\ UNCHANGED <<pending, tracker, repair_debt>>

(* A bug in which the queue may grow one beyond its bound. *)
WriteAsyncLate(k, r) ==
    /\ MaxLag[k] > 0
    /\ Len(pending) <= MaxLag[k]
    /\ pending' = Append(pending, [key |-> k, record |-> r])
    /\ Accept(k, r)
    /\ UNCHANGED <<store, tracker, repair_debt, faults>>

(* write in an AsyncBounded namespace: queued, unless the queue, which all  *)
(* namespaces share, is as long as this one's max_lag.                      *)
WriteAsync(k, r) ==
    /\ MaxLag[k] > 0
    /\ Len(pending) < MaxLag[k]
    /\ pending' = Append(pending, [key |-> k, record |-> r])
    /\ Accept(k, r)
    /\ UNCHANGED <<store, tracker, repair_debt, faults>>

(* drain_async, one turn of its loop, between two of which the process may  *)
(* stop: a write that the store refuses or cannot flush goes back to the    *)
(* front of the queue.                                                      *)
DrainAsync(flushed) ==
    /\ pending # <<>>
    /\ Upsert(Head(pending).key, Head(pending).record, flushed)
    /\ pending' = IF flushed THEN Tail(pending) ELSE pending
    /\ UNCHANGED <<tracker, repair_debt, accepted>>

-----------------------------------------------------------------------------
TrackedKeys(t) == {k \in Keys : t[k] # Untracked}

(* over_budget; a tombstone counts as one byte, so one bound stands for both. *)
OverBudget(t) == Cardinality(TrackedKeys(t)) > MaxTombstones

(* enforce_budget: what the loop removes while the budget is exceeded, the  *)
(* confirmed entries, lowest version first, or all of them.                 *)
Evicted(t) ==
    LET confirmed == {k \in TrackedKeys(t) : t[k].confirmed}
        excess    == Cardinality(TrackedKeys(t)) - MaxTombstones
    IN  {E \in SUBSET confirmed :
            /\ Cardinality(E) = Max({0, Min({excess, Cardinality(confirmed)})})
            /\ \A k \in E, j \in confirmed \ E : t[k].version <= t[j].version}

(* admit, which follows the write of a tombstone: a fresh entry, that its   *)
(* caller may know to be repaired, replaces the key's, then the budget is   *)
(* enforced; what it cannot meet is a debt.                                 *)
Admit(k, confirmed) ==
    LET t == [tracker EXCEPT ![k] = [version |-> db[k].version, confirmed |-> confirmed]]
    IN  /\ db[k] # NoRecord /\ db[k].tombstone
        /\ \E E \in Evicted(t) :
              tracker' = [j \in Keys |-> IF j \in E THEN Untracked ELSE t[j]]
        /\ repair_debt' = OverBudget(tracker')
        /\ UNCHANGED <<store, pending, accepted, faults>>

(* confirm_repair: it names the key, not the version that was repaired. *)
ConfirmRepair(k) ==
    /\ tracker[k] # Untracked /\ ~tracker[k].confirmed
    /\ tracker' = [tracker EXCEPT ![k].confirmed = TRUE]
    /\ UNCHANGED <<store, pending, repair_debt, accepted, faults>>

(* A bug in which forgetting an entry always clears the debt. *)
ForgetDebt(k) ==
    /\ tracker' = [tracker EXCEPT ![k] = Untracked]
    /\ repair_debt' = FALSE

(* forget. *)
Forget(k) ==
    /\ tracker' = [tracker EXCEPT ![k] = Untracked]
    /\ repair_debt' = (repair_debt /\ OverBudget(tracker'))

(* The first max_records keys of a scan. *)
Scanned ==
    {k \in Keys : /\ db[k] # NoRecord
                  /\ Cardinality({j \in Keys : j < k /\ db[j] # NoRecord}) < MaxRecords}

Reclaimable == {k \in Scanned : /\ db[k].tombstone
                                /\ tracker[k] # Untracked /\ tracker[k].confirmed}

(* A bug in which a removed tombstone is credited as if it were a value. *)
RemoveRecordAsValue(k, flushed) ==
    /\ db' = [db EXCEPT ![k] = NoRecord]
    /\ used' = used - ValueBytes
    /\ Flush(flushed)

(* remove: taken out of the tree and of the budget before the flush. *)
RemoveRecord(k, flushed) ==
    /\ db' = [db EXCEPT ![k] = NoRecord]
    /\ used' = used - Bytes(db[k])
    /\ Flush(flushed)

(* collect_tombstone_garbage, one removal: a confirmed tombstone of the     *)
(* scan is removed, and forgotten if the flush succeeds; a failed flush     *)
(* ends the cycle.  Which confirmed ones are eligible depends on epochs     *)
(* that the caller passes, so any of them may come next.                    *)
Reclaim(k, flushed) ==
    /\ k \in Reclaimable
    /\ RemoveRecord(k, flushed)
    /\ IF flushed THEN Forget(k) ELSE UNCHANGED <<tracker, repair_debt>>
    /\ accepted' = IF accepted[k] # NoRecord /\ Beats(db[k], accepted[k])
                     THEN [accepted EXCEPT ![k] = NoRecord] ELSE accepted
    /\ UNCHANGED pending

-----------------------------------------------------------------------------
(* The process stops and opens the store again: the queue and the tracker   *)
(* are gone, sled recovers its tree, and the budget is counted anew.  What  *)
(* was still queued is lost, and its caller must not count on it.           *)
Crash ==
    /\ faults < MaxFaults /\ faults' = faults + 1
    /\ \E kept \in SUBSET Keys :
          db' = [k \in Keys |-> IF k \in kept THEN db[k] ELSE disk[k]]
    /\ disk' = db'
    /\ used' = TotalBytes(db')
    /\ pending' = <<>>
    /\ tracker' = [k \in Keys |-> Untracked]
    /\ repair_debt' = FALSE
    /\ accepted' = [k \in Keys |-> IF \E i \in 1 .. Len(pending) : pending[i].key = k
                                     THEN NoRecord ELSE accepted[k]]

Next ==
    \/ \E k \in Keys, r \in Records, flushed \in BOOLEAN : WriteSync(k, r, flushed)
    \/ \E k \in Keys, r \in Records : WriteAsync(k, r)
    \/ \E flushed \in BOOLEAN : DrainAsync(flushed)
    \/ \E k \in Keys : ConfirmRepair(k) \/ \E confirmed \in BOOLEAN : Admit(k, confirmed)
    \/ \E k \in Keys, flushed \in BOOLEAN : Reclaim(k, flushed)
    \/ Crash

Spec == Init /\ [][Next]_vars

-----------------------------------------------------------------------------
(* The types of the variables.  The byte count is never negative, but it is *)
(* not within the budget either: reopening the store counts what it finds,  *)
(* and after failed flushes that may be more (open_with_budget).            *)
TypeOK ==
    /\ db \in Trees /\ disk \in Trees
    /\ used \in Nat
    /\ pending \in Seq([key : Keys, record : Records])
    /\ tracker \in [Keys -> Tracked \cup {Untracked}]
    /\ repair_debt \in BOOLEAN
    /\ accepted \in Trees
    /\ faults \in 0 .. MaxFaults

(* r, or something that supersedes it, is where it should be. *)
Holds(slot, r) == slot # NoRecord /\ Beats(slot, r)

(* What a caller was told is accepted survives: it, or a record that        *)
(* supersedes it, is on disk, or, in an AsyncBounded namespace, still       *)
(* queued.  In particular an acknowledged Sync write survives any failure,  *)
(* and once the queue is empty, as maybe_snapshot leaves it, everything     *)
(* accepted is on disk (write, drain_async, upsert, reopening).             *)
AcceptedIsKept ==
    \A k \in Keys : accepted[k] # NoRecord =>
        \/ Holds(disk[k], accepted[k])
        \/ \E i \in 1 .. Len(pending) :
              pending[i].key = k /\ Beats(pending[i].record, accepted[k])

(* A crash loses at most max_lag accepted writes of a namespace, none of a  *)
(* Sync one, although all namespaces share the queue (write, drain_async).  *)
LossIsBounded ==
    \A k \in Keys :
        Cardinality({i \in 1 .. Len(pending) : pending[i].key = k}) <= MaxLag[k]

(* The running byte count is that of the tree, after merges, rejections,    *)
(* failed flushes, collections and crashes (upsert, remove,                 *)
(* open_with_budget).                                                       *)
BudgetIsExact == used = TotalBytes(db)

(* repair_debt is set exactly while the tracker holds more entries than its *)
(* budget allows (admit, confirm_repair, forget).                           *)
DebtIsExact == repair_debt <=> OverBudget(tracker)

(* A live value that is on disk and that the process sees is only ever      *)
(* replaced by a record that supersedes it, and never removed: not by a     *)
(* late or repeated queued write, by collection, or by a crash (merge,      *)
(* drain_async, collect_tombstone_garbage, reopening).                      *)
ValuesOnlyRise ==
    [][\A k \in Keys :
          disk[k] # NoRecord /\ ~disk[k].tombstone /\ db[k] = disk[k] =>
              Holds(disk'[k], disk[k])]_vars

=============================================================================
