-------------------------- MODULE RemovalObserver --------------------------
(***************************************************************************)
(* The local cache with memory instrumentation switched on: the store      *)
(* reports every entry that leaves it to the RemovalObserver               *)
(* (removal_observer.rs), which subtracts the entry from the memory        *)
(* counters (memory_footprint.rs) at once and queues a cleanup ticket for  *)
(* its tag memberships; callers drain the queue before and after they      *)
(* write (cache.rs).  A snapshot of the counters is exact only if no       *)
(* mutation is active and the observer is clean.                           *)
(*                                                                         *)
(* Callers run on several threads and share the observer's atomics without *)
(* a lock, so every load, store, exchange, push and pop of observe, drain  *)
(* and reset_after_reconcile is a step of its own; the atomics are taken   *)
(* to be sequentially consistent.  A caller's remaining steps are a        *)
(* sequence of program points.  The eight byte and record counters move    *)
(* together, so one counter of entries stands for them.  The index's       *)
(* generation counters are projected away: no step of this module reads    *)
(* them (see LocalCache).                                                  *)
(***************************************************************************)
EXTENDS TagIndex, Sequences, FiniteSetsExt

CONSTANTS Tasks,
          Capacity,     \* cleanup queue length and number of version slots
          MaxVersion,   \* bound on the entries ever written
          TagSets,      \* the tag sets that callers write
          Calls,        \* the calls the callers make
          Dropped       \* the callers that may be dropped at an await

ASSUME CapacityAssumption == Capacity \in Nat \ {0} /\ MaxVersion \in Nat
ASSUME TagSetsAssumption == TagSets \subseteq SUBSET Tags

VARIABLES
    store,        \* [Keys -> entry: its version (0 if none) and tags]
    index,        \* the tag index
    nextVersion,  \* next_entry_version
    counter,      \* MemoryFootprintCounters.entries
    faulted,      \* MemoryFootprintCounters.faulted
    lost,         \* history: puts dropped after the insert, before the counter
    unticketed,   \* history: accepted removals that no ticket stands for any more
    overtaken,    \* history: tickets of removals that a reset acknowledged already
    noted,        \* history: the tickets and unticketed a reset saw at its load
    queue,        \* RemovalObserver.queue, of cleanup tickets
    slot,         \* RemovalObserver.inflight_versions, 0 if free
    accepted, acknowledged, dirty, draining,
    plan,         \* [Tasks -> the program points the caller has before it]
    guard,        \* [Tasks -> does the caller hold a mutation guard]
    entry,        \* [Tasks -> the entry the caller writes, and its key]
    ticket,       \* [Tasks -> the ticket the caller took off the queue]
    removed,      \* [Tasks -> entries whose removal it must still report]
    seen,         \* [Tasks -> accepted as it was loaded, or the slot to zero next]
    scan          \* [Tasks -> the store as its reconciliation saw it]

cache == <<store, index, nextVersion>>
memory == <<counter, faulted, lost>>
cleanup == <<queue, slot>>
sequence == <<accepted, acknowledged>>
flags == <<dirty, draining>>
observer == <<cleanup, sequence, flags>>
ledger == <<unticketed, overtaken, noted>>
call == <<guard, entry, removed, scan>>
locals == <<call, ticket, seen>>
vars == <<cache, memory, observer, ledger, plan, locals>>

Points == {"version", "insert", "register", "count", "end",
           "claim", "mark", "subtract", "accept", "push",
           "drain", "compare", "take", "pop", "unregister", "acknowledge", "free",
           "release", "get", "invalidate", "clear", "scan", "reindex",
           "reset", "discard", "zero", "load", "store", "clean"}
Versions == 0 .. MaxVersion
Entries == [version : Versions, tags : SUBSET Tags]
Tickets == [key : Keys, version : Versions, tags : SUBSET Tags]
NoEntry == [version |-> 0, tags |-> {}]
NoTicket == [key |-> CHOOSE k \in Keys : TRUE, version |-> 0, tags |-> {}]
EntryOf(k) == [key |-> k, version |-> store[k].version, tags |-> store[k].tags]
Live == {k \in Keys : store[k].version # 0}
SlotOf(version) == version % Capacity

TypeOK ==
    /\ store \in [Keys -> Entries] /\ scan \in [Tasks -> [Keys -> Entries]]
    /\ index \in Indexes
    /\ nextVersion \in 1 .. MaxVersion + 1
    /\ counter \in Int /\ faulted \in BOOLEAN /\ lost \in Nat
    /\ queue \in Seq(Tickets) /\ Len(queue) <= Capacity
    /\ slot \in [0 .. Capacity - 1 -> Versions]
    /\ accepted \in Nat /\ acknowledged \in Nat
    /\ dirty \in BOOLEAN /\ draining \in BOOLEAN
    /\ plan \in [Tasks -> Seq(Points)]
    /\ guard \in [Tasks -> BOOLEAN] /\ seen \in [Tasks -> Nat]
    /\ entry \in [Tasks -> Tickets] /\ ticket \in [Tasks -> Tickets]
    /\ removed \in [Tasks -> SUBSET Tickets]
    /\ unticketed \in Nat /\ overtaken \in Nat
    /\ noted \in [tickets : Nat, unticketed : Nat]

Init ==
    /\ store = [k \in Keys |-> NoEntry] /\ scan = [t \in Tasks |-> store]
    /\ index = EmptyIndex /\ nextVersion = 1
    /\ counter = 0 /\ faulted = FALSE /\ lost = 0
    /\ queue = <<>> /\ slot = [i \in 0 .. Capacity - 1 |-> 0]
    /\ accepted = 0 /\ acknowledged = 0 /\ dirty = FALSE /\ draining = FALSE
    /\ plan = [t \in Tasks |-> <<>>]
    /\ guard = [t \in Tasks |-> FALSE] /\ seen = [t \in Tasks |-> 0]
    /\ entry = [t \in Tasks |-> NoTicket] /\ ticket = [t \in Tasks |-> NoTicket]
    /\ removed = [t \in Tasks |-> {}]
    /\ unticketed = 0 /\ overtaken = 0 /\ noted = [tickets |-> 0, unticketed |-> 0]

-----------------------------------------------------------------------------
At(t, point) == plan[t] # <<>> /\ Head(plan[t]) = point
Idle(t) == plan[t] = <<>>

\* The caller's next point is done; `points` come before the rest of its plan.
Then(t, points) == plan' = [plan EXCEPT ![t] = points \o Tail(@)]

\* The memberships of the index, its generation counters projected away.
Memberships(ix) == [EmptyIndex EXCEPT !.keysByTag = ix.keysByTag]

\* put: drain, then put_bytes_unchecked up to its last drain.
Put(t, k, T) ==
    /\ "put" \in Calls /\ Idle(t)
    /\ plan' = [plan EXCEPT ![t] = <<"drain", "version", "insert", "register",
                                     "count", "drain", "end">>]
    /\ entry' = [entry EXCEPT ![t] = [key |-> k, version |-> 0, tags |-> T]]
    /\ UNCHANGED <<cache, memory, observer, ledger, guard, ticket, removed, seen,
                   scan>>

\* The mutation guard is taken and next_entry_version numbers the entry; when the
\* versions run out the call returns an error.
TakeVersion(t) ==
    /\ At(t, "version")
    /\ \/ /\ nextVersion <= MaxVersion
          /\ entry' = [entry EXCEPT ![t].version = nextVersion]
          /\ nextVersion' = nextVersion + 1
          /\ guard' = [guard EXCEPT ![t] = TRUE]
          /\ Then(t, <<>>)
       \/ /\ nextVersion > MaxVersion
          /\ entry' = [entry EXCEPT ![t] = NoTicket]
          /\ plan' = [plan EXCEPT ![t] = <<>>]
          /\ UNCHANGED <<nextVersion, guard>>
    /\ UNCHANGED <<store, index, memory, observer, ledger, ticket, removed, seen,
                   scan>>

\* store.insert, which reports the entry it replaces.
Insert(t) ==
    /\ At(t, "insert")
    /\ LET k == entry[t].key IN
       /\ store' = [store EXCEPT ![k] = [version |-> entry[t].version,
                                         tags |-> entry[t].tags]]
       /\ removed' = [removed EXCEPT ![t] = IF k \in Live THEN {EntryOf(k)} ELSE {}]
       /\ Then(t, IF k \in Live THEN <<"claim">> ELSE <<>>)
    /\ UNCHANGED <<index, nextVersion, memory, observer, ledger, guard, entry,
                   ticket, seen, scan>>

RegisterEntry(t) ==
    /\ At(t, "register")
    /\ index' = Register(index, entry[t].key, entry[t].tags, entry[t].version)
    /\ Then(t, <<>>)
    /\ UNCHANGED <<store, nextVersion, memory, observer, ledger, locals>>

\* A bug: the new entry is counted only if no later one was numbered.
CountNewest(t) ==
    /\ At(t, "count")
    /\ counter' = IF nextVersion = entry[t].version + 1 THEN counter + 1 ELSE counter
    /\ entry' = [entry EXCEPT ![t] = NoTicket]
    /\ Then(t, <<>>)
    /\ UNCHANGED <<cache, faulted, lost, observer, ledger, guard, ticket, removed,
                   seen, scan>>

\* memory.insert.
CountEntry(t) ==
    /\ At(t, "count")
    /\ counter' = counter + 1
    /\ entry' = [entry EXCEPT ![t] = NoTicket]
    /\ Then(t, <<>>)
    /\ UNCHANGED <<cache, faulted, lost, observer, ledger, guard, ticket, removed,
                   seen, scan>>

\* The end of a call releases its mutation guard.
End(t) ==
    /\ At(t, "end")
    /\ guard' = [guard EXCEPT ![t] = FALSE]
    /\ Then(t, <<>>)
    /\ UNCHANGED <<cache, memory, observer, ledger, entry, ticket, removed, seen,
                   scan>>

-----------------------------------------------------------------------------
\* RemovalObserver::observe, called once for each entry that left the store.

\* A version claims its slot.  Versions are unique, so the slot never holds the
\* version already; a report that finds another version there goes on without.
ObserveClaim(t, r) ==
    /\ At(t, "claim") /\ r \in removed[t]
    /\ LET free == slot[SlotOf(r.version)] = 0
           more == IF removed[t] # {r} THEN <<"claim">> ELSE <<>> IN
       \/ /\ free
          /\ slot' = [slot EXCEPT ![SlotOf(r.version)] = r.version]
          /\ ticket' = [ticket EXCEPT ![t] = r]
          /\ Then(t, <<"subtract", "accept", "push">> \o more)
       \/ /\ ~free
          /\ Then(t, <<"mark", "subtract", "accept">> \o more)
          /\ UNCHANGED <<slot, ticket>>
    /\ removed' = [removed EXCEPT ![t] = @ \ {r}]
    /\ UNCHANGED <<cache, memory, queue, sequence, flags, ledger, guard, entry,
                   seen, scan>>

\* dirty.store(true): no slot, no room in the queue, or a slot taken over.
MarkDirty(t) ==
    /\ At(t, "mark")
    /\ dirty' = TRUE
    /\ Then(t, <<>>)
    /\ UNCHANGED <<cache, memory, cleanup, sequence, draining, ledger, locals>>

\* memory.mutation and memory.remove.
ObserveSubtract(t) ==
    /\ At(t, "subtract")
    /\ counter' = counter - 1 /\ faulted' = (faulted \/ counter < 1)
    /\ Then(t, <<>>)
    /\ UNCHANGED <<cache, lost, observer, ledger, locals>>

\* The report goes on to push a ticket, because it has its slot.
HasSlot(t) == Len(plan[t]) > 1 /\ plan[t][2] = "push"

\* accept_one.
ObserveAccept(t) ==
    /\ At(t, "accept")
    /\ accepted' = accepted + 1
    /\ unticketed' = IF HasSlot(t) THEN unticketed ELSE unticketed + 1
    /\ Then(t, <<>>)
    /\ UNCHANGED <<cache, memory, cleanup, acknowledged, flags, overtaken, noted,
                   locals>>

\* A bug: the queue is taken to have room for every report that has a slot.
ObservePushUnbounded(t) ==
    /\ At(t, "push")
    /\ queue' = Append(queue, ticket[t])
    /\ ticket' = [ticket EXCEPT ![t] = NoTicket]
    /\ Then(t, <<>>)
    /\ UNCHANGED <<cache, memory, slot, sequence, flags, ledger, call, seen>>

\* queue.push of the ticket, unless the queue is full.
ObservePush(t) ==
    /\ At(t, "push")
    /\ \/ /\ Len(queue) < Capacity
          /\ queue' = Append(queue, ticket[t])
          /\ Then(t, <<>>) /\ UNCHANGED unticketed
       \/ /\ Len(queue) >= Capacity
          /\ unticketed' = unticketed + 1
          /\ Then(t, <<"mark">>) /\ UNCHANGED queue
    /\ ticket' = [ticket EXCEPT ![t] = NoTicket]
    /\ UNCHANGED <<cache, memory, slot, sequence, flags, overtaken, noted, call,
                   seen>>

-----------------------------------------------------------------------------
\* RemovalObserver::drain.

DrainLoad(t) ==
    /\ At(t, "drain")
    /\ seen' = [seen EXCEPT ![t] = accepted]
    /\ Then(t, <<"compare">>)
    /\ UNCHANGED <<cache, memory, observer, ledger, call, ticket>>

\* Nothing to acknowledge: return at once.
DrainCompare(t) ==
    /\ At(t, "compare")
    /\ Then(t, IF seen[t] = acknowledged THEN <<>> ELSE <<"take">>)
    /\ seen' = [seen EXCEPT ![t] = 0]
    /\ UNCHANGED <<cache, memory, observer, ledger, call, ticket>>

\* try_claim_drain: another caller drains, or this one does.
DrainTake(t) ==
    /\ At(t, "take")
    /\ Then(t, IF draining THEN <<>> ELSE <<"pop">>)
    /\ draining' = TRUE
    /\ UNCHANGED <<cache, memory, cleanup, sequence, dirty, ledger, locals>>

DrainPop(t) ==
    /\ At(t, "pop")
    /\ \/ /\ queue = <<>>
          /\ Then(t, <<"release">>) /\ UNCHANGED <<queue, ticket>>
       \/ /\ queue # <<>>
          /\ ticket' = [ticket EXCEPT ![t] = Head(queue)]
          /\ queue' = Tail(queue)
          /\ Then(t, <<"unregister">>)
    /\ UNCHANGED <<cache, memory, slot, sequence, flags, ledger, call, seen>>

DrainUnregister(t) ==
    /\ At(t, "unregister")
    /\ index' = UnregisterIfVersion(index, ticket[t].key, ticket[t].tags,
                                    ticket[t].version)
    /\ Then(t, <<"acknowledge">>)
    /\ UNCHANGED <<store, nextVersion, memory, observer, ledger, locals>>

\* acknowledge_one.
DrainAcknowledge(t) ==
    /\ At(t, "acknowledge")
    /\ acknowledged' = acknowledged + 1
    /\ Then(t, <<"free">>)
    /\ UNCHANGED <<cache, memory, cleanup, accepted, flags, ledger, locals>>

\* The ticket's slot is free again, unless it is not the ticket's any more.
DrainFree(t) ==
    /\ At(t, "free")
    /\ LET held == slot[SlotOf(ticket[t].version)] = ticket[t].version IN
       \/ /\ held
          /\ slot' = [slot EXCEPT ![SlotOf(ticket[t].version)] = 0]
          /\ Then(t, <<"pop">>)
       \/ /\ ~held
          /\ Then(t, <<"mark", "pop">>) /\ UNCHANGED slot
    /\ ticket' = [ticket EXCEPT ![t] = NoTicket]
    /\ UNCHANGED <<cache, memory, queue, sequence, flags, ledger, call, seen>>

\* The drop of the DrainGuard.
Release(t) ==
    /\ At(t, "release")
    /\ draining' = FALSE
    /\ Then(t, <<>>)
    /\ UNCHANGED <<cache, memory, cleanup, sequence, dirty, ledger, locals>>

-----------------------------------------------------------------------------
\* The other calls that take entries out of the store.

\* remove, invalidate_key and each key of a tag: remove_with_event.
Remove(t, k) ==
    /\ "remove" \in Calls /\ Idle(t)
    /\ index' = Memberships(AdvanceKey(index, k))
    /\ guard' = [guard EXCEPT ![t] = TRUE]
    /\ entry' = [entry EXCEPT ![t] = [NoTicket EXCEPT !.key = k]]
    /\ plan' = [plan EXCEPT ![t] = <<"get", "invalidate", "drain", "end">>]
    /\ UNCHANGED <<store, nextVersion, memory, observer, ledger, ticket, removed,
                   seen, scan>>

RemoveGet(t) ==
    /\ At(t, "get")
    /\ IF entry[t].key \in Live THEN Then(t, <<>>)
                                ELSE plan' = [plan EXCEPT ![t] = <<"end">>]
    /\ entry' = IF entry[t].key \in Live THEN entry ELSE [entry EXCEPT ![t] = NoTicket]
    /\ UNCHANGED <<cache, memory, observer, ledger, guard, ticket, removed, seen,
                   scan>>

\* The entries of K leave the store and are reported by the caller.
TakeOut(t, K) ==
    /\ store' = [k \in Keys |-> IF k \in K THEN NoEntry ELSE store[k]]
    /\ removed' = [removed EXCEPT ![t] = {EntryOf(k) : k \in K \cap Live}]
    /\ UNCHANGED <<nextVersion, memory, observer, ledger, ticket, seen, scan>>

Reports(K) == IF K \cap Live # {} THEN <<"claim">> ELSE <<>>

\* remove_entry: store.invalidate, then the drain.
RemoveStore(t) ==
    /\ At(t, "invalidate")
    /\ TakeOut(t, {entry[t].key})
    /\ Then(t, Reports({entry[t].key}))
    /\ entry' = [entry EXCEPT ![t] = NoTicket]
    /\ UNCHANGED <<index, guard>>

\* The store's own maintenance, run inside some caller's access, removes an
\* expired entry or makes room.
Evict(t, k) ==
    /\ "evict" \in Calls /\ Idle(t) /\ k \in Live
    /\ TakeOut(t, {k})
    /\ plan' = [plan EXCEPT ![t] = <<"claim">>]
    /\ UNCHANGED <<index, guard, entry>>

\* flush_with_origin: empty the store, drain, clear the index, reset.
Flush(t) ==
    /\ "flush" \in Calls /\ Idle(t)
    /\ TakeOut(t, Keys)
    /\ guard' = [guard EXCEPT ![t] = TRUE]
    /\ plan' = [plan EXCEPT ![t] = Reports(Keys) \o <<"drain", "clear", "reset", "end">>]
    /\ UNCHANGED <<index, entry>>

FlushClear(t) ==
    /\ At(t, "clear")
    /\ index' = Memberships(Clear(index))
    /\ Then(t, <<>>)
    /\ UNCHANGED <<store, nextVersion, memory, observer, ledger, locals>>

-----------------------------------------------------------------------------
\* RemovalObserver::reset_after_reconcile.  The drain flag keeps other drains and
\* resets out, but no report.

\* A bug: the reset does not wait for the caller that drains.
ResetUnclaimed(t) ==
    /\ At(t, "reset")
    /\ draining' = TRUE
    /\ Then(t, <<"discard">>)
    /\ UNCHANGED <<cache, memory, cleanup, sequence, dirty, ledger, locals>>

\* claim_drain.
ResetClaim(t) ==
    /\ At(t, "reset") /\ ~draining
    /\ draining' = TRUE
    /\ Then(t, <<"discard">>)
    /\ UNCHANGED <<cache, memory, cleanup, sequence, dirty, ledger, locals>>

\* The tickets are popped until there are none.
ResetDiscard(t) ==
    /\ At(t, "discard")
    /\ \/ /\ queue = <<>>
          /\ Then(t, <<"zero">>) /\ UNCHANGED <<queue, unticketed>>
       \/ /\ queue # <<>>
          /\ queue' = Tail(queue)
          /\ unticketed' = unticketed + 1
          /\ UNCHANGED plan
    /\ UNCHANGED <<cache, memory, slot, sequence, flags, overtaken, noted, locals>>

\* One slot after the other is zeroed.
ResetZero(t) ==
    /\ At(t, "zero")
    /\ slot' = [slot EXCEPT ![seen[t]] = 0]
    /\ LET last == seen[t] = Capacity - 1 IN
       /\ seen' = [seen EXCEPT ![t] = IF last THEN 0 ELSE @ + 1]
       /\ Then(t, IF last THEN <<"load">> ELSE <<"zero">>)
    /\ UNCHANGED <<cache, memory, queue, sequence, flags, ledger, call, ticket>>

\* The accepted removals that are still to be acknowledged: their tickets are
\* about to be queued, queued, or taken off the queue by a drain.
Pending ==
    Len(queue) + Cardinality({t \in Tasks : At(t, "push") \/ At(t, "unregister")
                                              \/ At(t, "acknowledge")})

ResetLoad(t) ==
    /\ At(t, "load")
    /\ seen' = [seen EXCEPT ![t] = accepted]
    /\ noted' = [tickets |-> Pending, unticketed |-> unticketed]
    /\ Then(t, <<"store">>)
    /\ UNCHANGED <<cache, memory, observer, unticketed, overtaken, call, ticket>>

\* All removals accepted before the load count as acknowledged, also the ones
\* whose tickets the reset did not find in the queue.
ResetStore(t) ==
    /\ At(t, "store")
    /\ acknowledged' = seen[t]
    /\ unticketed' = unticketed - noted.unticketed
    /\ overtaken' = noted.tickets
    /\ noted' = [tickets |-> 0, unticketed |-> 0]
    /\ seen' = [seen EXCEPT ![t] = 0]
    /\ Then(t, <<"clean">>)
    /\ UNCHANGED <<cache, memory, cleanup, accepted, flags, call, ticket>>

ResetClean(t) ==
    /\ At(t, "clean")
    /\ dirty' = FALSE
    /\ Then(t, <<"release">>)
    /\ UNCHANGED <<cache, memory, cleanup, sequence, draining, ledger, locals>>

\* reconcile_memory_footprint: walk the store, rebuild the memberships, reset.
Reconcile(t) ==
    /\ "reconcile" \in Calls /\ Idle(t)
    /\ plan' = [plan EXCEPT ![t] = <<"drain", "scan", "reindex", "reset">>]
    /\ UNCHANGED <<cache, memory, observer, ledger, locals>>

ReconcileScan(t) ==
    /\ At(t, "scan")
    /\ scan' = [scan EXCEPT ![t] = store]
    /\ Then(t, <<>>)
    /\ UNCHANGED <<cache, memory, observer, ledger, guard, entry, ticket, removed,
                   seen>>

Reindex(t) ==
    /\ At(t, "reindex")
    /\ index' = ReconcileMemberships(index, [k \in Keys |-> scan[t][k].version],
                                     [k \in Keys |-> scan[t][k].tags])
    /\ scan' = [scan EXCEPT ![t] = [k \in Keys |-> NoEntry]]
    /\ Then(t, <<>>)
    /\ UNCHANGED <<store, nextVersion, memory, observer, ledger, guard, entry,
                   ticket, removed, seen>>

\* The points at which a caller is suspended on a lock of the store or index, or
\* on the drain flag.
Awaits == {"unregister", "insert", "register", "get", "invalidate", "clear",
           "reset", "reindex"}

\* The caller's future is dropped: its guards are released, a ticket it had taken
\* off the queue is gone.
Cancel(t) ==
    /\ \E point \in Awaits : At(t, point)
    /\ plan' = [plan EXCEPT ![t] = <<>>]
    /\ draining' = (draining /\ ~At(t, "unregister"))
    /\ unticketed' = IF At(t, "unregister") THEN unticketed + 1 ELSE unticketed
    /\ guard' = [guard EXCEPT ![t] = FALSE]
    /\ entry' = [entry EXCEPT ![t] = NoTicket]
    /\ ticket' = [ticket EXCEPT ![t] = NoTicket]
    /\ scan' = [scan EXCEPT ![t] = [k \in Keys |-> NoEntry]]
    /\ lost' = IF At(t, "register") THEN lost + 1 ELSE lost
    /\ UNCHANGED <<cache, counter, faulted, cleanup, sequence, dirty, overtaken,
                   noted, removed, seen>>

Start(t) ==
    \/ \E k \in Keys, T \in TagSets : Put(t, k, T)
    \/ \E k \in Keys : Remove(t, k) \/ Evict(t, k)
    \/ Flush(t) \/ Reconcile(t)
Observe(t) ==
    \/ \E r \in removed[t] : ObserveClaim(t, r)
    \/ MarkDirty(t) \/ ObserveSubtract(t) \/ ObserveAccept(t) \/ ObservePush(t)
Drain(t) ==
    \/ DrainLoad(t) \/ DrainCompare(t) \/ DrainTake(t) \/ DrainPop(t)
    \/ DrainUnregister(t) \/ DrainAcknowledge(t) \/ DrainFree(t) \/ Release(t)
ResetAfterReconcile(t) ==
    \/ ResetClaim(t) \/ ResetDiscard(t) \/ ResetZero(t) \/ ResetLoad(t)
    \/ ResetStore(t) \/ ResetClean(t)
Step(t) ==
    \/ TakeVersion(t) \/ Insert(t) \/ RegisterEntry(t) \/ CountEntry(t) \/ End(t)
    \/ Observe(t) \/ Drain(t) \/ ResetAfterReconcile(t)
    \/ RemoveGet(t) \/ RemoveStore(t) \/ FlushClear(t)
    \/ ReconcileScan(t) \/ Reindex(t)

Next == \/ \E t \in Tasks : Start(t) \/ Step(t)
        \/ \E t \in Dropped : Cancel(t)

Spec == Init /\ [][Next]_vars

-----------------------------------------------------------------------------
\* The observer's ensure_clean.
Clean == ~dirty /\ accepted = acknowledged

\* The conditions under which capture labels a snapshot exact.  observe holds a
\* mutation guard of its own from the subtraction to its end.
SnapshotIsExact ==
    Clean /\ ~faulted
    /\ \A t \in Tasks : ~guard[t] /\ ~At(t, "accept") /\ ~At(t, "push")

\* The removals that the store made and that are not subtracted yet.
Unreported ==
    MapThenSumSet(LAMBDA t : Cardinality(removed[t])
                             + IF \E i \in DOMAIN plan[t] : plan[t][i] = "subtract"
                               THEN 1 ELSE 0,
                  Tasks)

\* A snapshot labelled exact counts the entries that the store holds and the
\* removals it has yet to report, but for the puts that were dropped between the
\* store's insert and memory.insert (put_bytes_unchecked): each of them is
\* missing from the counter for good.
ExactUpToDroppedPuts ==
    SnapshotIsExact => counter + lost = Cardinality(Live) + Unreported

\* The two sequence counters differ by the removals that still wait for the
\* drain and the ones that lost their ticket, minus the ones that a racing reset
\* acknowledged in advance.  So as long as no reset ran into a report, the two
\* are equal (ensure_clean) only if every accepted removal was seen to.
LedgerBalances ==
    accepted + overtaken = acknowledged + Pending + unticketed
=============================================================================
