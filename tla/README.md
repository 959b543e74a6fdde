# HydraCache in TLA+

HydraCache is a tag-aware async cache for Rust: an in-process cache (moka store,
tag index, single-flight loading), an invalidation bus between processes, a
cluster whose membership is replicated with raft-rs, a data grid on top of it,
and adapters (databases, Redis, HTTP, Kubernetes). This directory holds TLA+
models of its state machines, TLC configurations that check them on small
instances, and TLAPS proofs of the most important invariants for every instance.
`PROJECT.json` lists the components, the runs, the definition-to-source map, the
hazards, the findings and the theorems.

To parse, check or prove: `tlasany M.tla`, `tlc -workers 2 -config X.cfg M`,
`tlapm XProofs.tla` for the modules named `...Proofs`.

## 1. The system and its parts

| Part (crates/...) | State | Operations that change it | What is hard about it |
|---|---|---|---|
| Local cache, `hydracache/src/cache.rs` | moka store, version counter | get, put, get_or_load, refresh, remove, invalidate_tag, flush; eviction, expiry | every call awaits several locks; a caller may be dropped at each of them |
| Tag index, `tag_index.rs` | key sets per tag, key/tag/global generations | register, unregister, take_tag, advance_key, clear, rotate | counters forgotten when tombstones exceed their bound |
| Single flight, `inflight.rs` | load per key, waiter counts | join, insert, finish, drop of a handle, spawned cleanup | join, replacement and cleanup race; nobody polls a load without a waiter |
| Load breaker, `load_breaker.rs` | breaker per key, bounded registry | before_load, after_load_result, prune | half-open marks, late failures, full registry |
| Removal observer and footprint, `removal_observer.rs`, `memory_footprint.rs` | bounded ticket queue, version slots, counters, dirty mark | observe, drain, reset, reconcile, guard | reports arrive later than the writes that follow them; overflow; dropped callers |
| Invalidation bus and relay, `invalidation_bus.rs`, `invalidation_transport.rs`, `grid/invalidation_ring.rs` | broadcast channel, outbound and inbound queues, dedup window, source generations, replay ring | publish, the relay's five loops, listen, lag, resume, respawn | lost, repeated, echoed and reordered frames, a lagging listener, replays that overflow the queue they fill |
| Membership image, `cluster/control_plane.rs`, `cluster/membership.rs` | members, clients, epoch, topology stamp | join, leave, replace | stale generations, decisions taken under an older stamp |
| Raft metadata runtime, `hydracache-cluster-raft/src/lib.rs` | log, applied ids, envelopes, indices, snapshot | propose, commit, apply, compact, install, restart | duplicates, crash between two durable steps, three ways of applying a command |
| Raft log store, `log_store.rs` | segments, hard state, snapshot | append, compact, recover | torn files |
| Cluster lifecycle, ownership, peer fetch | discovered candidates, owners | admit, fetch, hand over | stale ownership |
| Grid: fenced locks, `grid/conditional.rs`, `grid/lock_session.rs`, and the client lock service, `hydracache-client-transport-axum` | holds with owner, fence, count and deadline; heartbeats; logical clock | acquire, re-enter, renew, release, force, sweep, reset, validate | a holder that comes back late, a clock that only commands move |
| Grid: conditional writes, `grid/conditional.rs` | versions, tombstone watermark | compare-and-set, replicate, collect | lost updates |
| Grid: durable tier, `grid/durability.rs`, `durable_store.rs`, `mod.rs` | tree, write-behind queue, byte count, tombstone tracker | write, drain, admit, confirm, collect, reopen | failed flush, crash with a queue, late writes after a tombstone |
| Grid: checkpoint, recovery, scrub | files, manifests | checkpoint, scrub, recover | crash between two files |
| Grid: elasticity | partition moves | the phases of a move | failure in the middle of a move |
| Grid: hinted handoff, merkle repair | hint queue with a budget | store, expire, replay, repair | values brought back by repair |
| Grid: sessions, causal order, CRDTs | vectors, replicas | read, write, merge | session guarantees over stale replicas |
| Grid: regions, failure detector | epochs, suspicion | fail over, beat | two regions that both believe they lead |
| Database outbox, `hydracache-db/src/outbox.rs` | outbox rows | enqueue, claim, deliver, retry, dead-letter | crash between delivery and acknowledgement |
| HC2 client | connection generation, subscriptions | call, reconnect, repair | retry of what was done, late answers |
| Multitenancy | quotas | admit, release | accounting at the limit |
| Operator | replica counts | scale, upgrade | membership change during a rollout |
| Core types, macros, lint, Redis parser, observability, simulators, SDKs | none of their own | | pure or reporting; not modelled |

The local parts interact inside `get_or_load`: a miss takes a generation snapshot
from the tag index, asks the single-flight map for a load to join, asks the
breaker whether a new one may start, registers it, runs the loader, checks the
snapshot against the index, writes the store and the index, and leaves the map.
Invalidations advance generations in the index, take a key set from it and remove
the entries; with instrumentation on, the store reports every removed entry to
the observer, whose tickets are drained by the next caller. The cluster parts
interact through committed commands: a runtime checks its image, proposes, and
every runtime applies the committed order to its own image, from entries, from a
snapshot or from its durable state after a restart. Between processes an
invalidation travels from a cache through its bus, its relay and an external
transport to the relays, buses and caches of the others; an invalidation that must
not be lost with its writer goes through the database outbox instead.

## 2. Modules and how they follow the code

The Rust code holds no lock across an `await`. A method is therefore split at its
awaits: each stretch between two of them is one action, and any other actor may
act in between. Values, payloads, statistics, events and logging are abstracted
away; control, order, guards and early returns are kept.

**`TagIndex`** is the index as operators on a record (`generations`,
`keyGenerations`, `global`, the memberships): one operator per method of
`tag_index.rs`, each atomic because the method runs under one lock.
`MaxTombstones` is the code's bound on remembered generations, beyond which
`RotateGenerationEpoch` advances the global counter and forgets the others.

**`LocalCache`** is one cache in its default build. Actors are the calling tasks
and the load futures. `pc` says where an actor is; `ctx`, `snap`, `todo`, `after`
and `joined` are the locals of the running call. A load future has no task of its
own: `Runnable(l)` says that it advances only while a handle is alive, as
`SharedLoadHandle::poll` does. The store's actions are `WriteGetOld`,
`WriteUnregister`, `WriteInsert`, `WriteRegister` (put_bytes_unchecked);
`SnapshotGeneration`, `GetCurrent`, `InsertOrGetCurrent`, `AwaitLoad`
(shared_load); `LoaderReturns`, `CheckFresh`, `SkipOversize`, `FinishLoad` (the
load future); `InvalidateKey`, `InvalidateTag`, `NextKey`, `RemoveGet`,
`RemoveStore`, `RemoveUnregister`, `Flush`, `FlushClear`; `RemoveIfIdle` is the
cleanup a dropped handle spawns, `Cancel` is the drop of a call at an await and
`Evict` is moka's own removal (external). When an entry expires is left open:
"expire" and "load_expired" are calls that find the present entry expired.
`superseded`, `outdated` and `seen` are history variables.

**`LoadBreaker`** is the registry of breakers with the part of `shared_load` that
consults it. Instants are ages up to the largest value the code compares them
with. Here a key's load generation is one number, and the map slot of a load
without waiters counts as empty (the code's spawned cleanup is in `LocalCache`).

**`RemovalObserver`** is the cache with memory instrumentation on. A caller's
remaining program points are a sequence (`plan`), because drain, report and reset
are called from several places. The observer's atomics are shared by threads
without a lock, so here a stretch between two awaits is not one action: every load,
store, exchange, push and pop of `observe`, `drain` and `reset_after_reconcile` is a
step, interleaved as if the atomics were sequentially consistent. One entry counter
stands for the eight counters that move together. `capture` and `ensure_clean` are
predicates on a state (`SnapshotIsExact`, `Clean`): their sequences of atomic loads
are taken as one step. Three history variables keep the account of the tickets:
`unticketed` counts accepted removals that no ticket stands for any more (no slot, no
room, a dropped drain, a reset that popped it), `overtaken` the tickets that a reset
acknowledged although they were not in its queue yet, and `noted` what a reset in
progress saw at its load.

**`ClusterMembership`** is the image of members and clients as operators on a
record; **`RaftMetadata`** is a set of runtimes that share a committed log.
raft-rs is external: one log that never changes, a set of proposals that may be
lost, repeated and reordered (`Commit`, `Lose`), and for each runtime the position
up to which a `Ready` handed committed entries over. `MaterializeCommitted`,
`MaterializeSnapshot` and `Recover` are the code's three ways of applying a
command. A crash may happen at any point, also inside `InstallSnapshot` between
the saved snapshot and the published image.

**`FencedMutex`** is what a fenced lock promises, in two actions: holders lapse, or
holders lapse and one owner is granted a key with a token above all earlier ones.
**`FencedLock`** is the lock table of `SingleKeyConditionalStore`. Its methods are
operators on the table (`TryAcquireLock`, `RenewLease`, `ReleaseLock`,
`ExpireDue`, `ExpireLostSessions`, ...), so that a command of the client service is
what it is in the code: tick, sweep, operation. `surface` says who drives the
table. An embedder passes the time of each call, and not always a later one; the
service's clock moves by one per command. `written` and `presented` are history:
the last token a guarded resource accepted, and the tokens callers may present,
late or to the wrong key. The service's compare-and-set commands tick and sweep
like an unlock that fails. `Mutex` instantiates `FencedMutex` with the owners and
fences of the table and the last fence handed out.

**`Outbox`** is the table of outbox rows, its workers and a writer's wait. Each
database statement is one step; the application of an invalidation is a step
between claim and mark, and a worker may stop before any of them. The worker's
copies of the rows it claimed are kept, because the copy's attempts decide on a dead
letter. Times are what remains of a claim or a delay.

**`InvalidationRing`** is the ring of recent invalidations as operators on a record,
and **`InvalidationRelay`** composes it with the broadcast bus, the five loops of a
relay and the listener of the cache, for a set of processes. Each action is what
one loop does between two awaits. The external transport (`wire`) may fail a
publish, return a frame to its sender, deliver in any order and twice, garble a
frame, or report an error that loses what it held. An embedder feeds the ring; the
model lets it mirror the other nodes' invalidations at once. `Respawn` is a relay
that ended and was started again, in the same process or in a new one. Frames of
other clusters or versions are not on this wire, and the bus is never closed.

**`DurableTier`** is the durable write path of a node with its store and its
tombstone tracker. sled is external: the tree the process sees, and the one that
survives. Every change of the tree ends in a flush that may fail; `Crash` keeps, per
key, what was flushed or what was written since, empties queue and tracker, and
counts the budget anew. The order write, admit, confirm, collect is the one of
`tests/durable_maintenance.rs`.

The `MC...` modules add model values, tag choices and symmetry sets only.
Symmetry is used for caller names in runs without liveness properties.

## 3. Runs

| Run | Checks | Shows |
|---|---|---|
| `fence` | `SupersededIsFenced`, `NoStaleJoin` | the generation fence of ADR-0014 under key and tag invalidations and epoch rotations |
| `flight` | `SingleFlight`, `NoLeakedInflight`, `EveryCallReturns` | sharing, refreshing, replacing and dropping loads of one key |
| `tags` | `TypeOK`, `TagInvalidationRemovesSeen` | a tag invalidation over two keys against puts, loads, expired reads, evictions and flushes |
| `stale` | `NoStaleEntryWhenQuiet` violated | a superseded load is stored after its freshness check |
| `budget` | `TypeOK`, `WithinBudget`, `OpenAfterStreak`, `OpenSurvives` | the breaker registry at its limit |
| `ledger` | `TypeOK`, `ExactUpToDroppedPuts`, `LedgerBalances` | the accounting of removals, one atomic operation at a time, with dropped callers and resets that run into reports |
| `recover` | `TypeOK`, `SameViewBeforeCrash`, `StagedViewIsLiveView`, `CommandsAreUnique`, `AppliedIsKnown`, `StampFencesMembers` | entries and snapshots lead to one view until a crash; compaction, crash and restart forget and repeat nothing |
| `replay` | `SameIndexSameView` violated | recovery materializes a duplicate that the running node skipped |
| `locks` | `TypeOK`, `HoldersAreReclaimable`, `IsFencedMutex`, `WritesAreFenced`, `LeaseIsKept`, `RetryingClientIsServed` | the lock table refines the fenced mutex under both surfaces; a lease ends at its deadline; a silent holder does not block a client that retries |
| `outbox` | `TypeOK`, `SatisfiedMeansApplied`, `RowsDrain` | overlapping workers, crashes, dead letters: read-your-writes, and no stranded row |
| `relay` | `TypeOK`, `LossIsCounted`, `NoAmplification`, `RingReplayIsExact`, `ComesToRest` | full queues and a faulty transport: every loss is counted, nothing echoes, replays hide no gap, and the loops come to rest |
| `durable` | `TypeOK`, `AcceptedIsKept`, `LossIsBounded`, `BudgetIsExact`, `DebtIsExact`, `ValuesOnlyRise` | failed flushes and crashes: acknowledged writes are kept, the loss is within the lag bound, a value is only replaced by a newer record |

Sizes in distinct states: `ledger` 1,076,648, `recover` 892,582, `relay` 653,666, `outbox` 414,266,
`durable` 345,827, `locks` 26,085; each takes between half a minute and two minutes.

**Bounds.** They cut calls before they start, never in the middle, so a call that
began always runs to its end.

- `MaxLoads` load futures. Two are enough for a load to be superseded, replaced,
  abandoned or joined by another caller. A cleanup that overtakes two later loads
  needs three; `InflightMapIsClean`, `SharedLoadsAreFresh` and `OneFlight` are
  proved for any number.
- `MaxGeneration` invalidations and flushes (no call starts above it), with
  `MaxTombstones = 1`, so that the second key's or tag's record already rotates
  the epoch. In `fence`, `OnlyK1` lets loads use one key while invalidations
  reach both.
- `MaxVersion` entry versions: an entry and its successor. With `Capacity = 1` in
  `ledger`, the removal of the second finds the slot or the queue taken by the
  first. The entries of `ledger` all have the one tag (`TagSets`).
- Two callers: each hazard of the local cache is a race of two calls, and a third
  is played by the load futures, evictions and cleanups.
- `Threshold = 3` with `MaxTracked = 1` and two keys: a failing key meets a full
  registry both with an open and with a closed breaker in it. Which of several closed
  breakers goes first is not exercised, as there is room for one only; the proofs are
  for every `MaxTracked`. The backoff doubles twice (1, 2, 4).
- `MaxLog = 3` commands, one name: join, leave and a repeated or older join fit.
  Two runtimes are enough to compare. `MaxCalls` is the number of calls between
  their check and their proposal.
- `Joins`: the joins callers make. `recover` has a client that an older member of
  the same name follows, so that a command fails to materialize in the middle of a
  batch. Both runtimes crash; one of them compacts, so the other installs its
  snapshots and can crash in the middle of that.
- `locks`: four calls besides the waiter's retries, which are not bounded; two keys
  and two sessions, so that a session keeps one key when it loses the other; leases
  of 1 and 2 ticks and times 0 and 1, so that a lease can be live, due and lapsed;
  two re-entries; any silence loses a session.
- `outbox`: one transaction with two rows, two workers with different limits (1 and
  2 attempts), so that one gives up on a row that the other retries; one stop and
  one reset.
- `relay`: every capacity is 1, so each push into a used queue drops; three
  invalidations overwrite the ring twice, and the third frame meets the rate limit;
  one fault of any kind. Only one node publishes.
- `durable`: one synchronous key and two asynchronous ones with different bounds,
  a budget of two values, room for one tracked tombstone, scans of two records;
  two faults, so that a crash can follow a failed flush.
- Deadlock is checked except where the system may really stop: a raft log that is
  full, bounded lock calls that are used up, an outbox without open rows, and a
  relay at rest.

**Fairness.** `LocalCache`: weak fairness of every task's own steps, of every load
and of every spawned cleanup: tokio polls what is ready, and the loader is assumed
to return. Starting a call and dropping one are not fair.
`FencedLock`: weak fairness of the waiter's retry, which is what the property is
about; nobody else has to call. `Outbox`: time passes, and a worker that is not
stopped goes on and claims again (run_once is called in a loop); weak fairness is
enough, since a claimable row stays claimable until a worker takes it.
`InvalidationRelay`: some ready loop runs; no loop in particular. `LoadBreaker`,
`RemovalObserver` and `DurableTier` state safety only, and so does `RaftMetadata`:
whether a command commits is raft-rs' business.

## 4. Findings

1. `stale`: `put_bytes_if_fresh` (cache.rs:1843) checks the snapshot and then
   writes over several awaits. A tag invalidation in between finds the key not
   registered and the load already checked, so the old value stays in the cache.
   The comment of `invalidate_tag` promises that such a load is not stored.
2. `replay`: recovery (hydracache-cluster-raft, lib.rs:1409) materializes before it
   looks at the id, the apply loop after. A committed log join, leave, join of one
   id gives a restarted runtime a member that the others do not have.

## 5. Proofs

Each theorem holds for every value of the constants that the assumptions below
allow. The modules named `...Proofs` have one lemma, or one step of the proof, per
action, over lemmas about the operators the action is made of. An invariant that is
not inductive has a strengthening, which TLC checked on the run's instance before it
was proved.

`LocalCacheProofs`, for every set of tasks, keys and tags, every number of loads and
generations:

- `Types`: `Spec => []TypeOK`. Inductive as it stands.
- `Fence`: `Spec => []SupersededIsFenced`. "Not current" is not inductive: a
  rotation resets counters, and a snapshot could come to match again. The
  strengthening `FenceInvariant` says that no snapshot is ahead of the index and
  that a superseded one is behind in a counter it holds: the global one, or that
  of its key or a tag. Counters only grow while the global one stays, and a
  rotation advances the global one.
- `SharedLoadsAreFresh`: `Spec => []NoStaleJoin`. `JoinInvariant`: a load that was
  superseded when a task took its snapshot has another snapshot than the task, so
  `CanJoin` refuses it. It uses `FenceInvariant` (a superseded snapshot differs
  from every newly taken one) and `Bookkeeping`.
- `InflightMapIsClean`: `Spec => []NoLeakedInflight`, from `Bookkeeping`: loads not
  yet created are untouched, a task holds a handle only while it waits, and the
  map holds created loads under their own key.
- `TagInvalidationRemoves`: `Spec => []TagInvalidationRemovesSeen`. A version taken
  out must not come back, so `VersionInvariant` says that a write which has not
  reached the store yet has a version of its own, one that no entry ever had.
  `SeenInvariant` then says which entries are still stored: those of keys the
  invalidation has yet to visit, or is at.
- `OneFlight`: `Spec => []SingleFlight`. `SnapshotInvariant`: a task between its
  snapshot and its load, and every load, holds a snapshot of its own key and tags.
  `FlightInvariant`: the live load of an undisturbed key is the one in the map.
  Current snapshots of one key with one set of tags are equal (`CurrentIsTaken`), so
  a second caller can join; and a key once disturbed stays so while its load is live
  (`DisturbedStays`, from `FenceInvariant`).

`LoadBreakerProofs`, for every policy with a threshold of at least two, any keys, loads
and callers:

- `BreakerTypes`, `BreakerBudget`, `BreakerIsEarned`: `Spec => []TypeOK`,
  `[]WithinBudget`, `[]OpenAfterStreak`. The registry (`RegistryOK`) and the callers
  (`CallersOK`) are separate invariants: no step of a caller looks into an entry
  except through before_load and after_load_result.
- `OpenBreakersSurvive`: `Spec => OpenSurvives`. Pruning, by age or to make room,
  takes closed entries only (`Thinned`).

`RaftMetadataProofs`, for any runtimes, names, generations and logs of any length. One
inductive invariant, `RaftInv`: the types, and for each runtime a `Ledger` that relates
its indices, its applied ids, its envelopes and its stored snapshot to the log.

- `RaftTypes`: `Spec => []TypeOK`, with the order of the indices.
- `AppliedOnce`, `NothingForgotten`: `Spec => []CommandsAreUnique`,
  `Spec => []AppliedIsKnown`. The ledger has to say both of the envelopes in memory
  and of those in the stored snapshot, from which a restart begins.
- `StampIsAFence`: `Spec => StampFencesMembers`, from lemmas about each operation on
  the image.
- `OneViewPerIndex`, `ExportsItsView`: `Spec => []SameViewBeforeCrash`,
  `Spec => []StagedViewIsLiveView`. Both compare walks over the log, so the second
  invariant, `ViewInv`, names the images that the log builds entry by entry (`LiveTo`)
  and says that every runtime has the one of its applied index, and that its envelopes
  and its stored snapshot, if they can be staged, build the one of theirs (`Builds`).

`FencedLockProofs`, for every finite set of keys, all sessions, leases, times and any
number of calls. Each method either ends grants (`Shrinks`) or makes one (`Grants`);
one lemma per method says which. A step is therefore a shrinking followed by at most
one grant (`StepShape`), and that shape is all that the first four theorems use.

- `LockTypes`: `Spec => []TypeOK`; `Reclaim`: `Spec => []HoldersAreReclaimable`.
- `LockIsFencedMutex`: `Spec => IsFencedMutex`, the refinement. It needs that every
  fence in force is below `nextFence`, so that a fresh one is above them all.
- `FencedWrites`: `Spec => WritesAreFenced`. `LockInv` says that a resource's
  last accepted token is at most the fence of the key's hold, and below `nextFence`.
- `LeasesAreKept`: `Spec => LeaseIsKept`. `LeaseKept(k)` is what a step may do to one
  held key; the lemmas say for each method which fences it can change, and that the
  sweep before a command of the service ends every lapsed hold.

`OutboxProofs`, for any commits, targets, workers and bounds:

- `OutboxTypes`: `Spec => []TypeOK`.
- `ReadYourWrites`: `Spec => []SatisfiedMeansApplied`. Rows may go back from
  published to pending, so the argument is about the marks (`OutboxInv`): a worker
  about to publish holds a copy of a row that was applied, whatever happened to the
  row since, and a published row was applied.

`InvalidationRelayProofs`, for every capacity, any nodes, invalidations and faults:

- `RelayTypes`: `Spec => []TypeOK`: no queue, receiver or dedup window outgrows its
  capacity. `RelayInv` also says that every message on its way is a true one: it
  names an invalidation that was issued, and its source.
- `RingReplay`: `Spec => []RingReplayIsExact`, from `RingsAreShaped`: a ring holds an
  unbroken run of sequences that ends just before the next one, and its head is the
  first of them.
- `NotAmplified`: `Spec => []NoAmplification`. `EachNumbered` counts: the frames a
  relay numbered are at most the invalidations of its own cache that do not wait in
  its receiver any more, and each waits there at most once.

`InvalidationLossProofs` extends it:

- `LossCounted`: `Spec => []LossIsCounted`. `EachCounted` says the same of the places
  an invalidation may be in, queue by queue. `CountedStep` is the counting argument,
  once for all actions: a step that makes at most as many invalidations disappear as
  it adds to a counter keeps it. One lemma per action gives the invalidations it can
  lose and the counter that names them. The sum over the nodes changes by what one
  node adds (`TotalChanges`).

`DurableTierProofs`, for all keys, records, bounds and any number of faults:

- `Kept`: `Spec => []AcceptedIsKept`. The disk alone is not inductive, because the
  next flush replaces it by what the process sees; `KeptTwice` asks that both trees
  hold an accepted record, unless it is queued.
- `Rises`: `Spec => ValuesOnlyRise`, from the same types and the order that merging
  follows (`BeatsOrders`).
- `Budget`: `Spec => []BudgetIsExact`, and `WritesStayInBudget`: no write takes the
  count above the budget, and a count that a reopening found above it does not rise.
- `Debt`: `Spec => []DebtIsExact`; `Loss`: `Spec => []LossIsBounded`;
  `DurableTypesHold`: `Spec => []TypeOK`, the byte count included, from which writes
  and removals subtract.

Sums (the byte count, the counters of all nodes) and the walks over many commands
(staging a snapshot, recovery) are recursive. What the proofs need of them is shown by
induction: that a non-empty set of naturals has a least element (`Least`, from
`WFMin`), hence induction for a set of naturals or of subsets, hence that the recursive
function exists and what each of its steps keeps.

Assumptions, each in the module that declares the constants and evaluated by TLC in
the runs of that module: `LoadsAssumption` (`MaxLoads \in Nat`), `ActorsAssumption`
(task names are not numbers, as loads are), the two `KeysAssumption` (there is a key;
for the breaker, finitely many), `DroppedAssumption`, `TagChoicesAssumption`,
`TombstonesAssumption`, `PolicyAssumption`, `LogAssumption`, `GenerationAssumption`,
`LockAssumption`, `OutboxAssumption`, `RingAssumption`, `RelayAssumption` and
`DurableAssumption`: types of the constants, positive capacities, finitely many keys
and nodes, and markers (`NoFrame`, `NoRecord`, `Untracked`) that are not values.

Only model-checked:

- the liveness properties (`EveryCallReturns`, `RetryingClientIsServed`, `RowsDrain`,
  `ComesToRest`), since fairness and ENABLED are out of the prover's reach;
- `RemovalObserver` (`TypeOK`, `ExactUpToDroppedPuts`, `LedgerBalances`), whose
  account sums the plans of all callers and the queue of tickets.

## 6. Observations without a run

Reading the code for the models showed these too; the actions are in the modules,
but no run of this directory states them.

- A caller with an older snapshot can replace the load of a newer one in the map
  (inflight.rs:123), so under invalidations two loaders of one snapshot may run;
  "concurrent misses for the same key share one loader execution" (cache.rs:1177)
  holds for undisturbed keys, which is what `SingleFlight` says.
- A failure of a load admitted before the breaker opened clears the half-open mark
  of a running trial (load_breaker.rs:220), after which a second trial may start.
- A put dropped between the store's insert and the counter is missing from a
  footprint labelled exact (cache.rs:1824). `lost` counts these puts. A removal that
  the store has made and not yet reported is still counted, and nothing marks it.
  `ledger` shows that a footprint labelled exact is off by these two only.
- The drain flag keeps drains out of `reset_after_reconcile` (removal_observer.rs:157),
  but not the reports. A report that accepts its removal before the reset loads
  `accepted` and pushes its ticket after the reset emptied the queue is acknowledged
  twice: by the reset, and by the drain that pops the ticket. From the store on,
  `acknowledged` is ahead by one (`overtaken`), so the observer can be clean while a
  ticket waits or after one was lost, and unclean when nothing waits; the next reset
  ends that. The tests (removal_observer.rs:276) call this "pending cleanup fails
  closed until acknowledged", which holds as long as no reset runs into a report:
  `LedgerBalances` with `overtaken = 0`.
- A client that joins, leaves and joins again within one epoch has a second leave
  with the id of the first (lib.rs:1459), which is dropped as a duplicate.
- After a change of leader the saved snapshot still names its builder and is
  refused by followers (lib.rs:1601).
- With members and clients of one name in one log, a command of a batch can fail
  to materialize, and the rest of the batch is dropped on that runtime while its
  applied index moves on (lib.rs:2079). `skipped` collects these commands, and
  `recover` shows that no other command is forgotten.
- A name that joins as a client and as a member in one log gives different views:
  the apply loop skips an upsert that is not newer in its own role, staging does not,
  and batches end in different places on different runtimes. `SameViewBeforeCrash`
  and `StagedViewIsLiveView` are about nodes that keep to one role.
- An installed snapshot replaces the epoch of the runtime also by a lower one;
  `StampFencesMembers` leaves room for that.
- `remove_entry` (cache.rs:2036) unregisters a key's tags without looking at the
  version it removed; a put that completes between the two steps loses its tags,
  and a later `invalidate_tag` misses it.
- `before_load` marks the breaker half open (load_breaker.rs:165) and only a result
  of the trial resets the mark; a dropped trial rejects the key for ever.
- An upsert of an older generation is a recorded no-op when applied and an error
  when staged (hydracache-cluster-raft, lib.rs:1729), so that some exports cannot be
  installed.

Relay:

- Message ids start at 1 and ring sequences at 0, so a resume after the highest id
  seen (invalidation_transport.rs:836) skips the first missed event. `LossIsCounted`
  speaks of nodes without a reported error for this reason.
- A frame dropped from the outbound queue is replayed into the local inbound queue
  only; the other nodes do not get it. It is counted.
- A respawned relay numbers from 1 again, and its peers take the new frames for
  duplicates of the old ones. They count them.
- Two fallbacks to clearing at the same position have the same id, and the second is
  dropped as a duplicate. The counter behind the rate limit is never reset, and a
  frame over the limit is already in the dedup window, so its repetition is lost too.
- The cache's listener rejects a message of another generation of its source
  without counting it (cache.rs, `apply_remote_invalidation`).

Outbox:

- `mark_published` and `mark_failed` do not look at the row. A late failure sends a
  published row back to pending, or a dead one (docs/TESTING.md:1981 calls a dead
  letter terminal); a late success publishes a dead row. The attempts that decide on
  a dead letter are those of the worker's copy.
- `Outbox` is not composed with `LocalCache`: "applied" is the return of
  `invalidate_tag`, after which the race of run `stale` can still store an old value.

Locks:

- Called by an embedder, `renew_lease` and `release_lock` succeed on a lease that has
  expired and is not swept yet; the service sweeps first, which is why the second
  half of `LeaseIsKept` is about the service.

Durable tier:

- `confirm_repair` names a key, not a version (grid/mod.rs:537). A confirmation that
  comes late, or an entry that a failed removal left confirmed, lets a newer
  tombstone be collected that was not repaired.
- A confirmed tombstone is collected whatever may still be on its way. An older value
  of the key that arrives afterwards meets no tombstone, and is stored as new.
  "Tombstone GC never resurrects deleted data"
  (docs/plans/V0_55_DURABLE_STORE_HARDENING_PLAN.md:410) therefore rests on the
  confirmation being given only when no replica holds such a value; the store does
  not check it. `ValuesOnlyRise` and `AcceptedIsKept` speak of a key only until its
  tombstone is collected.
- `collect_tombstone_garbage` scans the first `max_records` keys each time; later
  tombstones wait until earlier records go.
- `drain_async` stops at a record that does not fit the budget, and everything queued
  behind it waits. The queue is shared: a namespace with a large bound can fill it
  for one with a small bound.
- Reopening counts the tree without looking at the budget, so the count may start
  above it (`WritesStayInBudget` says what is true instead).
- `would_fit` looks at the incoming record even when the merge would keep the stored,
  smaller one.

## 7. Not modelled, and the plan

Not modelled because there is no shared state to check: core types and codecs,
macros and lint, the Redis parser, HTTP routing, observability, simulators, SDKs.
chitchat, raft-rs, sled, tokio's channels and the NATS and Redis brokers are external.
The models cover a small share of a large repository: its state machines come first,
and most of its lines are adapters, reports, generated code and test support.

Left out of modelled parts: compare-and-set records, their tombstone watermark and
`apply_replicated_record`; the outbox' NoWait mode; the ring's generations and frames
of other clusters; RAM-only namespaces, snapshot manifests (kept in memory and read by
nothing); voter changes and elections.

Next, in this order; modules in parentheses:

1. Conditional writes (`ConditionalStore`), as a refinement of an atomic register.
2. Checkpoints and the recovery epoch fence, and the raft log store
   (`Checkpoint`, `RaftLogStore`), with crashes between two durable steps.
3. Hinted handoff and partition moves (`HintedHandoff`, `Elasticity`).
4. HC2 reconnection (`Reconnect`), tenant quotas, sessions and CRDT merge laws.
5. Region failover and active-active regions. `accept_local_write` inserts without a
   comparison and `reconcile_remote` does not advance the local version counter
   (grid/active_active.rs), so convergence needs a careful statement there.

Proofs next: the account of `RemovalObserver`.
