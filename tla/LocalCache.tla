----------------------------- MODULE LocalCache -----------------------------
(***************************************************************************)
(* One HydraCache instance in its default build (no memory instrumentation *)
(* and therefore no removal observer): the moka store, the tag index and   *)
(* the single-flight map of crates/hydracache/src/{cache,inflight}.rs,     *)
(* used by concurrent tasks.  The code holds no lock across an await, so   *)
(* every method is split here at its awaits; each piece is one action.     *)
(*                                                                         *)
(* Actors are the tasks that call the API and the shared load futures they *)
(* create.  A load future has no task of its own: it runs only while some  *)
(* task awaits it.  Values are not modelled; an entry carries its version, *)
(* its tags, and (history) the load that wrote it.                         *)
(***************************************************************************)
EXTENDS TagIndex, Sequences

CONSTANTS Tasks,          \* tasks that call the cache
          MaxLoads,       \* bound: load futures created
          MaxVersion,     \* bound: no put starts above this entry version
          MaxGeneration,  \* bound: no invalidation starts above this generation
          TagChoices,     \* the tag sets callers attach to each key
          Calls,          \* the calls the tasks make
          Dropped         \* the tasks whose calls may be dropped at an await

Loads == 1 .. MaxLoads
NoLoad == 0
Actors == Tasks \cup Loads

ASSUME LoadsAssumption == MaxLoads \in Nat
ASSUME ActorsAssumption == Tasks \cap Nat = {}
ASSUME KeysAssumption == Keys # {}
ASSUME DroppedAssumption == Dropped \subseteq Tasks
ASSUME TagChoicesAssumption == TagChoices \in [Keys -> SUBSET (SUBSET Tags)]

VARIABLES
    store,       \* the moka cache: an entry per key
    index,       \* TagIndex
    inflight,    \* InFlightMap.loads: the load registered for each key
    nextVersion, \* HydraCacheInner.next_entry_version
    nextLoad,    \* the next unused load future
    pc,          \* where each actor is
    ctx,         \* locals of a write or a removal: key, tags, version, old tags
    snap,        \* the generation snapshot an actor holds
    todo,        \* keys a tag invalidation still has to remove
    after,       \* the points a task goes to next, after a removal or an error
    joined,      \* the load a task awaits (its SharedLoadHandle)
    cleanups,    \* loads whose last handle was dropped: spawned remove_if_idle
    superseded,  \* history: holders of a snapshot an invalidation has covered
    outdated,    \* history: loads superseded when a task took its snapshot
    seen         \* history: entries a tag invalidation found when it began

vars == <<store, index, inflight, nextVersion, nextLoad, pc, ctx, snap, todo,
          after, joined, cleanups, superseded, outdated, seen>>
locals == <<ctx, snap, todo, after, joined, cleanups, superseded, outdated, seen>>

Entries == [version : Nat, tags : SUBSET Tags, load : Loads \cup {NoLoad}]
NoEntry == [version |-> 0, tags |-> {}, load |-> NoLoad]

NoKey == CHOOSE k \in Keys : TRUE
NoCtx == [key |-> NoKey, tags |-> {}, version |-> 0, old |-> {}]
NoSnapshot == TakeSnapshot(EmptyIndex, NoKey, {})

TaskPoints == {"idle", "get_old", "unregister", "insert", "register",
               "snapshot", "get_current", "begin", "wait", "remove_get",
               "remove_store", "remove_unregister", "next_key", "flush_clear"}
LoadPoints == {"free", "loading", "check", "get_old", "unregister", "insert",
               "register", "finish", "finish_err", "done", "failed"}

TypeOK ==
    /\ store \in [Keys -> Entries]
    /\ index \in Indexes
    /\ inflight \in [Keys -> Loads \cup {NoLoad}]
    /\ nextVersion \in Nat \ {0}
    /\ nextLoad \in 1 .. MaxLoads + 1
    /\ pc \in [Actors -> TaskPoints \cup LoadPoints]
    /\ ctx \in [Actors -> [key : Keys, tags : SUBSET Tags, version : Nat,
                           old : SUBSET Tags]]
    /\ snap \in [Actors -> Snapshots]
    /\ todo \in [Tasks -> SUBSET Keys]
    /\ after \in [Tasks -> Seq(TaskPoints)]
    /\ joined \in [Tasks -> Loads \cup {NoLoad}]
    /\ cleanups \subseteq Loads
    /\ superseded \subseteq Actors
    /\ outdated \in [Tasks -> SUBSET Loads]
    /\ seen \in [Tasks -> SUBSET (Keys \X Nat)]

Init ==
    /\ store = [k \in Keys |-> NoEntry]
    /\ index = EmptyIndex
    /\ inflight = [k \in Keys |-> NoLoad]
    /\ nextVersion = 1
    /\ nextLoad = 1
    /\ pc = [a \in Actors |-> IF a \in Tasks THEN "idle" ELSE "free"]
    /\ ctx = [a \in Actors |-> NoCtx]
    /\ snap = [a \in Actors |-> NoSnapshot]
    /\ todo = [t \in Tasks |-> {}]
    /\ after = [t \in Tasks |-> <<>>]
    /\ joined = [t \in Tasks |-> NoLoad]
    /\ cleanups = {}
    /\ superseded = {}
    /\ outdated = [t \in Tasks |-> {}]
    /\ seen = [t \in Tasks |-> {}]

-----------------------------------------------------------------------------
(* Helpers *)

\* The handles alive on a load: InFlightEntry.waiters.
Waiters(l) == {t \in Tasks : joined[t] = l}

\* A load future is polled only through a handle.
Runnable(a) == a \in Loads => Waiters(a) # {}

\* The actors whose snapshot counts: a load keeps its own after it is over, to
\* say which loads wrote what an invalidation covers.
Holding(a) == pc[a] \in {"get_current", "begin", "wait"}
                           \/ (a \in Loads /\ pc[a] # "free")

Present(k) == store[k].version # 0

\* Bounds, checked when a call starts so that no call is cut short by them.
LoadBudget ==
    nextLoad + Cardinality({t \in Tasks :
        \/ pc[t] \in {"snapshot", "get_current", "begin"}
        \/ \E i \in DOMAIN after[t] : after[t][i] = "snapshot"}) <= MaxLoads
InvalidationBudget ==
    /\ index.global < MaxGeneration
    /\ \A k \in Keys : index.keyGenerations[k] < MaxGeneration
    /\ \A t \in Tags : index.generations[t] < MaxGeneration

Goto(a, point) == pc' = [pc EXCEPT ![a] = point]

\* A bug: the cleanup is spawned only when a handle other than the last goes.
DropHandleOffByOne(t) ==
    cleanups' = IF joined[t] # NoLoad /\ Cardinality(Waiters(joined[t])) = 2
                THEN cleanups \cup {joined[t]} ELSE cleanups

\* SharedLoadHandle::drop: the last handle spawns remove_if_idle.
DropHandle(t) ==
    cleanups' = IF joined[t] # NoLoad /\ Waiters(joined[t]) = {t}
                THEN cleanups \cup {joined[t]} ELSE cleanups

\* The call of task t is over: its locals are gone and its handle is dropped.
EndCall(t) ==
    /\ Goto(t, "idle")
    /\ ctx' = [ctx EXCEPT ![t] = NoCtx]
    /\ snap' = [snap EXCEPT ![t] = NoSnapshot]
    /\ todo' = [todo EXCEPT ![t] = {}]
    /\ after' = [after EXCEPT ![t] = <<>>]
    /\ joined' = [joined EXCEPT ![t] = NoLoad]
    /\ DropHandle(t)
    /\ outdated' = [outdated EXCEPT ![t] = {}]
    /\ seen' = [seen EXCEPT ![t] = {}]

\* The next point of a call that continues after a removal or an error.
Continue(t) ==
    IF after[t] = <<>>
    THEN EndCall(t) /\ superseded' = superseded \ {t}
    ELSE /\ Goto(t, Head(after[t]))
         /\ after' = [after EXCEPT ![t] = Tail(@)]
         /\ UNCHANGED <<ctx, snap, todo, joined, cleanups, superseded, outdated,
                        seen>>

\* The holders of a snapshot that an invalidation of these keys or tags covers.
Supersede(covered) == superseded' = superseded \cup {a \in covered : Holding(a)}

-----------------------------------------------------------------------------
(* Reads and writes *)

\* get, contains_key, or the hit of a load: nothing changes.
Get(t, k) == pc[t] = "idle" /\ UNCHANGED vars

\* put: the version is taken before the first await.
Put(t, k, T) ==
    /\ pc[t] = "idle"
    /\ nextVersion <= MaxVersion
    /\ Goto(t, "get_old")
    /\ ctx' = [ctx EXCEPT ![t] = [key |-> k, tags |-> T, old |-> {},
                                  version |-> nextVersion]]
    /\ nextVersion' = nextVersion + 1
    /\ UNCHANGED <<store, index, inflight, nextLoad, snap, todo, after, joined,
                   cleanups, superseded, outdated, seen>>

\* put_bytes_unchecked, from its store.get on: the writer is a task or a load.
WriteGetOld(a) ==
    /\ pc[a] = "get_old" /\ Runnable(a)
    /\ Goto(a, IF Present(ctx[a].key) THEN "unregister" ELSE "insert")
    /\ ctx' = [ctx EXCEPT ![a].old = store[ctx[a].key].tags]
    /\ UNCHANGED <<store, index, inflight, nextVersion, nextLoad, snap, todo,
                   after, joined, cleanups, superseded, outdated, seen>>

WriteUnregister(a) ==
    /\ pc[a] = "unregister" /\ Runnable(a)
    /\ index' = Unregister(index, ctx[a].key, ctx[a].old)
    /\ Goto(a, "insert")
    /\ UNCHANGED <<store, inflight, nextVersion, nextLoad>>
    /\ UNCHANGED locals

WriteInsert(a) ==
    /\ pc[a] = "insert" /\ Runnable(a)
    /\ store' = [store EXCEPT ![ctx[a].key] =
                    [version |-> ctx[a].version, tags |-> ctx[a].tags,
                     load |-> IF a \in Loads THEN a ELSE NoLoad]]
    /\ Goto(a, "register")
    /\ UNCHANGED <<index, inflight, nextVersion, nextLoad>>
    /\ UNCHANGED locals

WriteRegister(a) ==
    /\ pc[a] = "register" /\ Runnable(a)
    /\ index' = Register(index, ctx[a].key, ctx[a].tags, ctx[a].version)
    /\ \/ a \in Loads /\ Goto(a, "finish") /\ UNCHANGED locals
       \/ a \in Tasks /\ EndCall(a) /\ superseded' = superseded \ {a}
    /\ UNCHANGED <<store, inflight, nextVersion, nextLoad>>

-----------------------------------------------------------------------------
(* Loads *)

\* Start a call of t at a point, about key k with tags T.
Begin(t, point, k, T, rest) ==
    /\ pc[t] = "idle"
    /\ Goto(t, point)
    /\ ctx' = [ctx EXCEPT ![t] = [key |-> k, tags |-> T, version |-> 0,
                                  old |-> store[k].tags]]
    /\ after' = [after EXCEPT ![t] = rest]
    /\ UNCHANGED <<store, inflight, nextVersion, nextLoad, snap, joined,
                   cleanups, outdated>>

\* get_or_load, get_or_insert_with, get_or_load_with_refresh on a miss.
GetOrLoad(t, k, T) ==
    /\ LoadBudget
    /\ ~Present(k)
    /\ Begin(t, "snapshot", k, T, <<>>)
    /\ UNCHANGED <<index, todo, superseded, seen>>

\* The same on an expired entry, which is removed first: once, or twice when it
\* was served stale and did not decode.  Kept as a fallback (stale on loader
\* error), it is removed twice more if the load fails and it does not decode.
GetOrLoadExpired(t, k, T) ==
    /\ LoadBudget
    /\ Present(k)
    /\ \E again \in {<<>>, <<"remove_store">>},
          fallback \in {<<>>, <<"remove_store", "remove_store">>} :
          Begin(t, "remove_store", k, T, again \o <<"snapshot">> \o fallback)
    /\ UNCHANGED <<index, todo, superseded, seen>>

\* spawn_background_refresh: the spawned task loads although an entry is there.
BackgroundRefresh(t, k, T) ==
    /\ LoadBudget
    /\ Present(k)
    /\ Begin(t, "snapshot", k, T, <<>>)
    /\ UNCHANGED <<index, todo, superseded, seen>>

\* get or contains_key on an expired entry, get on one that does not decode.
ReadExpired(t, k) ==
    /\ Present(k)
    /\ Begin(t, "remove_store", k, {}, <<>>)
    /\ UNCHANGED <<index, todo, superseded, seen>>

\* shared_load takes its generation snapshot.
SnapshotGeneration(t) ==
    /\ pc[t] = "snapshot"
    /\ snap' = [snap EXCEPT ![t] = TakeSnapshot(index, ctx[t].key, ctx[t].tags)]
    /\ superseded' = superseded \ {t}
    /\ outdated' = [outdated EXCEPT ![t] = superseded \cap Loads]
    /\ Goto(t, "get_current")
    /\ UNCHANGED <<store, index, inflight, nextVersion, nextLoad, ctx, todo,
                   after, joined, cleanups, seen>>

\* A bug: any live load of the key is shared, whatever its generation.
CanJoinAnyGeneration(t, l) == l # NoLoad /\ Waiters(l) # {}

\* The registered load has the caller's snapshot and a live waiter.
CanJoin(t, l) ==
    /\ l # NoLoad
    /\ snap[l] = snap[t]
    /\ Waiters(l) # {}

Join(t, l) ==
    /\ joined' = [joined EXCEPT ![t] = l]
    /\ Goto(t, "wait")
    /\ UNCHANGED <<store, index, inflight, nextVersion, nextLoad, ctx, snap, todo,
                   after, cleanups, superseded, outdated, seen>>

\* InFlightMap::get_current: join the load in flight, or go on to create one.
GetCurrent(t) ==
    /\ pc[t] = "get_current"
    /\ LET l == inflight[ctx[t].key] IN
       IF CanJoin(t, l) THEN Join(t, l)
       ELSE /\ Goto(t, "begin")
            /\ UNCHANGED <<store, index, inflight, nextVersion, nextLoad>>
            /\ UNCHANGED locals

\* A bug: the map is not looked at again once the write lock is held.
InsertWithoutCheck(t) ==
    /\ pc[t] = "begin"
    /\ nextLoad <= MaxLoads
    /\ inflight' = [inflight EXCEPT ![ctx[t].key] = nextLoad]
    /\ nextLoad' = nextLoad + 1
    /\ pc' = [pc EXCEPT ![t] = "wait", ![nextLoad] = "loading"]
    /\ ctx' = [ctx EXCEPT ![nextLoad] = [ctx[t] EXCEPT !.old = {}]]
    /\ snap' = [snap EXCEPT ![nextLoad] = snap[t]]
    /\ joined' = [joined EXCEPT ![t] = nextLoad]
    /\ superseded' = superseded \cup
                        (IF t \in superseded THEN {nextLoad} ELSE {})
    /\ UNCHANGED <<store, index, nextVersion, todo, after, cleanups, outdated,
                   seen>>

\* InFlightMap::insert_or_get_current: join, or register a new load future in
\* place of whatever load the map holds for the key.
InsertOrGetCurrent(t) ==
    /\ pc[t] = "begin"
    /\ LET k == ctx[t].key IN
       IF CanJoin(t, inflight[k]) THEN Join(t, inflight[k])
       ELSE /\ nextLoad <= MaxLoads
            /\ inflight' = [inflight EXCEPT ![k] = nextLoad]
            /\ nextLoad' = nextLoad + 1
            /\ pc' = [pc EXCEPT ![t] = "wait", ![nextLoad] = "loading"]
            /\ ctx' = [ctx EXCEPT ![nextLoad] = [ctx[t] EXCEPT !.old = {}]]
            /\ snap' = [snap EXCEPT ![nextLoad] = snap[t]]
            /\ joined' = [joined EXCEPT ![t] = nextLoad]
            /\ superseded' = superseded \cup
                                (IF t \in superseded THEN {nextLoad} ELSE {})
            /\ UNCHANGED <<store, index, nextVersion, todo, after, cleanups,
                           outdated, seen>>

\* The user's loader returns a value, or an error.
LoaderReturns(l) ==
    /\ pc[l] = "loading" /\ Runnable(l)
    /\ \E point \in {"check", "finish_err"} : Goto(l, point)
    /\ UNCHANGED <<store, index, inflight, nextVersion, nextLoad>>
    /\ UNCHANGED locals

\* put_bytes_if_fresh: store the value only under a current snapshot.
CheckFresh(l) ==
    /\ pc[l] = "check" /\ Runnable(l)
    /\ IF IsCurrent(index, snap[l])
       THEN /\ Goto(l, "get_old")
            /\ ctx' = [ctx EXCEPT ![l].version = nextVersion]
            /\ nextVersion' = nextVersion + 1
       ELSE /\ Goto(l, "finish")
            /\ UNCHANGED <<ctx, nextVersion>>
    /\ UNCHANGED <<store, index, inflight, nextLoad, snap, todo, after, joined,
                   cleanups, superseded, outdated, seen>>

\* The value exceeds max_entry_bytes: returned to the callers, not stored.
SkipOversize(l) ==
    /\ pc[l] = "check" /\ Runnable(l)
    /\ Goto(l, "finish")
    /\ UNCHANGED <<store, index, inflight, nextVersion, nextLoad>>
    /\ UNCHANGED locals

\* remove_if_generation_matches: the map's load goes if its snapshot equals the
\* one of the load that ends, whichever load it is.
FinishLoad(l) ==
    /\ pc[l] \in {"finish", "finish_err"} /\ Runnable(l)
    /\ LET k == ctx[l].key IN
       inflight' = IF inflight[k] # NoLoad /\ snap[inflight[k]] = snap[l]
                   THEN [inflight EXCEPT ![k] = NoLoad] ELSE inflight
    /\ Goto(l, IF pc[l] = "finish" THEN "done" ELSE "failed")
    /\ UNCHANGED <<store, index, nextVersion, nextLoad>>
    /\ UNCHANGED locals

\* A bug: a caller is woken only by a load that succeeds.
AwaitSuccess(t) ==
    /\ pc[t] = "wait"
    /\ pc[joined[t]] = "done"
    /\ EndCall(t) /\ superseded' = superseded \ {t}
    /\ UNCHANGED <<store, index, inflight, nextVersion, nextLoad>>

\* The awaited load is over.  Its error falls back to the expired entry, which
\* is removed when it does not decode.
AwaitLoad(t) ==
    /\ pc[t] = "wait"
    /\ \/ /\ pc[joined[t]] \in {"done", "failed"}
          /\ EndCall(t) /\ superseded' = superseded \ {t}
       \/ /\ pc[joined[t]] = "failed"
          /\ after[t] # <<>>
          /\ Goto(t, Head(after[t]))
          /\ after' = [after EXCEPT ![t] = Tail(@)]
          /\ joined' = [joined EXCEPT ![t] = NoLoad]
          /\ DropHandle(t)
          /\ UNCHANGED <<ctx, snap, todo, superseded, outdated, seen>>
    /\ UNCHANGED <<store, index, inflight, nextVersion, nextLoad>>

\* remove_if_idle, spawned when the last handle on load l was dropped.
RemoveIfIdle(l) ==
    /\ l \in cleanups
    /\ cleanups' = cleanups \ {l}
    /\ LET k == ctx[l].key IN
       inflight' = IF /\ inflight[k] # NoLoad
                      /\ snap[inflight[k]] = snap[l]
                      /\ Waiters(inflight[k]) = {}
                   THEN [inflight EXCEPT ![k] = NoLoad] ELSE inflight
    /\ UNCHANGED <<store, index, nextVersion, nextLoad, pc, ctx, snap, todo,
                   after, joined, superseded, outdated, seen>>

-----------------------------------------------------------------------------
(* Invalidations *)

\* invalidate_key, remove: advance the key's generation, then remove_entry.
InvalidateKey(t, k) ==
    /\ InvalidationBudget
    /\ Begin(t, "remove_get", k, {}, <<>>)
    /\ index' = AdvanceKey(index, k)
    /\ Supersede({a \in Actors : snap[a].key = k})
    /\ UNCHANGED <<todo, seen>>

\* invalidate_tag: take_tag detaches the tag's keys, which are then removed.
InvalidateTag(t, g) ==
    /\ InvalidationBudget
    /\ Begin(t, "next_key", NoKey, {}, <<>>)
    /\ index' = TakeTag(index, g)
    /\ Supersede({a \in Actors : g \in snap[a].tags})
    /\ todo' = [todo EXCEPT ![t] = TaggedKeys(index, g)]
    /\ seen' = [seen EXCEPT ![t] = {<<k, store[k].version>> :
                                     k \in TaggedKeys(index, g)}]

NextKey(t) ==
    /\ pc[t] = "next_key"
    /\ \/ /\ todo[t] = {}
          /\ EndCall(t) /\ superseded' = superseded \ {t}
       \/ \E k \in todo[t] :
             /\ todo' = [todo EXCEPT ![t] = @ \ {k}]
             /\ ctx' = [ctx EXCEPT ![t].key = k]
             /\ after' = [after EXCEPT ![t] = <<"next_key">>]
             /\ Goto(t, "remove_get")
             /\ UNCHANGED <<snap, joined, cleanups, superseded, outdated, seen>>
    /\ UNCHANGED <<store, index, inflight, nextVersion, nextLoad>>

\* store.get before remove_entry: the entry found tells which tags to drop.
RemoveGet(t) ==
    /\ pc[t] = "remove_get"
    /\ IF Present(ctx[t].key)
       THEN /\ Goto(t, "remove_store")
            /\ ctx' = [ctx EXCEPT ![t].old = store[ctx[t].key].tags]
            /\ UNCHANGED <<snap, todo, after, joined, cleanups, superseded,
                           outdated, seen>>
       ELSE Continue(t)
    /\ UNCHANGED <<store, index, inflight, nextVersion, nextLoad>>

\* A bug: the entry stays in the store when its tags are not those of the call.
RemoveStoreSameTags(t) ==
    /\ pc[t] = "remove_store"
    /\ store' = [store EXCEPT ![ctx[t].key] =
                    IF @.tags = ctx[t].tags THEN NoEntry ELSE @]
    /\ Goto(t, "remove_unregister")
    /\ UNCHANGED <<index, inflight, nextVersion, nextLoad>>
    /\ UNCHANGED locals

\* remove_entry: whatever entry the key has now leaves the store ...
RemoveStore(t) ==
    /\ pc[t] = "remove_store"
    /\ store' = [store EXCEPT ![ctx[t].key] = NoEntry]
    /\ Goto(t, "remove_unregister")
    /\ UNCHANGED <<index, inflight, nextVersion, nextLoad>>
    /\ UNCHANGED locals

\* ... and the tags of the entry that was read leave the index.
RemoveUnregister(t) ==
    /\ pc[t] = "remove_unregister"
    /\ index' = Unregister(index, ctx[t].key, ctx[t].old)
    /\ Continue(t)
    /\ UNCHANGED <<store, inflight, nextVersion, nextLoad>>

\* flush: empty the store, then the index.
Flush(t) ==
    /\ InvalidationBudget
    /\ pc[t] = "idle"
    /\ store' = [k \in Keys |-> NoEntry]
    /\ Goto(t, "flush_clear")
    /\ UNCHANGED <<index, inflight, nextVersion, nextLoad>>
    /\ UNCHANGED locals

FlushClear(t) ==
    /\ pc[t] = "flush_clear"
    /\ index' = Clear(index)
    /\ superseded' = (superseded \cup {a \in Actors : Holding(a)}) \ {t}
    /\ EndCall(t)
    /\ UNCHANGED <<store, inflight, nextVersion, nextLoad>>

-----------------------------------------------------------------------------
(* The environment *)

\* The store evicts an entry; without an observer nobody is told.
Evict(k) ==
    /\ Present(k)
    /\ store' = [store EXCEPT ![k] = NoEntry]
    /\ UNCHANGED <<index, inflight, nextVersion, nextLoad, pc>>
    /\ UNCHANGED locals

\* The caller drops the future of its call at an await.
Cancel(t) ==
    /\ pc[t] # "idle"
    /\ EndCall(t) /\ superseded' = superseded \ {t}
    /\ UNCHANGED <<store, index, inflight, nextVersion, nextLoad>>

-----------------------------------------------------------------------------
Start(t) ==
    \/ \E k \in Keys :
          \/ "get" \in Calls /\ Get(t, k)
          \/ "expire" \in Calls /\ ReadExpired(t, k)
          \/ "invalidate_key" \in Calls /\ InvalidateKey(t, k)
          \/ \E T \in TagChoices[k] :
                \/ "put" \in Calls /\ Put(t, k, T)
                \/ "load" \in Calls /\ GetOrLoad(t, k, T)
                \/ "load_expired" \in Calls /\ GetOrLoadExpired(t, k, T)
                \/ "refresh" \in Calls /\ BackgroundRefresh(t, k, T)
    \/ "invalidate_tag" \in Calls /\ \E g \in Tags : InvalidateTag(t, g)
    \/ "flush" \in Calls /\ Flush(t)

Write(a) == \/ WriteGetOld(a) \/ WriteUnregister(a)
            \/ WriteInsert(a) \/ WriteRegister(a)

TaskStep(t) == \/ Write(t)
               \/ SnapshotGeneration(t) \/ GetCurrent(t)
               \/ InsertOrGetCurrent(t) \/ AwaitLoad(t)
               \/ NextKey(t) \/ RemoveGet(t) \/ RemoveStore(t)
               \/ RemoveUnregister(t) \/ FlushClear(t)

LoadStep(l) == \/ LoaderReturns(l) \/ CheckFresh(l) \/ SkipOversize(l)
               \/ Write(l) \/ FinishLoad(l)

Next == \/ \E t \in Tasks : Start(t) \/ TaskStep(t)
        \/ \E t \in Dropped : Cancel(t)
        \/ \E l \in Loads : LoadStep(l) \/ RemoveIfIdle(l)
        \/ "evict" \in Calls /\ \E k \in Keys : Evict(k)

Spec == Init /\ [][Next]_vars

\* The runtime polls every task that can go on, and every loader returns.
Fairness == /\ \A t \in Tasks : WF_vars(TaskStep(t))
            /\ \A l \in Loads : WF_vars(LoadStep(l)) /\ WF_vars(RemoveIfIdle(l))

FairSpec == Spec /\ Fairness

-----------------------------------------------------------------------------
(* Properties *)

\* The fence of ADR-0014: once an invalidation has covered the snapshot of an
\* actor, is_current never accepts that snapshot again, whatever rotations,
\* flushes and further invalidations follow, so a load that has not yet been
\* checked (cache.rs put_bytes_if_fresh) cannot be stored.
SupersededIsFenced == \A a \in superseded : ~IsCurrent(index, snap[a])

\* A caller never shares a load that was already superseded when the caller
\* took its snapshot in shared_load: what it receives was loaded after every
\* invalidation it could know of.
NoStaleJoin ==
    \A t \in Tasks : joined[t] # NoLoad => joined[t] \notin outdated[t]

\* A load future that some caller still drives to its end.
Live(l) == pc[l] \notin {"free", "done", "failed"} /\ Waiters(l) # {}

Undisturbed(k) ==
    /\ \E T \in TagChoices[k] : TagChoices[k] = {T}
    /\ \A l \in Loads : pc[l] # "free" /\ snap[l].key = k => IsCurrent(index, snap[l])

\* Single flight (get_or_load): the callers of a key that all use the same tags
\* share one running loader, as long as no invalidation or epoch rotation has
\* overlapped a load of the key; dropped callers do not break it.
SingleFlight ==
    \A l1, l2 \in Loads :
        /\ Live(l1) /\ Live(l2)
        /\ ctx[l1].key = ctx[l2].key
        /\ Undisturbed(ctx[l1].key)
        => l1 = l2

\* The single-flight map never leaks (inflight.rs Drop, remove_if_idle): a load
\* that stays in the map without a handle has its cleanup on the way.
NoLeakedInflight ==
    \A k \in Keys : inflight[k] # NoLoad /\ Waiters(inflight[k]) = {} =>
                      inflight[k] \in cleanups

\* invalidate_tag: of the entries that were stored and indexed under the tag
\* when the call began, those whose keys it has dealt with are no longer
\* stored, whatever writes and loads went on meanwhile.
TagInvalidationRemovesSeen ==
    \A t \in Tasks : pc[t] = "next_key" =>
        \A kv \in seen[t] : kv[2] # 0 /\ kv[1] \notin todo[t] =>
                              store[kv[1]].version # kv[2]

Quiet == \A t \in Tasks : pc[t] = "idle"

\* invalidate_tag's "Tagged loaders that started before the invalidation will
\* return to their caller but skip storing stale values back": when no call is
\* running, no stored entry was written by a superseded load.
NoStaleEntryWhenQuiet ==
    Quiet => \A k \in Keys : Present(k) => store[k].load \notin superseded

\* No caller waits for ever: with a loader that returns, every call returns,
\* even when the other callers of a shared load are dropped.
EveryCallReturns == \A t \in Tasks : pc[t] # "idle" ~> pc[t] = "idle"
=============================================================================
