-------------------------- MODULE LocalCacheProofs --------------------------
(***************************************************************************)
(* Proofs about LocalCache for every set of keys, tags and tasks and every *)
(* value of the bounds.                                                    *)
(***************************************************************************)
EXTENDS LocalCache, TLAPS

-----------------------------------------------------------------------------
(* Types of the operators on an index *)

\* Rotating the epoch and clearing the index keep it an index.
LEMMA RotateTypes ==
    ASSUME NEW ix \in Indexes
    PROVE  RotateGenerationEpoch(ix) \in Indexes /\ Clear(ix) \in Indexes
<1>1. ix.global + 1 \in Nat /\ ix.keysByTag \in [Tags -> [Keys -> Nat]]
  BY DEF Indexes
<1> QED BY Zenon, <1>1 DEF RotateGenerationEpoch, Clear, EmptyIndex, Indexes

\* Invalidating a tag keeps the index an index.
LEMMA TakeTagType ==
    ASSUME NEW ix \in Indexes, NEW g \in Tags
    PROVE  RoomForTag(ix, g) \in Indexes /\ TakeTag(ix, g) \in Indexes
<1> DEFINE r == RoomForTag(ix, g)
<1>1. r \in Indexes
  BY Zenon, RotateTypes DEF RoomForTag
<1> HIDE DEF r
<1>2. /\ r.generations \in [Tags -> Nat]
      /\ r.generations[g] + 1 \in Nat
      /\ [k \in Keys |-> 0] \in [Keys -> Nat]
      /\ r.keysByTag \in [Tags -> [Keys -> Nat]]
  BY <1>1 DEF Indexes
<1>3. [r EXCEPT !.generations[g] = @ + 1,
                !.keysByTag[g] = [k \in Keys |-> 0]] \in Indexes
  BY Zenon, <1>1, <1>2 DEF Indexes
<1> QED BY Zenon, <1>1, <1>3 DEF TakeTag, r

\* Invalidating a key keeps the index an index.
LEMMA AdvanceKeyType ==
    ASSUME NEW ix \in Indexes, NEW k \in Keys
    PROVE  RoomForKey(ix, k) \in Indexes /\ AdvanceKey(ix, k) \in Indexes
<1> DEFINE r == RoomForKey(ix, k)
<1>1. r \in Indexes
  BY Zenon, RotateTypes DEF RoomForKey
<1> HIDE DEF r
<1>2. r.keyGenerations \in [Keys -> Nat] /\ r.keyGenerations[k] + 1 \in Nat
  BY <1>1 DEF Indexes
<1>3. [r EXCEPT !.keyGenerations[k] = @ + 1] \in Indexes
  BY Zenon, <1>1, <1>2 DEF Indexes
<1> QED BY Zenon, <1>1, <1>3 DEF AdvanceKey, r

\* The constants that stand for "nothing" have their types.
LEMMA Nothing ==
    /\ EmptyIndex \in Indexes
    /\ NoEntry \in Entries
    /\ NoKey \in Keys
    /\ NoCtx \in [key : Keys, tags : SUBSET Tags, version : Nat, old : SUBSET Tags]
    /\ NoSnapshot \in Snapshots
<1>1. EmptyIndex \in Indexes
  BY Zenon DEF EmptyIndex, Indexes
<1>2. NoEntry \in Entries
  BY Zenon DEF NoEntry, Entries
<1>3. NoKey \in Keys
  BY Zenon, KeysAssumption DEF NoKey
<1>4. NoCtx \in [key : Keys, tags : SUBSET Tags, version : Nat, old : SUBSET Tags]
  BY Zenon, <1>3 DEF NoCtx
<1>5. NoSnapshot \in Snapshots
  BY Zenon, <1>1, <1>3 DEF NoSnapshot, TakeSnapshot, Snapshots, Indexes
<1> QED BY Zenon, <1>1, <1>2, <1>3, <1>4, <1>5

-----------------------------------------------------------------------------
(* Type correctness *)

\* What insert_or_get_current does when it does not join.
LEMMA NewLoad ==
    ASSUME TypeOK, NEW t \in Tasks, InsertOrGetCurrent(t),
           ~CanJoin(t, inflight[ctx[t].key])
    PROVE  /\ nextLoad \in Loads /\ nextLoad' \in 1 .. MaxLoads + 1
           /\ nextLoad' = nextLoad + 1
           /\ inflight' = [inflight EXCEPT ![ctx[t].key] = nextLoad]
           /\ pc' = [pc EXCEPT ![t] = "wait", ![nextLoad] = "loading"]
           /\ ctx' = [ctx EXCEPT ![nextLoad] = [ctx[t] EXCEPT !.old = {}]]
           /\ snap' = [snap EXCEPT ![nextLoad] = snap[t]]
           /\ joined' = [joined EXCEPT ![t] = nextLoad]
           /\ superseded' = superseded \cup
                               (IF t \in superseded THEN {nextLoad} ELSE {})
           /\ UNCHANGED <<store, index, nextVersion, todo, after, cleanups,
                          outdated, seen>>
<1>1. nextLoad <= MaxLoads /\ nextLoad' = nextLoad + 1
  BY Zenon DEF InsertOrGetCurrent
<1>2. nextLoad \in Loads /\ nextLoad' \in 1 .. MaxLoads + 1
  BY <1>1, LoadsAssumption DEF TypeOK, Loads
<1> QED BY Zenon, <1>1, <1>2 DEF InsertOrGetCurrent

\* Every step keeps the types.
LEMMA TypeStep == TypeOK /\ [Next]_vars => TypeOK'
  \* Registering and unregistering a key keeps an index an index, and a snapshot
  \* of an index is a snapshot.
<1>MembershipTypes.
      ASSUME NEW ix \in Indexes, NEW k \in Keys, NEW T \in SUBSET Tags, NEW v \in Nat
      PROVE  /\ Register(ix, k, T, v) \in Indexes
             /\ Unregister(ix, k, T) \in Indexes
             /\ TakeSnapshot(ix, k, T) \in Snapshots
  <2> USE <1>MembershipTypes
  <2>1. Register(ix, k, T, v) \in Indexes
    BY Zenon DEF Register, Indexes
  <2>2. Unregister(ix, k, T) \in Indexes
    BY Zenon DEF Unregister, Register, Indexes
  <2>3. TakeSnapshot(ix, k, T) \in Snapshots
    BY Zenon DEF TakeSnapshot, Snapshots, Indexes
  <2> QED BY Zenon, <2>1, <2>2, <2>3
  \* The end of a call leaves well-typed locals behind.
<1>EndCallTypes.
      ASSUME TypeOK, NEW t \in Tasks, EndCall(t)
      PROVE  /\ pc' \in [Actors -> TaskPoints \cup LoadPoints]
             /\ ctx' \in [Actors -> [key : Keys, tags : SUBSET Tags, version : Nat,
                                    old : SUBSET Tags]]
             /\ snap' \in [Actors -> Snapshots]
             /\ todo' \in [Tasks -> SUBSET Keys]
             /\ after' \in [Tasks -> Seq(TaskPoints)]
             /\ joined' \in [Tasks -> Loads \cup {NoLoad}]
             /\ cleanups' \subseteq Loads
             /\ outdated' \in [Tasks -> SUBSET Loads]
             /\ seen' \in [Tasks -> SUBSET (Keys \X Nat)]
  <2> USE <1>EndCallTypes
  <2>1. cleanups' \subseteq Loads
    BY Zenon DEF EndCall, DropHandle, TypeOK
  <2>2. pc' \in [Actors -> TaskPoints \cup LoadPoints]
    BY Zenon DEF EndCall, Goto, TypeOK, TaskPoints
  <2>3. after' \in [Tasks -> Seq(TaskPoints)]
    BY DEF EndCall, TypeOK
  <2> QED BY Zenon, <2>1, <2>2, <2>3, Nothing DEF EndCall, TypeOK
  \* So does the continuation of a call.
<1>ContinueTypes.
      ASSUME TypeOK, NEW t \in Tasks, Continue(t)
      PROVE  /\ pc' \in [Actors -> TaskPoints \cup LoadPoints]
             /\ ctx' \in [Actors -> [key : Keys, tags : SUBSET Tags, version : Nat,
                                    old : SUBSET Tags]]
             /\ snap' \in [Actors -> Snapshots]
             /\ todo' \in [Tasks -> SUBSET Keys]
             /\ after' \in [Tasks -> Seq(TaskPoints)]
             /\ joined' \in [Tasks -> Loads \cup {NoLoad}]
             /\ cleanups' \subseteq Loads
             /\ superseded' \subseteq Actors
             /\ outdated' \in [Tasks -> SUBSET Loads]
             /\ seen' \in [Tasks -> SUBSET (Keys \X Nat)]
  <2> USE <1>ContinueTypes
  <2>1. CASE after[t] = <<>>
    BY Zenon, <2>1, <1>EndCallTypes DEF Continue, TypeOK
  <2>2. CASE after[t] # <<>>
    <3>1. after[t] \in Seq(TaskPoints)
      BY Zenon DEF TypeOK
    <3>2. Head(after[t]) \in TaskPoints /\ Tail(after[t]) \in Seq(TaskPoints)
      BY <2>2, <3>1
    <3> QED BY ZenonT(40), <2>2, <3>2 DEF Continue, Goto, TypeOK
  <2> QED BY Zenon, <2>1, <2>2
  \* The first step of a call gives its task a well-typed context.
<1>BeginTypes.
      ASSUME TypeOK, NEW t \in Tasks, NEW point \in TaskPoints, NEW k \in Keys,
             NEW T \in SUBSET Tags, NEW rest \in Seq(TaskPoints),
             Begin(t, point, k, T, rest)
      PROVE  /\ store' \in [Keys -> Entries]
             /\ inflight' \in [Keys -> Loads \cup {NoLoad}]
             /\ nextVersion' \in Nat \ {0}
             /\ nextLoad' \in 1 .. MaxLoads + 1
             /\ pc' \in [Actors -> TaskPoints \cup LoadPoints]
             /\ ctx' \in [Actors -> [key : Keys, tags : SUBSET Tags, version : Nat,
                                    old : SUBSET Tags]]
             /\ snap' \in [Actors -> Snapshots]
             /\ after' \in [Tasks -> Seq(TaskPoints)]
             /\ joined' \in [Tasks -> Loads \cup {NoLoad}]
             /\ cleanups' \subseteq Loads
             /\ outdated' \in [Tasks -> SUBSET Loads]
  <2> USE <1>BeginTypes
  <2>1. store[k].tags \in SUBSET Tags
    BY Zenon DEF TypeOK, Entries
  <2> QED BY Zenon, <2>1 DEF Begin, Goto, TypeOK
  \* A write step of a task or of a load keeps the types.
<1>WriteTypes.
      ASSUME TypeOK, NEW a \in Actors, Write(a)
      PROVE  TypeOK'
  <2> USE <1>WriteTypes
  <2> USE DEF Goto, locals
  <2>0. /\ ctx[a] \in [key : Keys, tags : SUBSET Tags, version : Nat,
                       old : SUBSET Tags]
        /\ ctx[a].key \in Keys /\ ctx[a].tags \in SUBSET Tags
        /\ ctx[a].old \in SUBSET Tags /\ ctx[a].version \in Nat
        /\ store[ctx[a].key].tags \in SUBSET Tags
    BY Zenon DEF TypeOK, Entries
  <2>1. CASE WriteGetOld(a)
    <3>1. [ctx[a] EXCEPT !.old = store[ctx[a].key].tags] \in
              [key : Keys, tags : SUBSET Tags, version : Nat, old : SUBSET Tags]
      BY Zenon, <2>0
    <3>2. ctx' \in [Actors -> [key : Keys, tags : SUBSET Tags, version : Nat,
                              old : SUBSET Tags]]
      BY Zenon, <2>1, <3>1 DEF WriteGetOld, TypeOK
    <3> QED BY Zenon, <2>1, <3>2 DEF WriteGetOld, TypeOK, TaskPoints
  <2>2. CASE WriteUnregister(a)
    <3>1. index' \in Indexes
      BY Zenon, <2>0, <2>2, <1>MembershipTypes DEF WriteUnregister, TypeOK
    <3> QED BY Zenon, <2>2, <3>1 DEF WriteUnregister, TypeOK, TaskPoints
  <2>3. CASE WriteInsert(a)
    <3>1. store' \in [Keys -> Entries]
      BY Zenon, <2>0, <2>3 DEF WriteInsert, TypeOK, Entries
    <3> QED BY Zenon, <2>3, <3>1 DEF WriteInsert, TypeOK, TaskPoints
  <2>4. CASE WriteRegister(a)
    <3>1. index' \in Indexes
      BY Zenon, <2>0, <2>4, <1>MembershipTypes DEF WriteRegister, TypeOK
    <3>2. CASE a \in Loads /\ Goto(a, "finish") /\ UNCHANGED locals
      BY Zenon, <2>4, <3>1, <3>2 DEF WriteRegister, TypeOK, LoadPoints
    <3>3. CASE a \in Tasks /\ EndCall(a) /\ superseded' = superseded \ {a}
      BY Zenon, <2>4, <3>1, <3>3, <1>EndCallTypes DEF WriteRegister, TypeOK
    <3> QED BY Zenon, <2>4, <3>2, <3>3 DEF WriteRegister
  <2> QED BY Zenon, <2>1, <2>2, <2>3, <2>4 DEF Write
  \* The starting steps of the calls keep the types.
<1>StartTypes.
      ASSUME TypeOK, NEW t \in Tasks, Start(t)
      PROVE  TypeOK'
  <2> USE <1>StartTypes
  <2>1. ASSUME NEW k \in Keys, Get(t, k) PROVE TypeOK'
    BY Zenon, <2>1 DEF Get, vars, TypeOK
  <2>2. ASSUME NEW k \in Keys, ReadExpired(t, k) PROVE TypeOK'
    <3>1. Begin(t, "remove_store", k, {}, <<>>)
      BY Zenon, <2>2 DEF ReadExpired
    <3>2. "remove_store" \in TaskPoints /\ <<>> \in Seq(TaskPoints)
      BY DEF TaskPoints
    <3> QED BY Zenon, <2>2, <3>1, <3>2, <1>BeginTypes DEF ReadExpired, TypeOK
  <2>3. ASSUME NEW k \in Keys, InvalidateKey(t, k) PROVE TypeOK'
    <3>1. Begin(t, "remove_get", k, {}, <<>>)
      BY Zenon, <2>3 DEF InvalidateKey
    <3>2. "remove_get" \in TaskPoints /\ <<>> \in Seq(TaskPoints)
      BY DEF TaskPoints
    <3>3. index' \in Indexes
      BY Zenon, <2>3, AdvanceKeyType DEF InvalidateKey, TypeOK
    <3>4. superseded' \subseteq Actors
      BY Zenon, <2>3 DEF InvalidateKey, Supersede, TypeOK
    <3> QED BY Zenon, <2>3, <3>1, <3>2, <3>3, <3>4, <1>BeginTypes DEF InvalidateKey, TypeOK
  <2>4. ASSUME NEW k \in Keys, NEW T \in SUBSET Tags, Put(t, k, T) PROVE TypeOK'
    <3>1. ctx' \in [Actors -> [key : Keys, tags : SUBSET Tags, version : Nat,
                              old : SUBSET Tags]]
      BY Zenon, <2>4 DEF Put, TypeOK, Actors
    <3>2. pc' \in [Actors -> TaskPoints \cup LoadPoints]
      BY Zenon, <2>4 DEF Put, Goto, TypeOK, TaskPoints
    <3>3. nextVersion' \in Nat \ {0}
      BY <2>4 DEF Put, TypeOK
    <3> QED BY Zenon, <2>4, <3>1, <3>2, <3>3 DEF Put, TypeOK
  <2>5. ASSUME NEW k \in Keys, NEW T \in SUBSET Tags, NEW rest \in Seq(TaskPoints),
               NEW point \in TaskPoints, Begin(t, point, k, T, rest),
               UNCHANGED <<index, todo, superseded, seen>>
        PROVE  TypeOK'
    BY Zenon, <2>5, <1>BeginTypes DEF TypeOK
  <2>6. /\ "snapshot" \in TaskPoints /\ "remove_store" \in TaskPoints
        /\ <<>> \in Seq(TaskPoints)
    BY DEF TaskPoints
  <2>7. ASSUME NEW k \in Keys, NEW T \in SUBSET Tags,
               \/ GetOrLoad(t, k, T) \/ BackgroundRefresh(t, k, T)
        PROVE  TypeOK'
    BY Zenon, <2>5, <2>6, <2>7 DEF GetOrLoad, BackgroundRefresh
  <2>8. ASSUME NEW k \in Keys, NEW T \in SUBSET Tags, GetOrLoadExpired(t, k, T)
        PROVE  TypeOK'
    <3>1. PICK again \in {<<>>, <<"remove_store">>},
               fallback \in {<<>>, <<"remove_store", "remove_store">>} :
               Begin(t, "remove_store", k, T, again \o <<"snapshot">> \o fallback)
      BY Zenon, <2>8 DEF GetOrLoadExpired
    <3>2. again \in Seq(TaskPoints)
      <4>1. <<"remove_store">> \in Seq(TaskPoints)
        BY <2>6
      <4> QED BY Zenon, <2>6, <4>1
    <3>3. fallback \in Seq(TaskPoints)
      <4>1. <<"remove_store", "remove_store">> \in Seq(TaskPoints)
        BY <2>6
      <4> QED BY Zenon, <2>6, <4>1
    <3>4. <<"snapshot">> \in Seq(TaskPoints)
      BY <2>6
    <3>5. again \o <<"snapshot">> \o fallback \in Seq(TaskPoints)
      BY <3>2, <3>3, <3>4
    <3> QED BY Zenon, <2>5, <2>6, <2>8, <3>1, <3>5 DEF GetOrLoadExpired
  <2>9. ASSUME NEW g \in Tags, InvalidateTag(t, g) PROVE TypeOK'
    <3>1. Begin(t, "next_key", NoKey, {}, <<>>)
      BY Zenon, <2>9 DEF InvalidateTag
    <3>2. "next_key" \in TaskPoints /\ <<>> \in Seq(TaskPoints)
      BY DEF TaskPoints
    <3>3. index' \in Indexes
      BY Zenon, <2>9, TakeTagType DEF InvalidateTag, TypeOK
    <3>4. superseded' \subseteq Actors
      BY Zenon, <2>9 DEF InvalidateTag, Supersede, TypeOK
    <3>5. todo' \in [Tasks -> SUBSET Keys]
      BY Zenon, <2>9 DEF InvalidateTag, TypeOK, TaggedKeys
    <3>6. {<<k, store[k].version>> : k \in TaggedKeys(index, g)} \subseteq Keys \X Nat
      BY DEF TypeOK, TaggedKeys, Entries
    <3>7. seen' \in [Tasks -> SUBSET (Keys \X Nat)]
      BY Zenon, <2>9, <3>6 DEF InvalidateTag, TypeOK
    <3> QED BY Zenon, <3>1, <3>2, <3>3, <3>4, <3>5, <3>7, Nothing, <1>BeginTypes DEF TypeOK
  <2>10. ASSUME Flush(t) PROVE TypeOK'
    BY Zenon, <2>10, Nothing DEF Flush, Goto, locals, TypeOK, TaskPoints
  <2>11. \A k \in Keys : TagChoices[k] \subseteq SUBSET Tags
    BY Zenon, TagChoicesAssumption
  <2> QED BY Zenon, <2>1, <2>2, <2>3, <2>4, <2>7, <2>8, <2>9, <2>10, <2>11 DEF Start
  \* The other steps of a task keep the types.
<1>TaskStepTypes.
      ASSUME TypeOK, NEW t \in Tasks, TaskStep(t)
      PROVE  TypeOK'
  <2> USE <1>TaskStepTypes
  <2> USE DEF Goto, locals
  <2>0. /\ t \in Actors
        /\ ctx[t] \in [key : Keys, tags : SUBSET Tags, version : Nat,
                       old : SUBSET Tags]
        /\ ctx[t].key \in Keys /\ ctx[t].tags \in SUBSET Tags
        /\ ctx[t].old \in SUBSET Tags
        /\ store[ctx[t].key].tags \in SUBSET Tags
        /\ snap[t] \in Snapshots
        /\ inflight[ctx[t].key] \in Loads \cup {NoLoad}
    BY Zenon DEF TypeOK, Entries, Actors
  <2>1. CASE Write(t)
    BY Zenon, <2>0, <2>1, <1>WriteTypes
  <2>2. CASE SnapshotGeneration(t)
    <3>1. snap' \in [Actors -> Snapshots]
      BY Zenon, <2>0, <2>2, <1>MembershipTypes DEF SnapshotGeneration, TypeOK
    <3> QED BY Zenon, <2>2, <3>1 DEF SnapshotGeneration, TypeOK, TaskPoints
  <2>3. ASSUME NEW l \in Loads, Join(t, l) PROVE TypeOK'
    BY Zenon, <2>3 DEF Join, TypeOK, TaskPoints
  <2>4. CASE GetCurrent(t)
    <3> DEFINE l == inflight[ctx[t].key]
    <3>1. CASE CanJoin(t, l)
      BY Zenon, <2>0, <2>3, <2>4, <3>1 DEF GetCurrent, CanJoin
    <3>2. CASE ~CanJoin(t, l)
      BY Zenon, <2>4, <3>2 DEF GetCurrent, TypeOK, TaskPoints
    <3> QED BY Zenon, <3>1, <3>2
  <2>5. CASE InsertOrGetCurrent(t)
    <3> DEFINE l == inflight[ctx[t].key]
    <3>1. CASE CanJoin(t, l)
      BY Zenon, <2>0, <2>3, <2>5, <3>1 DEF InsertOrGetCurrent, CanJoin
    <3>2. CASE ~CanJoin(t, l)
      <4>1. /\ inflight' = [inflight EXCEPT ![ctx[t].key] = nextLoad]
            /\ pc' = [pc EXCEPT ![t] = "wait", ![nextLoad] = "loading"]
            /\ ctx' = [ctx EXCEPT ![nextLoad] = [ctx[t] EXCEPT !.old = {}]]
            /\ snap' = [snap EXCEPT ![nextLoad] = snap[t]]
            /\ joined' = [joined EXCEPT ![t] = nextLoad]
            /\ superseded' = superseded \cup
                                (IF t \in superseded THEN {nextLoad} ELSE {})
            /\ UNCHANGED <<store, index, nextVersion, todo, after, cleanups,
                           outdated, seen>>
        BY Zenon, <2>5, <3>2, NewLoad
      <4>2. nextLoad \in Loads /\ nextLoad' \in 1 .. MaxLoads + 1
        BY Zenon, <2>5, <3>2, NewLoad
      <4>3. nextLoad \in Actors
        BY Zenon, <4>2 DEF Actors
      <4>4. [ctx[t] EXCEPT !.old = {}] \in
              [key : Keys, tags : SUBSET Tags, version : Nat, old : SUBSET Tags]
        BY Zenon, <2>0
      <4>5. ctx' \in [Actors -> [key : Keys, tags : SUBSET Tags, version : Nat,
                                old : SUBSET Tags]]
        BY Zenon, <4>1, <4>3, <4>4 DEF TypeOK
      <4>6. pc' \in [Actors -> TaskPoints \cup LoadPoints]
        BY Zenon, <4>1, <4>3 DEF TypeOK, TaskPoints, LoadPoints
      <4>7. superseded' \subseteq Actors
        BY Zenon, <4>1, <4>3 DEF TypeOK
      <4>8. /\ inflight' \in [Keys -> Loads \cup {NoLoad}]
            /\ joined' \in [Tasks -> Loads \cup {NoLoad}]
        BY Zenon, <4>1, <4>2 DEF TypeOK
      <4>9. snap' \in [Actors -> Snapshots]
        BY Zenon, <2>0, <4>1, <4>3 DEF TypeOK
      <4> QED BY Zenon, <4>1, <4>2, <4>5, <4>6, <4>7, <4>8, <4>9 DEF TypeOK
    <3> QED BY Zenon, <3>1, <3>2
  <2>6. ASSUME EndCall(t), superseded' = superseded \ {t},
               UNCHANGED <<store, index, inflight, nextVersion, nextLoad>>
        PROVE  TypeOK'
    BY Zenon, <2>6, <1>EndCallTypes DEF TypeOK
  <2>7. CASE AwaitLoad(t)
    <3>1. CASE EndCall(t) /\ superseded' = superseded \ {t}
      BY Zenon, <2>6, <2>7, <3>1 DEF AwaitLoad
    <3>2. CASE /\ after[t] # <<>>
               /\ Goto(t, Head(after[t]))
               /\ after' = [after EXCEPT ![t] = Tail(@)]
               /\ joined' = [joined EXCEPT ![t] = NoLoad]
               /\ DropHandle(t)
               /\ UNCHANGED <<ctx, snap, todo, superseded, outdated, seen>>
      <4>1. after[t] \in Seq(TaskPoints)
        BY Zenon DEF TypeOK
      <4>2. Head(after[t]) \in TaskPoints /\ Tail(after[t]) \in Seq(TaskPoints)
        BY <3>2, <4>1
      <4>3. cleanups' \subseteq Loads
        BY Zenon, <3>2 DEF DropHandle, TypeOK
      <4> QED BY Zenon, <2>7, <3>2, <4>2, <4>3 DEF AwaitLoad, TypeOK
    <3> QED BY Zenon, <2>7, <3>1, <3>2 DEF AwaitLoad
  <2>8. CASE NextKey(t)
    <3>1. CASE EndCall(t) /\ superseded' = superseded \ {t}
      BY Zenon, <2>6, <2>8, <3>1 DEF NextKey
    <3>2. ASSUME NEW k \in todo[t],
                 todo' = [todo EXCEPT ![t] = @ \ {k}],
                 ctx' = [ctx EXCEPT ![t].key = k],
                 after' = [after EXCEPT ![t] = <<"next_key">>],
                 Goto(t, "remove_get"),
                 UNCHANGED <<snap, joined, cleanups, superseded, outdated, seen>>
          PROVE  TypeOK'
      <4>1. k \in Keys
        BY Zenon DEF TypeOK
      <4>2. [ctx[t] EXCEPT !.key = k] \in
              [key : Keys, tags : SUBSET Tags, version : Nat, old : SUBSET Tags]
        BY Zenon, <2>0, <4>1
      <4>3. ctx' \in [Actors -> [key : Keys, tags : SUBSET Tags, version : Nat,
                                old : SUBSET Tags]]
        BY Zenon, <3>2, <4>2 DEF TypeOK
      <4>4. after' \in [Tasks -> Seq(TaskPoints)]
        <5>1. <<"next_key">> \in Seq(TaskPoints)
          BY DEF TaskPoints
        <5> QED BY Zenon, <3>2, <5>1 DEF TypeOK
      <4>5. todo' \in [Tasks -> SUBSET Keys]
        BY Zenon, <3>2 DEF TypeOK
      <4> QED BY Zenon, <2>8, <3>2, <4>3, <4>4, <4>5 DEF NextKey, TypeOK, TaskPoints
    <3> QED BY Zenon, <2>8, <3>1, <3>2 DEF NextKey
  <2>9. CASE RemoveGet(t)
    <3>1. CASE Present(ctx[t].key)
      <4>1. [ctx[t] EXCEPT !.old = store[ctx[t].key].tags] \in
              [key : Keys, tags : SUBSET Tags, version : Nat, old : SUBSET Tags]
        BY Zenon, <2>0
      <4>2. ctx' \in [Actors -> [key : Keys, tags : SUBSET Tags, version : Nat,
                                old : SUBSET Tags]]
        BY ZenonT(40), <2>9, <3>1, <4>1 DEF RemoveGet, TypeOK
      <4> QED BY Zenon, <2>9, <3>1, <4>2 DEF RemoveGet, TypeOK, TaskPoints
    <3>2. CASE ~Present(ctx[t].key)
      BY Zenon, <2>9, <3>2, <1>ContinueTypes DEF RemoveGet, TypeOK
    <3> QED BY Zenon, <3>1, <3>2
  <2>10. CASE RemoveStore(t)
    <3>1. store' \in [Keys -> Entries]
      BY Zenon, <2>0, <2>10, Nothing DEF RemoveStore, TypeOK
    <3> QED BY Zenon, <2>10, <3>1 DEF RemoveStore, TypeOK, TaskPoints
  <2>11. CASE RemoveUnregister(t)
    <3>1. index' \in Indexes
      BY Zenon, <2>0, <2>11, <1>MembershipTypes DEF RemoveUnregister, TypeOK
    <3> QED BY Zenon, <2>11, <3>1, <1>ContinueTypes DEF RemoveUnregister, TypeOK
  <2>12. CASE FlushClear(t)
    <3>1. index' \in Indexes
      BY Zenon, <2>12, RotateTypes DEF FlushClear, TypeOK
    <3>2. superseded' \subseteq Actors
      BY Zenon, <2>12 DEF FlushClear, TypeOK
    <3> QED BY Zenon, <2>12, <3>1, <3>2, <1>EndCallTypes DEF FlushClear, TypeOK
  <2> QED BY Zenon, <2>1, <2>2, <2>4, <2>5, <2>7, <2>8, <2>9, <2>10, <2>11, <2>12 DEF TaskStep
  \* The steps of a load keep the types.
<1>LoadStepTypes.
      ASSUME TypeOK, NEW l \in Loads, LoadStep(l)
      PROVE  TypeOK'
  <2> USE <1>LoadStepTypes
  <2> USE DEF Goto, locals
  <2>0. l \in Actors
    BY Zenon DEF Actors
  <2>1. CASE LoaderReturns(l)
    <3>1. pc' \in [Actors -> TaskPoints \cup LoadPoints]
      BY Zenon, <2>0, <2>1 DEF LoaderReturns, TypeOK, LoadPoints
    <3> QED BY Zenon, <2>1, <3>1 DEF LoaderReturns, TypeOK
  <2>2. CASE CheckFresh(l)
    <3>1. pc' \in [Actors -> TaskPoints \cup LoadPoints]
      BY Zenon, <2>0, <2>2 DEF CheckFresh, TypeOK, LoadPoints
    <3>2. nextVersion' \in Nat \ {0}
      BY <2>2 DEF CheckFresh, TypeOK
    <3>3. [ctx[l] EXCEPT !.version = nextVersion] \in
              [key : Keys, tags : SUBSET Tags, version : Nat, old : SUBSET Tags]
      BY ZenonT(40), <2>0 DEF TypeOK
    <3>4. ctx' \in [Actors -> [key : Keys, tags : SUBSET Tags, version : Nat,
                              old : SUBSET Tags]]
      BY ZenonT(40), <2>2, <3>3 DEF CheckFresh, TypeOK
    <3> QED BY Zenon, <2>2, <3>1, <3>2, <3>4 DEF CheckFresh, TypeOK
  <2>3. CASE SkipOversize(l)
    BY Zenon, <2>0, <2>3 DEF SkipOversize, TypeOK, LoadPoints
  <2>4. CASE Write(l)
    BY Zenon, <2>0, <2>4, <1>WriteTypes
  <2>5. CASE FinishLoad(l)
    <3>1. inflight' \in [Keys -> Loads \cup {NoLoad}]
      BY Zenon, <2>5 DEF FinishLoad, TypeOK
    <3>2. pc' \in [Actors -> TaskPoints \cup LoadPoints]
      BY Zenon, <2>0, <2>5 DEF FinishLoad, TypeOK, LoadPoints
    <3> QED BY Zenon, <2>5, <3>1, <3>2 DEF FinishLoad, TypeOK
  <2> QED BY Zenon, <2>1, <2>2, <2>3, <2>4, <2>5 DEF LoadStep
<1> SUFFICES ASSUME TypeOK, [Next]_vars PROVE TypeOK'
  BY Zenon
<1>1. ASSUME NEW t \in Tasks \cap Dropped, Cancel(t) PROVE TypeOK'
  BY Zenon, <1>1, <1>EndCallTypes DEF Cancel, TypeOK
<1>2. ASSUME NEW l \in Loads, RemoveIfIdle(l) PROVE TypeOK'
  <2>1. inflight' \in [Keys -> Loads \cup {NoLoad}]
    BY Zenon, <1>2 DEF RemoveIfIdle, TypeOK
  <2>2. cleanups' \subseteq Loads
    BY Zenon, <1>2 DEF RemoveIfIdle, TypeOK
  <2> QED BY Zenon, <1>2, <2>1, <2>2 DEF RemoveIfIdle, TypeOK
<1>3. ASSUME NEW k \in Keys, Evict(k) PROVE TypeOK'
  BY Zenon, <1>3, Nothing DEF Evict, locals, TypeOK
<1>4. CASE UNCHANGED vars
  BY Zenon, <1>4 DEF vars, TypeOK
<1> QED BY Zenon, <1>1, <1>2, <1>3, <1>4, <1>StartTypes, <1>TaskStepTypes, <1>LoadStepTypes,
           DroppedAssumption DEF Next

\* Every value of every variable of the cache has its type in all behaviours:
\* no call, load, invalidation, eviction or dropped call takes the store, the
\* index or the single-flight map outside the states the code can represent.
THEOREM Types == Spec => []TypeOK
<1>1. Init => TypeOK
  <2> SUFFICES ASSUME Init PROVE TypeOK
    BY Zenon
  <2>1. pc \in [Actors -> TaskPoints \cup LoadPoints]
    BY Zenon DEF Init, TaskPoints, LoadPoints
  <2>2. nextLoad \in 1 .. MaxLoads + 1
    BY LoadsAssumption DEF Init
  <2>3. after \in [Tasks -> Seq(TaskPoints)]
    BY DEF Init
  <2> QED BY <2>1, <2>2, <2>3, Nothing DEF Init, TypeOK
<1> QED BY <1>1, TypeStep, PTL DEF Spec

-----------------------------------------------------------------------------
(* Who holds which load *)

\* Load futures not created yet are untouched; a task holds a handle only while
\* it waits; the map holds created loads under their own key.
Bookkeeping ==
    /\ \A l \in Loads : l >= nextLoad => pc[l] = "free" /\ l \notin superseded
    /\ \A t \in Tasks : pc[t] # "wait" => joined[t] = NoLoad
    /\ \A t \in Tasks : joined[t] # NoLoad => joined[t] < nextLoad
    /\ \A k \in Keys : inflight[k] # NoLoad =>
          inflight[k] < nextLoad /\ ctx[inflight[k]].key = k

\* Tasks are not loads.
LEMMA TasksAreNotLoads == Tasks \cap Loads = {} /\ NoLoad \notin Loads
  BY SMTT(20), Zenon, ActorsAssumption, LoadsAssumption DEF Loads, NoLoad

\* Every step keeps the books.
LEMMA BooksStep ==
    ASSUME TypeOK, TypeOK', Bookkeeping, [Next]_vars
    PROVE  Bookkeeping'
  \* The steps that create no load keep the books under these conditions.
<1>BooksKept.
      ASSUME TypeOK, TypeOK', Bookkeeping, nextLoad' = nextLoad,
             \A l \in Loads : pc[l] = "free" => pc'[l] = "free",
             \A l \in Loads : l \in superseded' => l \in superseded \/ pc[l] # "free",
             \A t \in Tasks : \/ joined'[t] = NoLoad
                              \/ joined'[t] = joined[t] /\ pc'[t] = pc[t]
                              \/ joined'[t] < nextLoad /\ pc'[t] = "wait",
             \A k \in Keys : inflight'[k] \in {inflight[k], NoLoad},
             \A l \in Loads : ctx'[l].key = ctx[l].key
      PROVE  Bookkeeping'
  <2> USE <1>BooksKept
  <2>1. \A l \in Loads : l >= nextLoad' => pc'[l] = "free" /\ l \notin superseded'
    BY Zenon DEF Bookkeeping
  <2>2. \A t \in Tasks : pc'[t] # "wait" => joined'[t] = NoLoad
    BY Zenon DEF Bookkeeping
  <2>3. \A t \in Tasks : joined'[t] # NoLoad => joined'[t] < nextLoad'
    BY Zenon DEF Bookkeeping
  <2>4. \A k \in Keys : inflight'[k] # NoLoad =>
            inflight'[k] < nextLoad' /\ ctx'[inflight'[k]].key = k
    <3> SUFFICES ASSUME NEW k \in Keys, inflight'[k] # NoLoad
                 PROVE  inflight'[k] < nextLoad' /\ ctx'[inflight'[k]].key = k
      BY Zenon
    <3>1. inflight'[k] = inflight[k]
      BY Zenon
    <3>2. inflight[k] \in Loads
      BY Zenon, <3>1 DEF TypeOK
    <3> QED BY Zenon, <3>1, <3>2 DEF Bookkeeping
  <2> QED BY Zenon, <2>1, <2>2, <2>3, <2>4 DEF Bookkeeping
  \* The end of a call keeps the books.
<1>EndCallBooks.
      ASSUME TypeOK, TypeOK', Bookkeeping, NEW t \in Tasks, EndCall(t),
             nextLoad' = nextLoad, inflight' = inflight,
             \A l \in Loads : l \in superseded' => l \in superseded \/ pc[l] # "free"
      PROVE  Bookkeeping'
  <2> USE <1>EndCallBooks
  <2>1. /\ \A u \in Actors : u # t => pc'[u] = pc[u] /\ ctx'[u] = ctx[u]
        /\ joined' = [joined EXCEPT ![t] = NoLoad]
    BY Zenon DEF EndCall, Goto, TypeOK
  <2>2. \A l \in Loads : l \in Actors /\ l # t
    BY Zenon, TasksAreNotLoads DEF Actors
  <2>3. \A u \in Tasks : u \in Actors
    BY Zenon DEF Actors
  <2>4. \A u \in Tasks : joined'[u] = NoLoad \/ (joined'[u] = joined[u] /\ pc'[u] = pc[u])
    BY Zenon, <2>1, <2>3 DEF TypeOK
  <2> QED BY Zenon, <2>1, <2>2, <2>4, <1>BooksKept
  \* A task that moves on outside "wait" keeps the books.
<1>MoveBooks.
      ASSUME TypeOK, TypeOK', Bookkeeping, NEW t \in Tasks, NEW point,
             Goto(t, point), pc[t] # "wait",
             nextLoad' = nextLoad, inflight' = inflight, joined' = joined,
             \A l \in Loads : ctx'[l] = ctx[l],
             \A l \in Loads : l \in superseded' => l \in superseded \/ pc[l] # "free"
      PROVE  Bookkeeping'
  <2> USE <1>MoveBooks
  <2>1. \A u \in Actors : u # t => pc'[u] = pc[u]
    BY Zenon DEF Goto, TypeOK
  <2>2. \A l \in Loads : l \in Actors /\ l # t
    BY Zenon, TasksAreNotLoads DEF Actors
  <2>3. \A u \in Tasks : u \in Actors
    BY Zenon DEF Actors
  <2>4. \A u \in Tasks : joined'[u] = NoLoad \/ (joined'[u] = joined[u] /\ pc'[u] = pc[u])
    BY Zenon, <2>1, <2>3 DEF Bookkeeping
  <2> QED BY Zenon, <2>1, <2>2, <2>4, <1>BooksKept
  \* So does a load that has been created.
<1>LoadMoveBooks.
      ASSUME TypeOK, TypeOK', Bookkeeping, NEW l \in Loads, NEW point,
             Goto(l, point), pc[l] # "free",
             nextLoad' = nextLoad, joined' = joined, superseded' = superseded,
             \A k \in Keys : inflight'[k] \in {inflight[k], NoLoad},
             \A m \in Loads : ctx'[m].key = ctx[m].key
      PROVE  Bookkeeping'
  <2> USE <1>LoadMoveBooks
  <2>1. \A u \in Actors : u # l => pc'[u] = pc[u]
    BY Zenon DEF Goto, TypeOK
  <2>2. \A m \in Loads : m \in Actors
    BY Zenon DEF Actors
  <2>3. \A u \in Tasks : u \in Actors /\ u # l
    BY Zenon, TasksAreNotLoads DEF Actors
  <2> QED BY Zenon, <2>1, <2>2, <2>3, <1>BooksKept
<1>0. \A t \in Tasks : t \in Actors /\ t \notin Loads
  BY Zenon, TasksAreNotLoads DEF Actors
<1>c. DOMAIN ctx = Actors /\ ctx = [a \in Actors |-> ctx[a]] /\ Loads \subseteq Actors
  BY Zenon DEF TypeOK, Actors
<1>d. DOMAIN pc = Actors /\ Loads \subseteq Actors
  BY Zenon DEF TypeOK, Actors
<1>1. ASSUME NEW t \in Tasks, NEW point, NEW k, NEW T, NEW rest,
             Begin(t, point, k, T, rest),
             \A l \in Loads : l \in superseded' => l \in superseded \/ pc[l] # "free"
      PROVE  Bookkeeping'
  <2>1. \A l \in Loads : ctx'[l] = ctx[l]
    BY Zenon, <1>0, <1>c, <1>1 DEF Begin
  <2> QED BY Zenon, <1>1, <2>1, <1>MoveBooks DEF Begin
<1>2. ASSUME NEW t \in Tasks, Start(t) PROVE Bookkeeping'
  <2>1. ASSUME NEW k \in Keys, Get(t, k) PROVE Bookkeeping'
    BY Zenon, <2>1 DEF Get, vars, Bookkeeping
  <2>2. ASSUME NEW k \in Keys, ReadExpired(t, k) PROVE Bookkeeping'
    BY Zenon, <1>1, <2>2 DEF ReadExpired
  <2>3. ASSUME NEW k \in Keys, InvalidateKey(t, k) PROVE Bookkeeping'
    <3>1. \A l \in Loads : l \in superseded' => l \in superseded \/ pc[l] # "free"
      BY Zenon, <2>3 DEF InvalidateKey, Supersede, Holding
    <3> QED BY Zenon, <1>1, <2>3, <3>1 DEF InvalidateKey
  <2>4. ASSUME NEW g \in Tags, InvalidateTag(t, g) PROVE Bookkeeping'
    <3>1. \A l \in Loads : l \in superseded' => l \in superseded \/ pc[l] # "free"
      BY Zenon, <2>4 DEF InvalidateTag, Supersede, Holding
    <3> QED BY Zenon, <1>1, <2>4, <3>1 DEF InvalidateTag
  <2>5. ASSUME NEW k \in Keys, NEW T \in TagChoices[k],
               \/ GetOrLoad(t, k, T) \/ BackgroundRefresh(t, k, T)
               \/ GetOrLoadExpired(t, k, T)
        PROVE  Bookkeeping'
    BY Zenon, <1>1, <2>5 DEF GetOrLoad, BackgroundRefresh, GetOrLoadExpired
  <2>6. ASSUME NEW k \in Keys, NEW T \in TagChoices[k], Put(t, k, T)
        PROVE  Bookkeeping'
    <3>1. \A l \in Loads : ctx'[l] = ctx[l]
      BY Zenon, <1>0, <1>c, <2>6 DEF Put
    <3> QED BY Zenon, <2>6, <3>1, <1>MoveBooks DEF Put
  <2>7. ASSUME Flush(t) PROVE Bookkeeping'
    BY Zenon, <2>7, <1>MoveBooks DEF Flush, locals
  <2> QED BY Zenon, <1>2, <2>1, <2>2, <2>3, <2>4, <2>5, <2>6, <2>7 DEF Start
<1>3. ASSUME NEW t \in Tasks, Write(t) PROVE Bookkeeping'
  <2>1. CASE WriteGetOld(t)
    <3>1. \A l \in Loads : ctx'[l] = ctx[l]
      BY <1>0, <2>1 DEF WriteGetOld, TypeOK, Actors
    <3> QED BY Zenon, <2>1, <3>1, <1>MoveBooks DEF WriteGetOld
  <2>2. CASE WriteUnregister(t) \/ WriteInsert(t)
    BY Zenon, <2>2, <1>MoveBooks DEF WriteUnregister, WriteInsert, locals
  <2>3. CASE WriteRegister(t)
    BY Zenon, <1>0, <2>3, <1>EndCallBooks DEF WriteRegister
  <2> QED BY Zenon, <1>3, <2>1, <2>2, <2>3 DEF Write
<1>4. ASSUME NEW t \in Tasks, NEW l \in Loads, Join(t, l), l < nextLoad
      PROVE  Bookkeeping'
  <2>1. /\ joined' = [joined EXCEPT ![t] = l]
        /\ pc' = [pc EXCEPT ![t] = "wait"]
        /\ UNCHANGED <<nextLoad, superseded, inflight, ctx>>
    BY Zenon, <1>4 DEF Join, Goto
  <2>2. \A m \in Loads : pc'[m] = pc[m]
    BY Zenon, <1>0, <1>d, <2>1
  <2>3. \A u \in Tasks : \/ joined'[u] = joined[u] /\ pc'[u] = pc[u]
                         \/ joined'[u] < nextLoad /\ pc'[u] = "wait"
    BY Zenon, <1>0, <1>4, <2>1 DEF TypeOK
  <2> QED BY Zenon, <2>1, <2>2, <2>3, <1>BooksKept
<1>5. ASSUME NEW t \in Tasks, TaskStep(t) PROVE Bookkeeping'
  <2>0. ctx[t].key \in Keys /\ inflight[ctx[t].key] \in Loads \cup {NoLoad}
    BY Zenon, <1>0 DEF TypeOK
  <2>1. CASE SnapshotGeneration(t)
    BY Zenon, <2>1, <1>MoveBooks DEF SnapshotGeneration
  <2>2. CASE GetCurrent(t)
    <3>1. CASE CanJoin(t, inflight[ctx[t].key])
      BY Zenon, <1>4, <2>0, <2>2, <3>1 DEF GetCurrent, CanJoin, Bookkeeping
    <3>2. CASE ~CanJoin(t, inflight[ctx[t].key])
      BY Zenon, <2>2, <3>2, <1>MoveBooks DEF GetCurrent, locals
    <3> QED BY Zenon, <3>1, <3>2
  <2>3. CASE InsertOrGetCurrent(t)
    <3>1. CASE CanJoin(t, inflight[ctx[t].key])
      BY Zenon, <1>4, <2>0, <2>3, <3>1 DEF InsertOrGetCurrent, CanJoin, Bookkeeping
    <3>2. CASE ~CanJoin(t, inflight[ctx[t].key])
      <4>1. /\ nextLoad \in Loads /\ nextLoad' = nextLoad + 1
            /\ inflight' = [inflight EXCEPT ![ctx[t].key] = nextLoad]
            /\ pc' = [pc EXCEPT ![t] = "wait", ![nextLoad] = "loading"]
            /\ ctx' = [ctx EXCEPT ![nextLoad] = [ctx[t] EXCEPT !.old = {}]]
            /\ joined' = [joined EXCEPT ![t] = nextLoad]
            /\ superseded' \subseteq superseded \cup {nextLoad}
        BY Zenon, <2>3, <3>2, NewLoad
      <4>2. \A l \in Loads : l \in Nat
        BY DEF Loads
      <4>3. \A l \in Loads : l >= nextLoad' => pc'[l] = "free" /\ l \notin superseded'
        <5> SUFFICES ASSUME NEW l \in Loads, l >= nextLoad'
                     PROVE  pc'[l] = "free" /\ l \notin superseded'
          BY Zenon
        <5>1. l \in Nat /\ nextLoad \in Nat /\ l >= nextLoad /\ l # nextLoad
          BY <4>1, <4>2
        <5>2. l \in Actors /\ l # t
          BY Zenon, <1>0 DEF Actors
        <5>3. pc'[l] = pc[l]
          BY Zenon, <4>1, <5>1, <5>2 DEF TypeOK
        <5> QED BY Zenon, <4>1, <5>1, <5>3 DEF Bookkeeping
      <4>4. \A u \in Tasks : pc'[u] # "wait" => joined'[u] = NoLoad
        BY <1>0, <4>1 DEF Bookkeeping, TypeOK
      <4>5. \A u \in Tasks : joined'[u] # NoLoad => joined'[u] < nextLoad'
        BY <4>1, <4>2 DEF Bookkeeping, TypeOK
      <4>6. \A l \in Loads : l < nextLoad => ctx'[l] = ctx[l]
        BY <4>1, <4>2 DEF TypeOK, Actors
      <4>7. ctx'[nextLoad].key = ctx[t].key
        BY <1>0, <4>1 DEF TypeOK, Actors
      <4>8. \A k \in Keys : inflight'[k] # NoLoad =>
                inflight'[k] < nextLoad' /\ ctx'[inflight'[k]].key = k
        <5> TAKE k \in Keys
        <5>1. CASE k = ctx[t].key
          BY <4>1, <4>2, <4>7, <5>1 DEF TypeOK
        <5>2. CASE k # ctx[t].key
          BY <4>1, <4>2, <4>6, <5>2 DEF TypeOK, Bookkeeping
        <5> QED BY Zenon, <5>1, <5>2
      <4> QED BY Zenon, <4>3, <4>4, <4>5, <4>8 DEF Bookkeeping
    <3> QED BY ZenonT(20), <3>1, <3>2
  <2>4. CASE AwaitLoad(t)
    <3>1. CASE EndCall(t) /\ superseded' = superseded \ {t}
      BY Zenon, <2>4, <3>1, <1>EndCallBooks DEF AwaitLoad
    <3>2. CASE /\ Goto(t, Head(after[t]))
               /\ joined' = [joined EXCEPT ![t] = NoLoad]
               /\ UNCHANGED <<ctx, superseded>>
      <4>1. \A u \in Actors : u # t => pc'[u] = pc[u]
        BY Zenon, <3>2 DEF Goto, TypeOK
      <4>2. \A u \in Tasks : \/ joined'[u] = NoLoad
                             \/ joined'[u] = joined[u] /\ pc'[u] = pc[u]
        BY Zenon, <1>0, <3>2, <4>1 DEF TypeOK
      <4> QED BY Zenon, <1>0, <2>4, <3>2, <4>1, <4>2, <1>BooksKept DEF AwaitLoad, Actors
    <3> QED BY Zenon, <2>4, <3>1, <3>2 DEF AwaitLoad
  <2>5. CASE NextKey(t)
    <3>1. CASE EndCall(t) /\ superseded' = superseded \ {t}
      BY Zenon, <2>5, <3>1, <1>EndCallBooks DEF NextKey
    <3>2. ASSUME NEW k \in todo[t], ctx' = [ctx EXCEPT ![t].key = k],
                 Goto(t, "remove_get"), UNCHANGED <<joined, superseded>>
          PROVE  Bookkeeping'
      <4>1. \A l \in Loads : ctx'[l] = ctx[l]
        BY <1>0, <3>2 DEF TypeOK, Actors
      <4> QED BY Zenon, <2>5, <3>2, <4>1, <1>MoveBooks DEF NextKey
    <3> QED BY Zenon, <2>5, <3>1, <3>2 DEF NextKey
  <2>6. ASSUME Continue(t), pc[t] # "wait", UNCHANGED <<inflight, nextLoad>>
        PROVE  Bookkeeping'
    <3>1. CASE after[t] = <<>>
      BY Zenon, <2>6, <3>1, <1>EndCallBooks DEF Continue
    <3>2. CASE after[t] # <<>>
      BY Zenon, <2>6, <3>2, <1>MoveBooks DEF Continue
    <3> QED BY Zenon, <3>1, <3>2
  <2>7. CASE RemoveGet(t)
    <3>1. CASE Present(ctx[t].key)
      <4>1. \A l \in Loads : ctx'[l] = ctx[l]
        BY <1>0, <2>7, <3>1 DEF RemoveGet, TypeOK, Actors
      <4> QED BY Zenon, <2>7, <3>1, <4>1, <1>MoveBooks DEF RemoveGet
    <3>2. CASE ~Present(ctx[t].key)
      BY Zenon, <2>6, <2>7, <3>2 DEF RemoveGet
    <3> QED BY Zenon, <3>1, <3>2
  <2>8. CASE RemoveStore(t)
    BY Zenon, <2>8, <1>MoveBooks DEF RemoveStore, locals
  <2>9. CASE RemoveUnregister(t)
    BY Zenon, <2>6, <2>9 DEF RemoveUnregister
  <2>10. CASE FlushClear(t)
    <3>1. \A l \in Loads : l \in superseded' => l \in superseded \/ pc[l] # "free"
      BY Zenon, <2>10 DEF FlushClear, Holding
    <3> QED BY Zenon, <2>10, <3>1, <1>EndCallBooks DEF FlushClear
  <2> QED BY Zenon, <1>3, <1>5, <2>1, <2>2, <2>3, <2>4, <2>5, <2>7, <2>8, <2>9, <2>10
          DEF TaskStep
<1>6. ASSUME NEW l \in Loads, LoadStep(l) PROVE Bookkeeping'
  <2>1. CASE LoaderReturns(l) \/ SkipOversize(l)
    BY Zenon, <2>1, <1>LoadMoveBooks DEF LoaderReturns, SkipOversize, locals
  <2>2. CASE CheckFresh(l)
    <3>1. \A m \in Loads : ctx'[m].key = ctx[m].key
      <4>1. ctx' = ctx \/ ctx' = [ctx EXCEPT ![l].version = nextVersion]
        BY Zenon, <2>2 DEF CheckFresh
      <4>2. /\ ctx \in [Actors -> [key : Keys, tags : SUBSET Tags, version : Nat,
                                  old : SUBSET Tags]]
            /\ Loads \subseteq Actors
        BY Zenon DEF TypeOK, Actors
      <4>3. CASE ctx' = [ctx EXCEPT ![l].version = nextVersion]
        BY Zenon, <4>2, <4>3
      <4> QED BY Zenon, <4>1, <4>3
    <3>2. /\ pc[l] # "free" /\ inflight' = inflight
          /\ UNCHANGED <<nextLoad, joined, superseded>>
      BY Zenon, <2>2 DEF CheckFresh
    <3>3. CASE Goto(l, "get_old")
      BY Zenon, <3>1, <3>2, <3>3, <1>LoadMoveBooks
    <3>4. CASE Goto(l, "finish")
      BY Zenon, <3>1, <3>2, <3>4, <1>LoadMoveBooks
    <3> QED BY Zenon, <2>2, <3>3, <3>4 DEF CheckFresh
  <2>3. CASE WriteGetOld(l)
    <3>1. \A m \in Loads : ctx'[m].key = ctx[m].key
      BY SMTT(20), Zenon, <2>3 DEF WriteGetOld, TypeOK, Actors
    <3> QED BY Zenon, <2>3, <3>1, <1>LoadMoveBooks DEF WriteGetOld
  <2>4. CASE WriteUnregister(l) \/ WriteInsert(l)
    BY Zenon, <2>4, <1>LoadMoveBooks DEF WriteUnregister, WriteInsert, locals
  <2>5. CASE WriteRegister(l)
    BY Zenon, <1>0, <2>5, <1>LoadMoveBooks DEF WriteRegister, locals
  <2>6. CASE FinishLoad(l)
    <3>1. \A k \in Keys : inflight'[k] \in {inflight[k], NoLoad}
      BY Zenon, <2>6 DEF FinishLoad, TypeOK
    <3> QED BY Zenon, <2>6, <3>1, <1>LoadMoveBooks DEF FinishLoad, locals
  <2> QED BY Zenon, <1>6, <2>1, <2>2, <2>3, <2>4, <2>5, <2>6
      DEF LoadStep, Write
<1>7. ASSUME NEW l \in Loads, RemoveIfIdle(l) PROVE Bookkeeping'
  <2>1. \A k \in Keys : inflight'[k] \in {inflight[k], NoLoad}
    BY Zenon, <1>7 DEF RemoveIfIdle, TypeOK
  <2> QED BY Zenon, <1>7, <2>1, <1>BooksKept DEF RemoveIfIdle
<1>8. ASSUME NEW k \in Keys, Evict(k) PROVE Bookkeeping'
  BY Zenon, <1>8 DEF Evict, locals, Bookkeeping
<1>9. ASSUME NEW t \in Tasks, Cancel(t) PROVE Bookkeeping'
  BY Zenon, <1>9, <1>EndCallBooks DEF Cancel
<1>10. CASE UNCHANGED vars
  BY Zenon, <1>10 DEF vars, Bookkeeping
<1> QED BY Zenon, <1>2, <1>5, <1>6, <1>7, <1>8, <1>9, <1>10, DroppedAssumption DEF Next

\* The single-flight books are right in every state.
LEMMA Books == Spec => []Bookkeeping
<1>1. Init => Bookkeeping
  BY Zenon, TasksAreNotLoads DEF Init, Bookkeeping, Actors
<1>2. TypeOK /\ TypeOK' /\ Bookkeeping /\ [Next]_vars => Bookkeeping'
  BY Zenon, BooksStep
<1> QED BY <1>1, <1>2, Types, PTL DEF Spec

-----------------------------------------------------------------------------
(* The generation fence *)

\* A snapshot is never ahead of the index it was taken from ...
NotAhead(ix, s) ==
    /\ s.global <= ix.global
    /\ s.global = ix.global =>
          /\ s.keyGeneration <= ix.keyGenerations[s.key]
          /\ \A g \in s.tags : s.generations[g] <= ix.generations[g]

\* ... and a superseded one is behind it in some counter that it holds.
Behind(ix, s) ==
    \/ s.global < ix.global
    \/ s.keyGeneration < ix.keyGenerations[s.key]
    \/ \E g \in s.tags : s.generations[g] < ix.generations[g]

FenceInvariant ==
    /\ \A a \in Actors : NotAhead(index, snap[a])
    /\ \A a \in superseded : Behind(index, snap[a])

\* The components of indexes and snapshots are natural numbers.
LEMMA Counters ==
    ASSUME NEW ix \in Indexes, NEW s \in Snapshots
    PROVE  /\ ix.global \in Nat /\ s.global \in Nat /\ s.key \in Keys
           /\ ix.keyGenerations \in [Keys -> Nat] /\ s.keyGeneration \in Nat
           /\ ix.generations \in [Tags -> Nat] /\ s.generations \in [Tags -> Nat]
           /\ s.tags \subseteq Tags
  BY Zenon DEF Indexes, Snapshots

\* is_current rejects a snapshot that is behind.
LEMMA BehindNotCurrent ==
    ASSUME NEW ix \in Indexes, NEW s \in Snapshots, Behind(ix, s)
    PROVE  ~IsCurrent(ix, s)
  BY Counters DEF Behind, IsCurrent

\* register and unregister leave every counter alone.
LEMMA MembershipFence ==
    ASSUME NEW ix \in Indexes, NEW k, NEW T, NEW v, NEW s
    PROVE  /\ NotAhead(ix, s) => NotAhead(Register(ix, k, T, v), s)
           /\ Behind(ix, s) => Behind(Register(ix, k, T, v), s)
           /\ NotAhead(ix, s) => NotAhead(Unregister(ix, k, T), s)
           /\ Behind(ix, s) => Behind(Unregister(ix, k, T), s)
  BY Zenon DEF Unregister, Register, NotAhead, Behind, Indexes

\* A higher global generation puts every snapshot behind.
LEMMA GlobalFence ==
    ASSUME NEW ix \in Indexes, NEW s \in Snapshots, NotAhead(ix, s),
           NEW ix2 \in Indexes, ix2.global = ix.global + 1
    PROVE  NotAhead(ix2, s) /\ Behind(ix2, s)
<1>1. ix.global \in Nat /\ ix2.global \in Nat /\ s.global \in Nat
  BY Zenon DEF Indexes, Snapshots
<1>2. s.global < ix2.global
  BY SMTT(20), Zenon, <1>1 DEF NotAhead
<1> QED BY <1>1, <1>2 DEF NotAhead, Behind

\* advance_key keeps old snapshots behind and puts those of its key behind,
\* whether or not it rotates the epoch.
LEMMA AdvanceKeyFence ==
    ASSUME NEW ix \in Indexes, NEW s \in Snapshots, NEW k \in Keys, NotAhead(ix, s)
    PROVE  /\ NotAhead(AdvanceKey(ix, k), s)
           /\ Behind(ix, s) => Behind(AdvanceKey(ix, k), s)
           /\ s.key = k => Behind(AdvanceKey(ix, k), s)
<1> DEFINE r == RoomForKey(ix, k)
           n == AdvanceKey(ix, k)
<1>1. r \in Indexes /\ n \in Indexes
  BY Zenon, AdvanceKeyType
<1>2. /\ n.global = r.global /\ n.generations = r.generations
      /\ n.keyGenerations = [r.keyGenerations EXCEPT ![k] = @ + 1]
  BY Zenon, <1>1 DEF AdvanceKey, Indexes
<1>3. CASE r = ix
  BY SMTT(60), ZenonT(40), <1>1, <1>2, <1>3, Counters DEF NotAhead, Behind
<1>4. CASE r = RotateGenerationEpoch(ix)
  <2>1. n.global = ix.global + 1
    BY Zenon, <1>2, <1>4 DEF RotateGenerationEpoch, EmptyIndex, Indexes
  <2> QED BY Zenon, <1>1, <2>1, GlobalFence
<1> QED BY Zenon, <1>3, <1>4 DEF RoomForKey

\* take_tag does the same for the snapshots that hold its tag.
LEMMA TakeTagFence ==
    ASSUME NEW ix \in Indexes, NEW s \in Snapshots, NEW g \in Tags, NotAhead(ix, s)
    PROVE  /\ NotAhead(TakeTag(ix, g), s)
           /\ Behind(ix, s) => Behind(TakeTag(ix, g), s)
           /\ g \in s.tags => Behind(TakeTag(ix, g), s)
<1> DEFINE r == RoomForTag(ix, g)
           n == TakeTag(ix, g)
<1>1. r \in Indexes /\ n \in Indexes
  BY Zenon, TakeTagType
<1>2. /\ n.global = r.global /\ n.keyGenerations = r.keyGenerations
      /\ n.generations = [r.generations EXCEPT ![g] = @ + 1]
  BY Zenon, <1>1 DEF TakeTag, Indexes
<1>3. CASE r = ix
  BY SMTT(60), ZenonT(40), <1>1, <1>2, <1>3, Counters DEF NotAhead, Behind
<1>4. CASE r = RotateGenerationEpoch(ix)
  <2>1. n.global = ix.global + 1
    BY Zenon, <1>2, <1>4 DEF RotateGenerationEpoch, EmptyIndex, Indexes
  <2> QED BY Zenon, <1>1, <2>1, GlobalFence
<1> QED BY Zenon, <1>3, <1>4 DEF RoomForTag

\* clear puts every snapshot behind.
LEMMA ClearFence ==
    ASSUME NEW ix \in Indexes, NEW s \in Snapshots, NotAhead(ix, s)
    PROVE  NotAhead(Clear(ix), s) /\ Behind(Clear(ix), s)
<1>1. Clear(ix) \in Indexes /\ Clear(ix).global = ix.global + 1
  BY Zenon, RotateTypes DEF Clear, EmptyIndex
<1> QED BY Zenon, <1>1, GlobalFence

\* A fresh snapshot is current, hence not ahead.
LEMMA SnapshotFence ==
    ASSUME NEW ix \in Indexes, NEW k \in Keys, NEW T \in SUBSET Tags
    PROVE  /\ NotAhead(ix, TakeSnapshot(ix, k, T))
           /\ IsCurrent(ix, TakeSnapshot(ix, k, T))
           /\ NotAhead(ix, NoSnapshot)
<1>1. /\ ix.global \in Nat
      /\ ix.keyGenerations \in [Keys -> Nat] /\ ix.generations \in [Tags -> Nat]
  BY Zenon DEF Indexes
<1> DEFINE s == TakeSnapshot(ix, k, T)
<1>s. /\ s.global = ix.global /\ s.key = k /\ s.tags = T
      /\ s.keyGeneration = ix.keyGenerations[k]
  BY Zenon DEF TakeSnapshot
<1>g. \A g \in T : s.generations[g] = ix.generations[g] /\ ix.generations[g] \in Nat
  BY Zenon, <1>1 DEF TakeSnapshot
<1>k. ix.keyGenerations[k] \in Nat
  BY Zenon, <1>1
<1> HIDE DEF s
<1>a. IsCurrent(ix, s)
  BY Zenon, <1>s, <1>g DEF IsCurrent
<1>b. NotAhead(ix, s)
  BY <1>1, <1>s, <1>g, <1>k DEF NotAhead
<1>2. NotAhead(ix, TakeSnapshot(ix, k, T)) /\ IsCurrent(ix, TakeSnapshot(ix, k, T))
  BY Zenon, <1>a, <1>b DEF s
<1>3. NoSnapshot.global = 0 /\ NoSnapshot.keyGeneration = 0 /\ NoSnapshot.tags = {}
  BY Zenon, Nothing DEF NoSnapshot, TakeSnapshot, EmptyIndex
<1>4. NoSnapshot.key \in Keys
  BY Zenon, Nothing DEF Snapshots
<1>5. NotAhead(ix, NoSnapshot)
  BY SMTT(20), Zenon, <1>1, <1>3, <1>4 DEF NotAhead
<1> QED BY Zenon, <1>2, <1>5

\* Every step keeps the fence.
LEMMA FenceStep ==
    ASSUME TypeOK, TypeOK', Bookkeeping, FenceInvariant, [Next]_vars
    PROVE  FenceInvariant'
  \* A step keeps the fence if its index keeps snapshots not ahead and behind, new
  \* snapshots are not ahead, and new superseded actors are behind.
<1>FenceKept.
      ASSUME TypeOK, FenceInvariant, index' \in Indexes,
             snap' \in [Actors -> Snapshots],
             \A s \in Snapshots : NotAhead(index, s) =>
                 NotAhead(index', s) /\ (Behind(index, s) => Behind(index', s)),
             \A a \in Actors : snap'[a] = snap[a] \/ NotAhead(index', snap'[a]),
             superseded' \subseteq Actors,
             \A a \in superseded' : \/ a \in superseded /\ snap'[a] = snap[a]
                                   \/ Behind(index', snap'[a])
      PROVE  FenceInvariant'
  <2> USE <1>FenceKept
  <2>1. \A a \in Actors : snap[a] \in Snapshots /\ NotAhead(index, snap[a])
    BY Zenon DEF TypeOK, FenceInvariant
  <2>2. \A a \in Actors : NotAhead(index', snap'[a])
    BY Zenon, <2>1
  <2>3. \A a \in superseded' : Behind(index', snap'[a])
    BY Zenon, <2>1 DEF FenceInvariant
  <2> QED BY Zenon, <2>2, <2>3 DEF FenceInvariant, NotAhead, Behind
  \* The end of a call drops the task's snapshot and its mark.
<1>EndCallFence.
      ASSUME TypeOK, TypeOK', FenceInvariant, NEW t \in Tasks, EndCall(t),
             superseded' = superseded \ {t},
             \A s \in Snapshots : NotAhead(index, s) =>
                 NotAhead(index', s) /\ (Behind(index, s) => Behind(index', s))
      PROVE  FenceInvariant'
  <2> USE <1>EndCallFence
  <2>1. snap' = [snap EXCEPT ![t] = NoSnapshot]
    BY Zenon DEF EndCall
  <2>2. NotAhead(index', NoSnapshot)
    BY Zenon, SnapshotFence, Nothing DEF TypeOK
  <2>3. \A a \in Actors : snap'[a] = snap[a] \/ NotAhead(index', snap'[a])
    BY Zenon, <2>1, <2>2 DEF TypeOK
  <2>4. \A a \in superseded' : a \in superseded /\ snap'[a] = snap[a]
    BY Zenon, <2>1 DEF TypeOK
  <2> QED BY Zenon, <2>3, <2>4, <1>FenceKept DEF TypeOK
<1>1. ASSUME UNCHANGED <<index, snap, superseded>> PROVE FenceInvariant'
  BY Zenon, <1>1 DEF FenceInvariant, NotAhead, Behind
<1>2. ASSUME NEW k \in Keys, NEW T \in SUBSET Tags, NEW v \in Nat,
             \/ index' = Register(index, k, T, v)
             \/ index' = Unregister(index, k, T)
             \/ index' = index
      PROVE  \A s \in Snapshots : NotAhead(index, s) =>
               NotAhead(index', s) /\ (Behind(index, s) => Behind(index', s))
  <2>1. index \in Indexes
    BY Zenon DEF TypeOK
  <2>2. CASE index' = Register(index, k, T, v)
    BY Zenon, <2>1, <2>2, MembershipFence
  <2>3. CASE index' = Unregister(index, k, T)
    BY Zenon, <2>1, <2>3, MembershipFence
  <2>4. CASE index' = index
    BY Zenon, <2>4
  <2> QED BY Zenon, <1>2, <2>2, <2>3, <2>4
<1>3. ASSUME NEW t \in Tasks, EndCall(t), superseded' = superseded \ {t},
             UNCHANGED index
      PROVE  FenceInvariant'
  BY Zenon, <1>2, <1>3, <1>EndCallFence, Nothing
<1>4. ASSUME NEW a \in Actors, NEW T \in SUBSET Tags, NEW v \in Nat,
             \/ index' = Register(index, ctx[a].key, T, v)
             \/ index' = Unregister(index, ctx[a].key, T),
             UNCHANGED <<snap, superseded>>
      PROVE  FenceInvariant'
  <2>1. ctx[a].key \in Keys
    BY Zenon DEF TypeOK
  <2>2. \A s \in Snapshots : NotAhead(index, s) =>
               NotAhead(index', s) /\ (Behind(index, s) => Behind(index', s))
    BY Zenon, <1>2, <1>4, <2>1
  <2> QED BY Zenon, <1>4, <2>2, <1>FenceKept DEF TypeOK
<1>5. ASSUME NEW t \in Tasks, Start(t) PROVE FenceInvariant'
  <2>1. ASSUME NEW k \in Keys, InvalidateKey(t, k) PROVE FenceInvariant'
    <3>1. /\ index' = AdvanceKey(index, k) /\ snap' = snap
          /\ superseded' \subseteq superseded \cup {a \in Actors : snap[a].key = k}
      BY Zenon, <2>1 DEF InvalidateKey, Begin, Supersede
    <3>2. \A s \in Snapshots : NotAhead(index, s) =>
            /\ NotAhead(index', s) /\ (Behind(index, s) => Behind(index', s))
            /\ s.key = k => Behind(index', s)
      BY Zenon, <3>1, AdvanceKeyFence DEF TypeOK
    <3>3. \A a \in superseded' : a \in superseded \/ Behind(index', snap'[a])
      BY Zenon, <3>1, <3>2 DEF TypeOK, FenceInvariant
    <3> QED BY Zenon, <3>1, <3>2, <3>3, <1>FenceKept DEF TypeOK
  <2>2. ASSUME NEW g \in Tags, InvalidateTag(t, g) PROVE FenceInvariant'
    <3>1. /\ index' = TakeTag(index, g) /\ snap' = snap
          /\ superseded' \subseteq superseded \cup {a \in Actors : g \in snap[a].tags}
      BY Zenon, <2>2 DEF InvalidateTag, Begin, Supersede
    <3>2. \A s \in Snapshots : NotAhead(index, s) =>
            /\ NotAhead(index', s) /\ (Behind(index, s) => Behind(index', s))
            /\ g \in s.tags => Behind(index', s)
      BY Zenon, <3>1, TakeTagFence DEF TypeOK
    <3>3. \A a \in superseded' : a \in superseded \/ Behind(index', snap'[a])
      BY Zenon, <3>1, <3>2 DEF TypeOK, FenceInvariant
    <3> QED BY Zenon, <3>1, <3>2, <3>3, <1>FenceKept DEF TypeOK
  <2>3. ASSUME NEW k \in Keys, NEW T \in TagChoices[k],
               \/ GetOrLoad(t, k, T) \/ BackgroundRefresh(t, k, T)
               \/ GetOrLoadExpired(t, k, T) \/ Put(t, k, T)
        PROVE  FenceInvariant'
    BY Zenon, <1>1, <2>3 DEF GetOrLoad, BackgroundRefresh, GetOrLoadExpired, Put, Begin
  <2>4. ASSUME NEW k \in Keys, Get(t, k) \/ ReadExpired(t, k) PROVE FenceInvariant'
    BY Zenon, <1>1, <2>4 DEF Get, vars, ReadExpired, Begin
  <2>5. ASSUME Flush(t) PROVE FenceInvariant'
    BY Zenon, <1>1, <2>5 DEF Flush, locals
  <2> QED BY Zenon, <1>5, <2>1, <2>2, <2>3, <2>4, <2>5 DEF Start
<1>6. ASSUME NEW a \in Actors, Write(a) PROVE FenceInvariant'
  <2>1. CASE WriteGetOld(a) \/ WriteInsert(a)
    BY Zenon, <1>1, <2>1 DEF WriteGetOld, WriteInsert, locals
  <2>2. CASE WriteUnregister(a)
    <3>1. ctx[a].old \in SUBSET Tags
      BY Zenon DEF TypeOK
    <3> QED BY Zenon, <1>4, <2>2, <3>1 DEF WriteUnregister, locals
  <2>3. CASE WriteRegister(a)
    <3>1. ctx[a].key \in Keys /\ ctx[a].tags \in SUBSET Tags /\ ctx[a].version \in Nat
      BY Zenon DEF TypeOK
    <3>2. CASE a \in Loads /\ UNCHANGED locals
      BY Zenon, <1>4, <2>3, <3>1, <3>2 DEF WriteRegister, locals
    <3>3. CASE a \in Tasks /\ EndCall(a) /\ superseded' = superseded \ {a}
      BY Zenon, <1>2, <2>3, <3>1, <3>3, <1>EndCallFence DEF WriteRegister
    <3> QED BY Zenon, <2>3, <3>2, <3>3 DEF WriteRegister
  <2> QED BY Zenon, <1>6, <2>1, <2>2, <2>3 DEF Write
<1>7. ASSUME NEW t \in Tasks, TaskStep(t) PROVE FenceInvariant'
  <2>0. t \in Actors /\ ctx[t].key \in Keys /\ ctx[t].tags \in SUBSET Tags
        /\ ctx[t].old \in SUBSET Tags
    BY Zenon DEF TypeOK, Actors
  <2>1. CASE SnapshotGeneration(t)
    <3>1. /\ index' = index
          /\ snap' = [snap EXCEPT ![t] = TakeSnapshot(index, ctx[t].key, ctx[t].tags)]
          /\ superseded' = superseded \ {t}
      BY Zenon, <2>1 DEF SnapshotGeneration
    <3>2. NotAhead(index', TakeSnapshot(index, ctx[t].key, ctx[t].tags))
      BY Zenon, <2>0, <3>1, SnapshotFence DEF TypeOK
    <3>3. \A a \in Actors : snap'[a] = snap[a] \/ NotAhead(index', snap'[a])
      BY Zenon, <3>1, <3>2 DEF TypeOK
    <3>4. \A a \in superseded' : a \in superseded /\ snap'[a] = snap[a]
      BY Zenon, <3>1 DEF TypeOK
    <3> QED BY Zenon, <3>1, <3>3, <3>4, <1>FenceKept DEF TypeOK
  <2>2. CASE GetCurrent(t)
    BY Zenon, <1>1, <2>2 DEF GetCurrent, Join, locals
  <2>3. CASE InsertOrGetCurrent(t)
    <3>1. CASE CanJoin(t, inflight[ctx[t].key])
      BY Zenon, <1>1, <2>3, <3>1 DEF InsertOrGetCurrent, Join
    <3>2. CASE ~CanJoin(t, inflight[ctx[t].key])
      <4>1. /\ index' = index /\ nextLoad \in Actors
            /\ snap' = [snap EXCEPT ![nextLoad] = snap[t]]
            /\ superseded' = superseded \cup
                                (IF t \in superseded THEN {nextLoad} ELSE {})
        BY Zenon, <2>3, <3>2, NewLoad DEF Actors
      <4>2. \A a \in Actors : NotAhead(index', snap'[a])
        BY Zenon, <2>0, <4>1 DEF TypeOK, FenceInvariant
      <4>3. nextLoad \notin superseded
        BY SMTT(20), Zenon, <2>3, <3>2, NewLoad DEF Bookkeeping, TypeOK
      <4>4. \A a \in superseded' : \/ a \in superseded /\ snap'[a] = snap[a]
                                   \/ Behind(index', snap'[a])
        BY Zenon, <2>0, <4>1, <4>3 DEF TypeOK, FenceInvariant
      <4> QED BY Zenon, <4>1, <4>2, <4>4, <1>FenceKept DEF TypeOK
    <3> QED BY Zenon, <3>1, <3>2
  <2>4. CASE AwaitLoad(t)
    BY Zenon, <1>1, <1>3, <2>4 DEF AwaitLoad
  <2>5. CASE NextKey(t)
    BY Zenon, <1>1, <1>3, <2>5 DEF NextKey
  <2>6. CASE RemoveGet(t)
    BY Zenon, <1>1, <1>3, <2>6 DEF RemoveGet, Continue
  <2>7. CASE RemoveStore(t)
    BY Zenon, <1>1, <2>7 DEF RemoveStore, locals
  <2>8. CASE RemoveUnregister(t)
    <3>1. index' = Unregister(index, ctx[t].key, ctx[t].old)
      BY Zenon, <2>8 DEF RemoveUnregister
    <3>2. CASE after[t] = <<>>
      BY Zenon, <1>2, <2>0, <2>8, <3>1, <3>2, <1>EndCallFence
          DEF RemoveUnregister, Continue
    <3>3. CASE after[t] # <<>>
      BY Zenon, <1>4, <2>0, <2>8, <3>1, <3>3 DEF RemoveUnregister, Continue
    <3> QED BY Zenon, <3>2, <3>3
  <2>9. CASE FlushClear(t)
    <3>1. /\ index' = Clear(index) /\ superseded' \subseteq Actors
          /\ snap' = [snap EXCEPT ![t] = NoSnapshot] /\ t \notin superseded'
      BY Zenon, <2>9 DEF FlushClear, EndCall, TypeOK
    <3>2. \A s \in Snapshots : NotAhead(index, s) =>
            NotAhead(index', s) /\ Behind(index', s)
      BY Zenon, <3>1, ClearFence DEF TypeOK
    <3>3. NotAhead(index', NoSnapshot)
      BY Zenon, SnapshotFence, Nothing DEF TypeOK
    <3>4. \A a \in Actors : snap'[a] = snap[a] \/ NotAhead(index', snap'[a])
      BY Zenon, <3>1, <3>3 DEF TypeOK
    <3>5. \A a \in superseded' : Behind(index', snap'[a])
      BY Zenon, <3>1, <3>2 DEF TypeOK, FenceInvariant
    <3> QED BY Zenon, <3>1, <3>2, <3>4, <3>5, <1>FenceKept DEF TypeOK
  <2> QED BY Zenon, <1>6, <1>7, <2>0, <2>1, <2>2, <2>3, <2>4, <2>5, <2>6, <2>7,
           <2>8, <2>9
          DEF TaskStep
<1>8. ASSUME NEW l \in Loads, LoadStep(l) PROVE FenceInvariant'
  BY Zenon, <1>1, <1>6, <1>8
      DEF LoadStep, LoaderReturns, CheckFresh, SkipOversize,
                          FinishLoad, locals, Actors
<1>9. ASSUME NEW l \in Loads, RemoveIfIdle(l) PROVE FenceInvariant'
  BY Zenon, <1>1, <1>9 DEF RemoveIfIdle
<1>10. ASSUME NEW k \in Keys, Evict(k) PROVE FenceInvariant'
  BY Zenon, <1>1, <1>10 DEF Evict, locals
<1>11. ASSUME NEW t \in Tasks, Cancel(t) PROVE FenceInvariant'
  BY Zenon, <1>3, <1>11 DEF Cancel
<1>12. CASE UNCHANGED vars
  BY Zenon, <1>1, <1>12 DEF vars
<1> QED BY Zenon, <1>5, <1>7, <1>8, <1>9, <1>10, <1>11, <1>12, DroppedAssumption DEF Next

\* The fence invariant in every state.
LEMMA Fenced == Spec => []FenceInvariant
<1>1. Init => FenceInvariant
  <2> SUFFICES ASSUME Init PROVE FenceInvariant
    BY Zenon
  <2>1. NotAhead(EmptyIndex, NoSnapshot)
    BY Zenon, Nothing, SnapshotFence
  <2> QED BY Zenon, <2>1 DEF Init, FenceInvariant
<1>2. /\ TypeOK /\ TypeOK' /\ Bookkeeping /\ FenceInvariant /\ [Next]_vars
      => FenceInvariant'
  BY Zenon, FenceStep
<1> QED BY <1>1, <1>2, Types, Books, PTL DEF Spec

\* The fence of ADR-0014 for every number of keys, tags, callers, loads and
\* invalidations: a snapshot that an invalidation of its key, of one of its
\* tags, or a flush has covered is rejected by is_current for ever, also across
\* the epoch rotations that forget counters.
THEOREM Fence == Spec => []SupersededIsFenced
<1>1. TypeOK /\ FenceInvariant => SupersededIsFenced
  BY Zenon, BehindNotCurrent DEF TypeOK, FenceInvariant, SupersededIsFenced
<1> QED BY <1>1, Types, Fenced, PTL

-----------------------------------------------------------------------------
(* Sharing a load *)

\* The loads that were superseded when a task took its snapshot have another
\* snapshot than the task, which therefore cannot hold a handle on them.
JoinInvariant ==
    \A t \in Tasks : \A l \in outdated[t] :
        l < nextLoad /\ snap[l] # snap[t] /\ joined[t] # l

\* Every step keeps the join invariant.
LEMMA JoinStep ==
    ASSUME TypeOK, TypeOK', Bookkeeping, FenceInvariant, JoinInvariant, [Next]_vars
    PROVE  JoinInvariant'
  \* The end of a call forgets what was outdated.
<1>EndCallJoin.
      ASSUME TypeOK, JoinInvariant, NEW t \in Tasks, EndCall(t), nextLoad' = nextLoad
      PROVE  JoinInvariant'
  <2> USE <1>EndCallJoin
  <2>1. /\ snap' = [snap EXCEPT ![t] = NoSnapshot]
        /\ joined' = [joined EXCEPT ![t] = NoLoad]
        /\ outdated' = [outdated EXCEPT ![t] = {}]
    BY Zenon DEF EndCall
  <2>2. \A u \in Tasks : outdated[u] \subseteq Loads /\ u \in Actors
    BY Zenon DEF TypeOK, Actors
  <2>3. \A l \in Loads : l \in Actors /\ l # t
    BY Zenon, TasksAreNotLoads DEF Actors
  <2> QED BY Zenon, <2>1, <2>2, <2>3 DEF JoinInvariant, TypeOK
<1>0. /\ \A t \in Tasks : t \in Actors /\ t \notin Loads /\ outdated[t] \subseteq Loads
      /\ \A l \in Loads : l \in Actors /\ l \in Nat /\ l # NoLoad
  BY SMTT(60), ZenonT(40), TasksAreNotLoads DEF Actors, TypeOK, Loads
<1>t. /\ snap \in [Actors -> Snapshots] /\ joined \in [Tasks -> Loads \cup {NoLoad}]
      /\ outdated \in [Tasks -> SUBSET Loads] /\ superseded \subseteq Actors
      /\ index \in Indexes /\ nextLoad \in Nat
  BY SMTT(60), ZenonT(40), LoadsAssumption DEF TypeOK
<1>1. ASSUME UNCHANGED <<snap, joined, outdated, nextLoad>> PROVE JoinInvariant'
  BY Zenon, <1>1 DEF JoinInvariant
<1>2. ASSUME NEW t \in Tasks, NEW l \in Loads, Join(t, l), snap[l] = snap[t]
      PROVE  JoinInvariant'
  BY Zenon, <1>0, <1>t, <1>2 DEF Join, JoinInvariant
<1>3. ASSUME NEW t \in Tasks, Start(t) PROVE JoinInvariant'
  <2>1. UNCHANGED <<snap, joined, outdated, nextLoad>>
    BY Zenon, <1>3 DEF Start, Get, vars, ReadExpired, InvalidateKey, Put, GetOrLoad,
                GetOrLoadExpired, BackgroundRefresh, InvalidateTag, Flush, Begin,
                locals
  <2> QED BY Zenon, <1>1, <2>1
<1>4. ASSUME NEW a \in Actors, Write(a) PROVE JoinInvariant'
  <2>1. CASE UNCHANGED <<snap, joined, outdated, nextLoad>>
    BY Zenon, <1>1, <2>1
  <2>2. CASE a \in Tasks /\ EndCall(a) /\ UNCHANGED nextLoad
    BY Zenon, <2>2, <1>EndCallJoin
  <2> QED BY Zenon, <1>4, <2>1, <2>2 DEF Write, WriteGetOld, WriteUnregister, WriteInsert,
                                  WriteRegister, locals
<1>5. ASSUME NEW t \in Tasks, TaskStep(t) PROVE JoinInvariant'
  <2>0. ctx[t].key \in Keys /\ ctx[t].tags \in SUBSET Tags
        /\ inflight[ctx[t].key] \in Loads \cup {NoLoad}
    BY Zenon, <1>0 DEF TypeOK
  <2>1. CASE SnapshotGeneration(t)
    <3> DEFINE s == TakeSnapshot(index, ctx[t].key, ctx[t].tags)
    <3>1. /\ pc[t] = "snapshot" /\ joined' = joined /\ nextLoad' = nextLoad
          /\ snap' = [snap EXCEPT ![t] = s]
          /\ outdated' = [outdated EXCEPT ![t] = superseded \cap Loads]
      BY Zenon, <2>1 DEF SnapshotGeneration
    <3>2. joined[t] = NoLoad
      BY Zenon, <3>1 DEF Bookkeeping
    <3>3. IsCurrent(index, s)
      BY Zenon, <2>0, SnapshotFence DEF TypeOK
    <3> HIDE DEF s
    <3>4. \A l \in superseded \cap Loads : l < nextLoad /\ snap[l] # s
      <4> SUFFICES ASSUME NEW l \in superseded \cap Loads
                   PROVE  l < nextLoad /\ snap[l] # s
        BY Zenon
      <4>1. Behind(index, snap[l]) /\ index \in Indexes /\ snap[l] \in Snapshots
        BY Zenon, <1>0, <1>t DEF FenceInvariant
      <4>2. ~IsCurrent(index, snap[l])
        BY Zenon, <4>1, BehindNotCurrent
      <4>3. snap[l] # s
        BY Zenon, <3>3, <4>2
      <4>4. l \in Nat /\ ~(l >= nextLoad)
        BY Zenon, <1>0 DEF Bookkeeping
      <4> QED BY <1>t, <4>3, <4>4
    <3>5. \A l \in Loads : snap'[l] = snap[l]
      BY Zenon, <1>0, <1>t, <3>1
    <3>6. snap'[t] = s /\ \A u \in Tasks : u # t => snap'[u] = snap[u]
      BY Zenon, <1>0, <1>t, <3>1
    <3> SUFFICES ASSUME NEW u \in Tasks, NEW l \in outdated'[u]
                 PROVE  l < nextLoad' /\ snap'[l] # snap'[u] /\ joined'[u] # l
      BY Zenon DEF JoinInvariant
    <3>7. CASE u = t
      <4>1. l \in superseded \cap Loads
        BY Zenon, <1>t, <3>1, <3>7
      <4> QED BY Zenon, <1>0, <3>1, <3>2, <3>4, <3>5, <3>6, <3>7, <4>1
    <3>8. CASE u # t
      <4>1. l \in outdated[u] /\ l \in Loads
        BY Zenon, <1>t, <3>1, <3>8
      <4> QED BY Zenon, <3>1, <3>5, <3>6, <3>8, <4>1 DEF JoinInvariant
    <3> QED BY Zenon, <3>7, <3>8
  <2>2. CASE GetCurrent(t)
    <3>1. CASE CanJoin(t, inflight[ctx[t].key])
      BY Zenon, <1>2, <2>0, <2>2, <3>1 DEF GetCurrent, CanJoin
    <3>2. CASE ~CanJoin(t, inflight[ctx[t].key])
      BY Zenon, <1>1, <2>2, <3>2 DEF GetCurrent, locals
    <3> QED BY Zenon, <3>1, <3>2
  <2>3. CASE InsertOrGetCurrent(t)
    <3>1. CASE CanJoin(t, inflight[ctx[t].key])
      BY Zenon, <1>2, <2>0, <2>3, <3>1 DEF InsertOrGetCurrent, CanJoin
    <3>2. CASE ~CanJoin(t, inflight[ctx[t].key])
      <4>1. /\ nextLoad \in Loads /\ nextLoad' = nextLoad + 1
            /\ snap' = [snap EXCEPT ![nextLoad] = snap[t]]
            /\ joined' = [joined EXCEPT ![t] = nextLoad]
            /\ outdated' = outdated
        BY Zenon, <2>3, <3>2, NewLoad
      <4> SUFFICES ASSUME NEW u \in Tasks, NEW l \in outdated[u]
                   PROVE  l < nextLoad' /\ snap'[l] # snap'[u] /\ joined'[u] # l
        BY Zenon, <4>1 DEF JoinInvariant
      <4>2. l \in Nat /\ nextLoad \in Nat /\ l < nextLoad /\ snap[l] # snap[u]
            /\ joined[u] # l
        BY Zenon, <1>0, <4>1 DEF JoinInvariant
      <4>3. l < nextLoad' /\ l # nextLoad
        BY <4>1, <4>2
      <4>4. snap'[l] = snap[l] /\ snap'[u] = snap[u]
        BY Zenon, <1>0, <1>t, <4>1, <4>3
      <4>5. joined'[u] # l
        BY Zenon, <1>t, <4>1, <4>2, <4>3
      <4> QED BY Zenon, <4>2, <4>3, <4>4, <4>5
    <3> QED BY ZenonT(20), <3>1, <3>2
  <2>4. CASE AwaitLoad(t)
    <3>1. CASE EndCall(t)
      BY Zenon, <2>4, <3>1, <1>EndCallJoin DEF AwaitLoad
    <3>2. CASE /\ joined' = [joined EXCEPT ![t] = NoLoad]
               /\ UNCHANGED <<snap, outdated, nextLoad>>
      BY Zenon, <1>0, <1>t, <3>2 DEF JoinInvariant
    <3> QED BY Zenon, <2>4, <3>1, <3>2 DEF AwaitLoad
  <2>5. CASE NextKey(t)
    BY Zenon, <1>1, <2>5, <1>EndCallJoin DEF NextKey
  <2>6. CASE RemoveGet(t) \/ RemoveUnregister(t)
    BY Zenon, <1>1, <2>6, <1>EndCallJoin DEF RemoveGet, RemoveUnregister, Continue
  <2>7. CASE RemoveStore(t)
    BY Zenon, <1>1, <2>7 DEF RemoveStore, locals
  <2>8. CASE FlushClear(t)
    BY Zenon, <2>8, <1>EndCallJoin DEF FlushClear
  <2> QED BY Zenon, <1>0, <1>4, <1>5, <2>1, <2>2, <2>3, <2>4, <2>5, <2>6, <2>7, <2>8
          DEF TaskStep
<1>6. ASSUME NEW l \in Loads, LoadStep(l) PROVE JoinInvariant'
  BY Zenon, <1>0, <1>1, <1>4, <1>6
      DEF LoadStep, LoaderReturns, CheckFresh, SkipOversize,
                                FinishLoad, locals
<1>7. ASSUME NEW l \in Loads, RemoveIfIdle(l) PROVE JoinInvariant'
  BY Zenon, <1>1, <1>7 DEF RemoveIfIdle
<1>8. ASSUME NEW k \in Keys, Evict(k) PROVE JoinInvariant'
  BY Zenon, <1>1, <1>8 DEF Evict, locals
<1>9. ASSUME NEW t \in Tasks, Cancel(t) PROVE JoinInvariant'
  BY Zenon, <1>9, <1>EndCallJoin DEF Cancel
<1>10. CASE UNCHANGED vars
  BY Zenon, <1>1, <1>10 DEF vars
<1> QED BY Zenon, <1>3, <1>5, <1>6, <1>7, <1>8, <1>9, <1>10, DroppedAssumption
    DEF Next

\* No caller of shared_load is ever handed a load that an invalidation had
\* superseded before the caller took its snapshot, for every number of callers,
\* loads and invalidations.
THEOREM SharedLoadsAreFresh == Spec => []NoStaleJoin
<1>1. Init => JoinInvariant
  BY Zenon DEF Init, JoinInvariant
<1>2. /\ TypeOK /\ TypeOK' /\ Bookkeeping /\ FenceInvariant /\ JoinInvariant
      /\ [Next]_vars
      => JoinInvariant'
  BY Zenon, JoinStep
<1>3. JoinInvariant => NoStaleJoin
  BY Zenon DEF JoinInvariant, NoStaleJoin
<1> QED BY <1>1, <1>2, <1>3, Types, Books, Fenced, PTL DEF Spec

-----------------------------------------------------------------------------
(* The single-flight map does not leak *)

\* Every step keeps the map clean.
LEMMA LeakStep ==
    ASSUME TypeOK, TypeOK', Bookkeeping, NoLeakedInflight, [Next]_vars
    PROVE  NoLeakedInflight'
  \* Dropping a handle keeps the map clean: the last handle leaves a cleanup.
<1>DropLeak.
      ASSUME TypeOK, TypeOK', NoLeakedInflight, NEW t \in Tasks,
             joined' = [joined EXCEPT ![t] = NoLoad], DropHandle(t),
             inflight' = inflight
      PROVE  NoLeakedInflight'
  <2> USE <1>DropLeak
  <2> SUFFICES ASSUME NEW k \in Keys, inflight[k] # NoLoad, Waiters(inflight[k])' = {}
               PROVE  inflight[k] \in cleanups'
    BY Zenon DEF NoLeakedInflight
  <2>1. CASE joined[t] = inflight[k]
    <3>1. Waiters(inflight[k]) = {t}
      BY Zenon, <2>1 DEF Waiters, TypeOK
    <3> QED BY Zenon, <2>1, <3>1 DEF DropHandle
  <2>2. CASE joined[t] # inflight[k]
    <3>1. Waiters(inflight[k]) = {}
      BY Zenon, <2>2 DEF Waiters, TypeOK
    <3> QED BY Zenon, <3>1 DEF NoLeakedInflight, DropHandle
  <2> QED BY Zenon, <2>1, <2>2
  \* A task that takes a handle, holding none before, leaves nothing behind.
<1>JoinLeak.
      ASSUME TypeOK, NoLeakedInflight, NEW t \in Tasks, NEW l \in Loads,
             joined[t] = NoLoad, joined' = [joined EXCEPT ![t] = l],
             cleanups' = cleanups,
             \A k \in Keys : inflight'[k] \in {inflight[k], l}
      PROVE  NoLeakedInflight'
  <2> USE <1>JoinLeak
  <2> SUFFICES ASSUME NEW k \in Keys, inflight'[k] # NoLoad,
                      {u \in Tasks : joined'[u] = inflight'[k]} = {}
               PROVE  inflight'[k] \in cleanups'
    BY Zenon DEF NoLeakedInflight, Waiters
  <2>1. inflight'[k] # l
    BY Zenon DEF Waiters, TypeOK
  <2>2. Waiters(inflight[k]) = {}
    BY Zenon, <2>1 DEF Waiters, TypeOK
  <2> QED BY Zenon, <2>1, <2>2 DEF NoLeakedInflight
<1>1. ASSUME UNCHANGED <<joined, cleanups>>,
             \A k \in Keys : inflight'[k] \in {inflight[k], NoLoad}
      PROVE  NoLeakedInflight'
  BY Zenon, <1>1 DEF NoLeakedInflight, Waiters
<1>2. ASSUME UNCHANGED <<joined, cleanups, inflight>> PROVE NoLeakedInflight'
  BY Zenon, <1>1, <1>2
<1>3. ASSUME NEW t \in Tasks, EndCall(t), UNCHANGED inflight PROVE NoLeakedInflight'
  BY Zenon, <1>3, <1>DropLeak DEF EndCall
<1>4. ASSUME NEW t \in Tasks, Start(t) PROVE NoLeakedInflight'
  <2>1. UNCHANGED <<joined, cleanups, inflight>>
    BY Zenon, <1>4 DEF Start, Get, vars, ReadExpired, InvalidateKey, Put, GetOrLoad,
                GetOrLoadExpired, BackgroundRefresh, InvalidateTag, Flush, Begin,
                locals
  <2> QED BY Zenon, <1>2, <2>1
<1>5. ASSUME NEW a \in Actors, Write(a) PROVE NoLeakedInflight'
  <2>1. CASE UNCHANGED <<joined, cleanups, inflight>>
    BY Zenon, <1>2, <2>1
  <2>2. CASE a \in Tasks /\ EndCall(a) /\ UNCHANGED inflight
    BY Zenon, <1>3, <2>2
  <2> QED BY Zenon, <1>5, <2>1, <2>2 DEF Write, WriteGetOld, WriteUnregister, WriteInsert,
                                  WriteRegister, locals
<1>6. ASSUME NEW t \in Tasks, TaskStep(t) PROVE NoLeakedInflight'
  <2>0. /\ t \in Actors /\ ctx[t].key \in Keys
        /\ inflight[ctx[t].key] \in Loads \cup {NoLoad}
    BY Zenon DEF TypeOK, Actors
  <2>1. CASE SnapshotGeneration(t) \/ RemoveStore(t)
    BY Zenon, <1>2, <2>1 DEF SnapshotGeneration, RemoveStore, locals
  <2>2. ASSUME Join(t, inflight[ctx[t].key]), CanJoin(t, inflight[ctx[t].key]),
               pc[t] # "wait"
        PROVE  NoLeakedInflight'
    BY Zenon, <2>0, <2>2, <1>JoinLeak DEF Join, CanJoin, Bookkeeping
  <2>3. CASE GetCurrent(t)
    BY Zenon, <1>2, <2>2, <2>3 DEF GetCurrent, locals
  <2>4. CASE InsertOrGetCurrent(t)
    <3>1. CASE CanJoin(t, inflight[ctx[t].key])
      BY Zenon, <2>2, <2>4, <3>1 DEF InsertOrGetCurrent
    <3>2. CASE ~CanJoin(t, inflight[ctx[t].key])
      <4>1. /\ nextLoad \in Loads /\ joined' = [joined EXCEPT ![t] = nextLoad]
            /\ inflight' = [inflight EXCEPT ![ctx[t].key] = nextLoad]
            /\ cleanups' = cleanups
        BY Zenon, <2>4, <3>2, NewLoad
      <4>2. joined[t] = NoLoad
        BY Zenon, <2>4 DEF InsertOrGetCurrent, Bookkeeping
      <4>3. \A k \in Keys : inflight'[k] \in {inflight[k], nextLoad}
        BY Zenon, <4>1 DEF TypeOK
      <4> QED BY Zenon, <4>1, <4>2, <4>3, <1>JoinLeak
    <3> QED BY Zenon, <3>1, <3>2
  <2>5. CASE AwaitLoad(t)
    BY Zenon, <1>3, <2>5, <1>DropLeak DEF AwaitLoad
  <2>6. CASE NextKey(t)
    BY Zenon, <1>2, <1>3, <2>6 DEF NextKey
  <2>7. CASE RemoveGet(t) \/ RemoveUnregister(t)
    BY Zenon, <1>2, <1>3, <2>7 DEF RemoveGet, RemoveUnregister, Continue
  <2>8. CASE FlushClear(t)
    BY Zenon, <1>3, <2>8 DEF FlushClear
  <2> QED BY Zenon, <1>5, <1>6, <2>0, <2>1, <2>3, <2>4, <2>5, <2>6, <2>7, <2>8
      DEF TaskStep
<1>7. ASSUME NEW l \in Loads, LoadStep(l) PROVE NoLeakedInflight'
  <2>1. CASE Write(l)
    BY Zenon, <1>5, <2>1 DEF Actors
  <2>2. CASE FinishLoad(l)
    <3>1. \A k \in Keys : inflight'[k] \in {inflight[k], NoLoad}
      BY Zenon, <2>2 DEF FinishLoad, TypeOK
    <3> QED BY Zenon, <1>1, <2>2, <3>1 DEF FinishLoad, locals
  <2>3. CASE LoaderReturns(l) \/ CheckFresh(l) \/ SkipOversize(l)
    BY Zenon, <1>2, <2>3 DEF LoaderReturns, CheckFresh, SkipOversize, locals
  <2> QED BY Zenon, <1>7, <2>1, <2>2, <2>3 DEF LoadStep
<1>8. ASSUME NEW l \in Loads, RemoveIfIdle(l) PROVE NoLeakedInflight'
  <2> SUFFICES ASSUME NEW k \in Keys, inflight'[k] # NoLoad,
                      {u \in Tasks : joined'[u] = inflight'[k]} = {}
               PROVE  inflight'[k] \in cleanups'
    BY Zenon DEF NoLeakedInflight, Waiters
  <2>1. joined' = joined /\ cleanups' = cleanups \ {l}
    BY Zenon, <1>8 DEF RemoveIfIdle
  <2>2. inflight'[k] = inflight[k]
    BY Zenon, <1>8 DEF RemoveIfIdle, TypeOK
  <2>3. Waiters(inflight[k]) = {} /\ inflight[k] \in cleanups
    BY Zenon, <2>1, <2>2 DEF Waiters, NoLeakedInflight
  <2>4. CASE inflight[k] = l
    <3>1. ctx[l].key = k
      BY Zenon, <2>2, <2>4 DEF Bookkeeping
    <3>2. inflight' = [inflight EXCEPT ![k] = NoLoad]
      BY Zenon, <1>8, <2>2, <2>3, <2>4, <3>1 DEF RemoveIfIdle
    <3> QED BY Zenon, <3>2 DEF TypeOK
  <2> QED BY Zenon, <2>1, <2>2, <2>3, <2>4
<1>9. ASSUME NEW k \in Keys, Evict(k) PROVE NoLeakedInflight'
  BY Zenon, <1>2, <1>9 DEF Evict, locals
<1>10. ASSUME NEW t \in Tasks, Cancel(t) PROVE NoLeakedInflight'
  BY Zenon, <1>3, <1>10 DEF Cancel
<1>11. CASE UNCHANGED vars
  BY Zenon, <1>2, <1>11 DEF vars
<1> QED BY Zenon, <1>4, <1>6, <1>7, <1>8, <1>9, <1>10, <1>11, DroppedAssumption DEF Next

\* However callers join, finish and are dropped, a load that stays in the
\* single-flight map without a handle has its remove_if_idle pending.
THEOREM InflightMapIsClean == Spec => []NoLeakedInflight
<1>1. Init => NoLeakedInflight
  BY Zenon DEF Init, NoLeakedInflight
<1>2. /\ TypeOK /\ TypeOK' /\ Bookkeeping /\ NoLeakedInflight /\ [Next]_vars
      => NoLeakedInflight'
  BY Zenon, LeakStep
<1> QED BY <1>1, <1>2, Types, Books, PTL DEF Spec

-----------------------------------------------------------------------------
(* Entry versions, and what a tag invalidation has seen *)

\* The points a call goes on at after a removal or an error.
Resumes == {"remove_store", "snapshot", "next_key"}

\* A writer that has its version and has not stored its entry yet.
Pending(a) == pc[a] \in {"get_old", "unregister", "insert"}

\* A version that is stored, or that a tag invalidation found stored.
Spent(v) == \/ \E k \in Keys : store[k].version = v
            \/ \E t \in Tasks : \E kv \in seen[t] : kv[2] = v

\* Every pending write has a version of its own, which no entry ever had.
VersionInvariant ==
    /\ after \in [Tasks -> Seq(Resumes)]
    /\ \A a \in Actors : Pending(a) =>
          /\ ctx[a].version # 0 /\ ctx[a].version < nextVersion
          /\ ~Spent(ctx[a].version)
    /\ \A a, b \in Actors :
          Pending(a) /\ Pending(b) /\ ctx[a].version = ctx[b].version => a = b
    /\ \A v \in Nat : Spent(v) => v < nextVersion

\* Task t has yet to take the entry of key k out of the store.
Removing(t, k) == pc[t] \in {"remove_get", "remove_store"} /\ ctx[t].key = k

\* The entries that a tag invalidation saw are gone from the store, but for the
\* keys it still has before it.
SeenInvariant ==
    \A t \in Tasks : \A kv \in seen[t] :
        kv[2] # 0 /\ kv[1] \notin todo[t] /\ ~Removing(t, kv[1]) =>
            store[kv[1]].version # kv[2]

\* No step but a store.insert gives a key a version it did not have, ...
StoresNothing ==
    /\ \A k \in Keys : store'[k].version = store[k].version \/ store'[k].version = 0
    /\ \A t \in Tasks : \A kv \in seen'[t] : Spent(kv[2])

\* ... most steps number no entry, ...
NumbersNothing ==
    /\ nextVersion' = nextVersion
    /\ \A a \in Actors : Pending(a)' =>
          Pending(a) /\ ctx'[a].version = ctx[a].version

\* ... and a tag invalidation leaves a key only when its entry is gone.
KeepsSight ==
    \A t \in Tasks : \A kv \in seen'[t] :
        \/ kv[1] \in todo'[t]
        \/ /\ kv \in seen[t]
           /\ kv[1] \in todo[t] => Removing(t, kv[1])'
           /\ Removing(t, kv[1]) => Removing(t, kv[1])' \/ store'[kv[1]].version = 0

Tame == StoresNothing /\ NumbersNothing /\ KeepsSight

\* What a tag invalidation saw is a key and a version.
LEMMA SeenType ==
    ASSUME TypeOK, NEW t \in Tasks, NEW kv \in seen[t]
    PROVE  kv[1] \in Keys /\ kv[2] \in Nat
<1>1. seen[t] \in SUBSET (Keys \X Nat)
  BY Zenon DEF TypeOK
<1>2. kv \in Keys \X Nat
  BY Zenon, <1>1
<1> QED BY Zenon, <1>2

\* A step that stores and numbers nothing keeps the versions apart.
LEMMA VersionsKept ==
    ASSUME TypeOK, TypeOK', VersionInvariant, StoresNothing, NumbersNothing,
           after' \in [Tasks -> Seq(Resumes)]
    PROVE  VersionInvariant'
  \* A step that stores nothing spends no version but 0.
<1>NothingSpent.
      ASSUME TypeOK, StoresNothing, NEW v, Spent(v)', v # 0
      PROVE  Spent(v)
  <2> USE <1>NothingSpent
  <2>1. CASE \E k \in Keys : store'[k].version = v
    BY Zenon, <2>1 DEF StoresNothing, Spent
  <2>2. CASE \E t \in Tasks : \E kv \in seen'[t] : kv[2] = v
    BY Zenon, <2>2 DEF StoresNothing
  <2> QED BY Zenon, <2>1, <2>2 DEF Spent
<1>1. ASSUME NEW a \in Actors, Pending(a)'
      PROVE  (/\ ctx[a].version # 0 /\ ctx[a].version < nextVersion
              /\ ~Spent(ctx[a].version))'
  <2> PICK v : v = ctx[a].version
    BY Zenon
  <2>1. ctx'[a].version = v /\ nextVersion' = nextVersion
    BY Zenon, <1>1 DEF NumbersNothing
  <2>2. v # 0 /\ v < nextVersion /\ ~Spent(v)
    BY Zenon, <1>1 DEF NumbersNothing, VersionInvariant
  <2>3. ~Spent(v)'
    BY Zenon, <2>2, <1>NothingSpent
  <2>4. ~Spent(ctx[a].version)'
    BY Zenon, <2>1, <2>3 DEF Spent
  <2> QED BY Zenon, <2>1, <2>2, <2>4
<1>2. ASSUME NEW a \in Actors, NEW b \in Actors, Pending(a)', Pending(b)',
             ctx'[a].version = ctx'[b].version
      PROVE  a = b
  BY Zenon, <1>2 DEF NumbersNothing, VersionInvariant
<1>3. ASSUME NEW v \in Nat, Spent(v)' PROVE v < nextVersion'
  <2>0. nextVersion' \in Nat \ {0}
    BY Zenon DEF TypeOK
  <2>1. CASE v = 0
    BY <2>0, <2>1
  <2>2. CASE v # 0
    BY Zenon, <1>3, <2>2, <1>NothingSpent DEF NumbersNothing, VersionInvariant
  <2> QED BY Zenon, <2>1, <2>2
<1> QED BY Zenon, <1>1, <1>2, <1>3 DEF VersionInvariant

\* A tame step keeps what an invalidation has removed out of the store.
LEMMA SeenKept ==
    ASSUME TypeOK, TypeOK', SeenInvariant, KeepsSight,
           \A t \in Tasks : \A kv \in seen[t] : kv[2] # 0 =>
              \/ store'[kv[1]].version = store[kv[1]].version
              \/ store'[kv[1]].version # kv[2]
    PROVE  SeenInvariant'
<1> SUFFICES ASSUME NEW t \in Tasks, NEW kv \in seen'[t],
                    kv[2] # 0, kv[1] \notin todo'[t], ~Removing(t, kv[1])'
             PROVE  store'[kv[1]].version # kv[2]
  BY Zenon DEF SeenInvariant
<1>1. kv \in seen[t] /\ kv[1] \notin todo[t]
  BY Zenon DEF KeepsSight
<1>2. ~Removing(t, kv[1]) \/ store'[kv[1]].version = 0
  BY Zenon DEF KeepsSight
<1>3. CASE ~Removing(t, kv[1])
  BY Zenon, <1>1, <1>3 DEF SeenInvariant
<1> QED BY Zenon, <1>2, <1>3

\* One actor moves on and the store stays as it is.
LEMMA OneMoves ==
    ASSUME TypeOK, TypeOK', NEW a \in Actors,
           UNCHANGED <<store, nextVersion, todo, seen>>,
           \A b \in Actors : b # a => pc'[b] = pc[b] /\ ctx'[b] = ctx[b],
           Pending(a)' => Pending(a) /\ ctx'[a].version = ctx[a].version,
           \A k \in Keys : Removing(a, k) => Removing(a, k)' \/ store[k].version = 0
    PROVE  Tame
<1>1. StoresNothing
  BY Zenon DEF StoresNothing, Spent
<1>2. NumbersNothing
  BY Zenon DEF NumbersNothing, Pending
<1>3. ASSUME NEW t \in Tasks, NEW kv \in seen'[t] PROVE kv \in seen[t] /\ kv[1] \in Keys
  BY Zenon, <1>3, SeenType
<1>4. ASSUME NEW t \in Tasks, NEW k \in Keys
      PROVE  Removing(t, k) => Removing(t, k)' \/ store'[k].version = 0
  <2>1. CASE t = a
    BY Zenon, <2>1
  <2>2. CASE t # a
    BY Zenon, <2>2 DEF Actors, Removing
  <2> QED BY Zenon, <2>1, <2>2
<1>5. KeepsSight
  BY Zenon, <1>3, <1>4 DEF KeepsSight
<1> QED BY Zenon, <1>1, <1>2, <1>5 DEF Tame

\* The end of a call forgets what the call saw.
LEMMA EndCallTame ==
    ASSUME TypeOK, TypeOK', NEW t \in Tasks, EndCall(t),
           UNCHANGED <<store, nextVersion>>
    PROVE  Tame
<1>1. /\ pc' = [pc EXCEPT ![t] = "idle"] /\ ctx' = [ctx EXCEPT ![t] = NoCtx]
      /\ todo' = [todo EXCEPT ![t] = {}] /\ seen' = [seen EXCEPT ![t] = {}]
  BY Zenon DEF EndCall, Goto
<1>2. t \in Actors /\ pc'[t] = "idle"
  BY Zenon, <1>1 DEF TypeOK, Actors
<1>3. \A b \in Actors : b # t => pc'[b] = pc[b] /\ ctx'[b] = ctx[b]
  BY Zenon, <1>1 DEF TypeOK
<1>s. seen'[t] = {} /\ \A u \in Tasks : u # t => seen'[u] = seen[u]
  BY Zenon, <1>1 DEF TypeOK
<1>t. \A u \in Tasks : u # t => todo'[u] = todo[u]
  BY Zenon, <1>1 DEF TypeOK
<1>4. seen'[t] = {} /\ \A u \in Tasks : u # t => seen'[u] = seen[u] /\ todo'[u] = todo[u]
  BY Zenon, <1>s, <1>t
<1>5. StoresNothing
  BY Zenon, <1>4 DEF StoresNothing, Spent
<1>6. NumbersNothing
  BY Zenon, <1>2, <1>3 DEF NumbersNothing, Pending
<1>7. KeepsSight
  BY Zenon, <1>3, <1>4 DEF KeepsSight, Removing, Actors
<1> QED BY Zenon, <1>5, <1>6, <1>7 DEF Tame

\* Every step keeps the versions apart and the seen entries out of the store.
LEMMA SeenStep ==
    ASSUME TypeOK, TypeOK', VersionInvariant, SeenInvariant, [Next]_vars
    PROVE  VersionInvariant' /\ SeenInvariant'
  \* The first step of a call that neither writes nor invalidates a tag.
<1>BeginTame.
      ASSUME TypeOK, TypeOK', NEW t \in Tasks, NEW k, NEW T, NEW rest,
             NEW point \in {"remove_store", "remove_get", "snapshot"},
             Begin(t, point, k, T, rest), UNCHANGED <<todo, seen>>
      PROVE  Tame
  <2> USE <1>BeginTame
  <2>1. /\ pc' = [pc EXCEPT ![t] = point] /\ pc[t] = "idle"
        /\ \E c : ctx' = [ctx EXCEPT ![t] = c]
        /\ UNCHANGED <<store, nextVersion>>
    BY Zenon DEF Begin, Goto
  <2>2. t \in Actors /\ pc'[t] = point
    BY Zenon, <2>1 DEF TypeOK, Actors
  <2>3. \A b \in Actors : b # t => pc'[b] = pc[b] /\ ctx'[b] = ctx[b]
    BY Zenon, <2>1 DEF TypeOK
  <2>4. ~Pending(t)'
    BY Zenon, <2>2 DEF Pending
  <2>5. \A j \in Keys : ~Removing(t, j)
    BY Zenon, <2>1 DEF Removing
  <2> QED BY Zenon, <2>1, <2>2, <2>3, <2>4, <2>5, OneMoves
  \* An actor that writes, removes or loads nothing, at a point or going to one.
<1>MoveTame.
      ASSUME TypeOK, TypeOK', NEW a \in Actors, NEW point, Goto(a, point),
             point \notin {"get_old", "unregister", "insert"},
             pc[a] \notin {"remove_get", "remove_store"},
             UNCHANGED <<store, nextVersion, todo, seen, ctx>>
      PROVE  Tame
  <2> USE <1>MoveTame
  <2>1. pc'[a] = point /\ \A b \in Actors : b # a => pc'[b] = pc[b] /\ ctx'[b] = ctx[b]
    BY Zenon DEF Goto, TypeOK
  <2>2. ~Pending(a)' /\ \A k \in Keys : ~Removing(a, k)
    BY Zenon, <2>1 DEF Pending, Removing
  <2> QED BY Zenon, <2>1, <2>2, OneMoves
  \* A removal that found no entry, or has taken it out, goes on.
<1>ContinueTame.
      ASSUME TypeOK, TypeOK', VersionInvariant, NEW t \in Tasks, Continue(t),
             UNCHANGED <<store, nextVersion>>,
             \A k \in Keys : Removing(t, k) => store[k].version = 0
      PROVE  Tame
  <2> USE <1>ContinueTame
  <2>1. CASE after[t] = <<>>
    BY Zenon, <2>1, EndCallTame DEF Continue
  <2>2. CASE after[t] # <<>>
    <3>1. after[t] \in Seq(Resumes)
      BY Zenon DEF VersionInvariant
    <3>2. Head(after[t]) \in Resumes
      BY <2>2, <3>1
    <3>3. Goto(t, Head(after[t])) /\ UNCHANGED <<ctx, todo, seen>>
      BY Zenon, <2>2 DEF Continue
    <3>4. /\ t \in Actors /\ pc'[t] \in Resumes
          /\ \A b \in Actors : b # t => pc'[b] = pc[b] /\ ctx'[b] = ctx[b]
      BY Zenon, <3>2, <3>3 DEF Goto, TypeOK, Actors
    <3>5. ~Pending(t)'
      BY Zenon, <3>4 DEF Pending, Resumes
    <3> QED BY Zenon, <3>3, <3>4, <3>5, OneMoves
  <2> QED BY Zenon, <2>1, <2>2
  \* invalidate_tag has every key it saw before it.
<1>InvalidateTagTame.
      ASSUME TypeOK, TypeOK', NEW t \in Tasks, NEW g \in Tags, InvalidateTag(t, g)
      PROVE  Tame
  <2> USE <1>InvalidateTagTame
  <2> DEFINE K == TaggedKeys(index, g)
             S == {<<k, store[k].version>> : k \in K}
  <2>1. /\ pc' = [pc EXCEPT ![t] = "next_key"] /\ pc[t] = "idle"
        /\ \E c : ctx' = [ctx EXCEPT ![t] = c]
        /\ UNCHANGED <<store, nextVersion>>
    BY Zenon DEF InvalidateTag, Begin, Goto
  <2>2. todo' = [todo EXCEPT ![t] = K] /\ seen' = [seen EXCEPT ![t] = S]
    BY Zenon DEF InvalidateTag
  <2>3. K \subseteq Keys
    BY Zenon DEF TaggedKeys
  <2> HIDE DEF K
  <2>4. \A kv \in S : kv[1] \in K /\ Spent(kv[2])
    BY <2>3 DEF Spent
  <2> HIDE DEF S
  <2>5. t \in Actors /\ pc'[t] = "next_key"
    BY Zenon, <2>1 DEF TypeOK, Actors
  <2>6. \A b \in Actors : b # t => pc'[b] = pc[b] /\ ctx'[b] = ctx[b]
    BY Zenon, <2>1 DEF TypeOK
  <2>7. seen'[t] = S /\ todo'[t] = K
    BY Zenon, <2>2 DEF TypeOK
  <2>8. \A u \in Tasks : u # t => seen'[u] = seen[u]
    BY Zenon, <2>2 DEF TypeOK
  <2>9. \A u \in Tasks : u # t => todo'[u] = todo[u]
    BY Zenon, <2>2 DEF TypeOK
  <2>10. StoresNothing
    <3>1. ASSUME NEW u \in Tasks, NEW kv \in seen'[u] PROVE Spent(kv[2])
      BY Zenon, <2>4, <2>7, <2>8, <3>1 DEF Spent
    <3> QED BY Zenon, <2>1, <3>1 DEF StoresNothing
  <2>11. NumbersNothing
    BY Zenon, <2>1, <2>5, <2>6 DEF NumbersNothing, Pending
  <2>12. KeepsSight
    <3> SUFFICES ASSUME NEW u \in Tasks, NEW kv \in seen'[u], kv[1] \notin todo'[u]
                 PROVE  /\ kv \in seen[u]
                        /\ kv[1] \in todo[u] => Removing(u, kv[1])'
                        /\ Removing(u, kv[1]) =>
                              Removing(u, kv[1])' \/ store'[kv[1]].version = 0
      BY Zenon DEF KeepsSight
    <3>1. u # t
      BY Zenon, <2>4, <2>7
    <3> QED BY Zenon, <2>6, <2>8, <2>9, <3>1 DEF Removing, Actors
  <2> QED BY Zenon, <2>10, <2>11, <2>12 DEF Tame
  \* Entries leave the store: of the key that a task removes, or of any key.
<1>TakenTame.
      ASSUME TypeOK, TypeOK', NEW K \in SUBSET Keys,
             UNCHANGED <<nextVersion, todo, seen, ctx>>,
             store' = [k \in Keys |-> IF k \in K THEN NoEntry ELSE store[k]],
             \A b \in Actors : Pending(b)' => Pending(b),
             \A t \in Tasks, k \in Keys : Removing(t, k) => Removing(t, k)' \/ k \in K
      PROVE  Tame
  <2> USE <1>TakenTame
  <2>1. \A k \in Keys : IF k \in K THEN store'[k].version = 0 ELSE store'[k] = store[k]
    BY Zenon DEF NoEntry
  <2>2. StoresNothing
    BY Zenon, <2>1 DEF StoresNothing, Spent
  <2>3. NumbersNothing
    BY Zenon DEF NumbersNothing
  <2>4. ASSUME NEW t \in Tasks, NEW kv \in seen'[t] PROVE kv \in seen[t] /\ kv[1] \in Keys
    BY Zenon, <2>4, SeenType
  <2>5. KeepsSight
    BY Zenon, <2>1, <2>4 DEF KeepsSight
  <2> QED BY Zenon, <2>2, <2>3, <2>5 DEF Tame
  \* Taking out one key, written with EXCEPT.
<1>TakenOne.
      ASSUME TypeOK, NEW k \in Keys, store' = [store EXCEPT ![k] = NoEntry]
      PROVE  store' = [j \in Keys |-> IF j \in {k} THEN NoEntry ELSE store[j]]
  BY <1>TakenOne, Zenon DEF TypeOK
  \* The start of a call that is not a put.
<1>StartTame.
      ASSUME TypeOK, TypeOK', NEW t \in Tasks, Start(t),
             \A k \in Keys : \A T \in TagChoices[k] : ~Put(t, k, T)
      PROVE  Tame
  <2> USE <1>StartTame
  <2>1. ASSUME NEW k \in Keys, Get(t, k) PROVE Tame
    <3>1. UNCHANGED <<store, nextVersion, todo, seen, pc, ctx>>
      BY Zenon, <2>1 DEF Get, vars
    <3> QED BY Zenon, <3>1, OneMoves DEF Actors, Pending, Removing
  <2>2. ASSUME NEW k \in Keys, ReadExpired(t, k) \/ InvalidateKey(t, k) PROVE Tame
    <3>1. \E point \in {"remove_store", "remove_get", "snapshot"} :
              Begin(t, point, k, {}, <<>>)
      BY Zenon, <2>2 DEF ReadExpired, InvalidateKey
    <3>2. UNCHANGED <<todo, seen>>
      BY Zenon, <2>2 DEF ReadExpired, InvalidateKey
    <3> QED BY Zenon, <3>1, <3>2, <1>BeginTame
  <2>3. ASSUME NEW k \in Keys, NEW T \in TagChoices[k],
               \/ GetOrLoad(t, k, T) \/ GetOrLoadExpired(t, k, T)
               \/ BackgroundRefresh(t, k, T)
        PROVE  Tame
    <3>1. \E rest : \E point \in {"remove_store", "remove_get", "snapshot"} :
              Begin(t, point, k, T, rest)
      BY Zenon, <2>3 DEF GetOrLoad, GetOrLoadExpired, BackgroundRefresh
    <3>2. UNCHANGED <<todo, seen>>
      BY Zenon, <2>3 DEF GetOrLoad, GetOrLoadExpired, BackgroundRefresh
    <3> QED BY Zenon, <3>1, <3>2, <1>BeginTame
  <2>4. ASSUME Flush(t) PROVE Tame
    <3>1. /\ store' = [k \in Keys |-> NoEntry] /\ pc' = [pc EXCEPT ![t] = "flush_clear"]
          /\ pc[t] = "idle" /\ UNCHANGED <<nextVersion, todo, seen, ctx>>
      BY Zenon, <2>4 DEF Flush, Goto, locals
    <3>2. store' = [k \in Keys |-> IF k \in Keys THEN NoEntry ELSE store[k]]
      BY Zenon, <3>1
    <3>3. \A b \in Actors : b # t => pc'[b] = pc[b]
      BY Zenon, <3>1 DEF TypeOK
    <3>4. pc'[t] = "flush_clear"
      BY Zenon, <3>1 DEF TypeOK, Actors
    <3>5. \A b \in Actors : Pending(b)' => Pending(b)
      BY Zenon, <3>3, <3>4 DEF Pending
    <3> QED BY Zenon, <3>1, <3>2, <3>5, <1>TakenTame
  <2> QED BY Zenon, <2>1, <2>2, <2>3, <2>4, <1>InvalidateTagTame DEF Start
  \* The steps of a task, but for its store.insert.
<1>TaskTame.
      ASSUME TypeOK, TypeOK', VersionInvariant, NEW t \in Tasks, TaskStep(t),
             ~WriteInsert(t)
      PROVE  Tame
  <2> USE <1>TaskTame
  <2>0. t \in Actors /\ ctx[t].key \in Keys /\ t \notin Loads
    BY Zenon, TasksAreNotLoads DEF TypeOK, Actors
  <2>1. ASSUME EndCall(t), UNCHANGED <<store, nextVersion>> PROVE Tame
    BY Zenon, <2>1, EndCallTame
  <2>2. ASSUME NEW point \in {"insert", "unregister", "remove_store"}, Goto(t, point),
               NEW T, ctx' = [ctx EXCEPT ![t].old = T],
               point = "remove_store" => pc[t] = "remove_get",
               point # "remove_store" => pc[t] = "get_old",
               UNCHANGED <<store, nextVersion, todo, seen>>
        PROVE  Tame
    <3>1. pc'[t] = point /\ \A b \in Actors : b # t => pc'[b] = pc[b] /\ ctx'[b] = ctx[b]
      BY Zenon, <2>0, <2>2 DEF Goto, TypeOK
    <3>2. ctx'[t].version = ctx[t].version /\ ctx'[t].key = ctx[t].key
      BY <2>0, <2>2 DEF TypeOK
    <3>3. Pending(t)' => Pending(t)
      BY Zenon, <2>2, <3>1 DEF Pending
    <3>4. \A k \in Keys : Removing(t, k) => Removing(t, k)'
      BY Zenon, <2>2, <3>1, <3>2 DEF Removing
    <3> QED BY Zenon, <2>0, <2>2, <3>1, <3>2, <3>3, <3>4, OneMoves
  <2>3. CASE WriteGetOld(t)
    BY Zenon, <2>2, <2>3 DEF WriteGetOld
  <2>4. CASE WriteUnregister(t)
    <3>1. /\ Goto(t, "insert") /\ pc[t] = "unregister"
          /\ UNCHANGED <<store, nextVersion, todo, seen, ctx>>
      BY Zenon, <2>4 DEF WriteUnregister, locals
    <3>2. pc'[t] = "insert" /\ \A b \in Actors : b # t => pc'[b] = pc[b] /\ ctx'[b] = ctx[b]
      BY Zenon, <2>0, <3>1 DEF Goto, TypeOK
    <3>3. Pending(t) /\ \A k \in Keys : ~Removing(t, k)
      BY Zenon, <3>1 DEF Pending, Removing
    <3> QED BY Zenon, <2>0, <3>1, <3>2, <3>3, OneMoves
  <2>5. CASE WriteRegister(t)
    BY Zenon, <2>0, <2>1, <2>5 DEF WriteRegister
  <2>6. ASSUME NEW point \in {"get_current", "wait", "begin"}, Goto(t, point),
               pc[t] \in {"snapshot", "get_current", "begin"},
               UNCHANGED <<store, nextVersion, todo, seen, ctx>>
        PROVE  Tame
    <3>1. /\ point \notin {"get_old", "unregister", "insert"}
          /\ pc[t] \notin {"remove_get", "remove_store"}
      BY Zenon, <2>6
    <3> QED BY Zenon, <2>0, <2>6, <3>1, <1>MoveTame
  <2>7. CASE SnapshotGeneration(t) \/ GetCurrent(t)
    BY Zenon, <2>6, <2>7 DEF SnapshotGeneration, GetCurrent, Join, locals
  <2>8. CASE InsertOrGetCurrent(t)
    <3>1. CASE CanJoin(t, inflight[ctx[t].key])
      BY Zenon, <2>6, <2>8, <3>1 DEF InsertOrGetCurrent, Join
    <3>2. CASE ~CanJoin(t, inflight[ctx[t].key])
      <4>1. /\ nextLoad \in Loads
            /\ pc' = [pc EXCEPT ![t] = "wait", ![nextLoad] = "loading"]
            /\ \E c : ctx' = [ctx EXCEPT ![nextLoad] = c]
            /\ UNCHANGED <<store, nextVersion, todo, seen>>
        BY Zenon, <2>8, <3>2, NewLoad
      <4>2. pc[t] = "begin"
        BY Zenon, <2>8 DEF InsertOrGetCurrent
      <4>3. pc'[t] = "wait" /\ pc'[nextLoad] = "loading"
        BY Zenon, <2>0, <4>1 DEF TypeOK, Actors
      <4>4. \A b \in Actors : b # t /\ b # nextLoad => pc'[b] = pc[b]
        BY Zenon, <2>0, <4>1 DEF TypeOK, Actors
      <4>5. \A b \in Actors : b # nextLoad => ctx'[b] = ctx[b]
        BY Zenon, <4>1 DEF TypeOK
      <4>6. StoresNothing
        BY Zenon, <4>1 DEF StoresNothing, Spent
      <4>7. NumbersNothing
        BY Zenon, <4>1, <4>3, <4>4, <4>5 DEF NumbersNothing, Pending
      <4>8. \A u \in Tasks : u # nextLoad /\ u \in Actors
        BY Zenon, <4>1, TasksAreNotLoads DEF Actors
      <4>9. \A u \in Tasks, k \in Keys : Removing(u, k) => Removing(u, k)'
        BY Zenon, <4>2, <4>4, <4>5, <4>8 DEF Removing
      <4>10. ASSUME NEW u \in Tasks, NEW kv \in seen'[u]
             PROVE  kv \in seen[u] /\ kv[1] \in Keys
        BY Zenon, <4>1, <4>10, SeenType
      <4>11. KeepsSight
        BY Zenon, <4>1, <4>9, <4>10 DEF KeepsSight
      <4> QED BY Zenon, <4>6, <4>7, <4>11 DEF Tame
    <3> QED BY Zenon, <3>1, <3>2
  <2>9. CASE AwaitLoad(t)
    <3>1. CASE EndCall(t)
      BY Zenon, <2>1, <2>9, <3>1 DEF AwaitLoad
    <3>2. CASE after[t] # <<>> /\ Goto(t, Head(after[t])) /\ UNCHANGED <<ctx, todo, seen>>
      <4>1. after[t] \in Seq(Resumes)
        BY Zenon DEF VersionInvariant
      <4>2. Head(after[t]) \notin {"get_old", "unregister", "insert"}
        <5>1. Head(after[t]) \in Resumes
          BY <3>2, <4>1
        <5> QED BY Zenon, <5>1 DEF Resumes
      <4>3. pc[t] = "wait" /\ UNCHANGED <<store, nextVersion>>
        BY Zenon, <2>9 DEF AwaitLoad
      <4>4. pc[t] \notin {"remove_get", "remove_store"}
        BY Zenon, <4>3
      <4> QED BY Zenon, <2>0, <3>2, <4>2, <4>3, <4>4, <1>MoveTame
    <3> QED BY Zenon, <2>9, <3>1, <3>2 DEF AwaitLoad
  <2>10. CASE NextKey(t)
    <3>1. CASE EndCall(t)
      BY Zenon, <2>1, <2>10, <3>1 DEF NextKey
    <3>2. ASSUME NEW k \in todo[t], todo' = [todo EXCEPT ![t] = @ \ {k}],
                 ctx' = [ctx EXCEPT ![t].key = k], Goto(t, "remove_get"), seen' = seen
          PROVE  Tame
      <4>1. pc[t] = "next_key" /\ UNCHANGED <<store, nextVersion>>
        BY Zenon, <2>10 DEF NextKey
      <4>2. pc'[t] = "remove_get" /\ \A b \in Actors : b # t => pc'[b] = pc[b]
        BY Zenon, <2>0, <3>2 DEF Goto, TypeOK
      <4>3. \A b \in Actors : b # t => ctx'[b] = ctx[b]
        BY Zenon, <2>0, <3>2 DEF TypeOK
      <4>4. ctx'[t].key = k
        BY <2>0, <3>2 DEF TypeOK
      <4>5. todo'[t] = todo[t] \ {k}
        BY Zenon, <3>2 DEF TypeOK
      <4>6. \A u \in Tasks : u # t => todo'[u] = todo[u]
        BY Zenon, <3>2 DEF TypeOK
      <4>7. StoresNothing
        BY Zenon, <3>2, <4>1 DEF StoresNothing, Spent
      <4>8. NumbersNothing
        BY Zenon, <4>1, <4>2, <4>3 DEF NumbersNothing, Pending
      <4>9. KeepsSight
        <5> SUFFICES ASSUME NEW u \in Tasks, NEW kv \in seen'[u], kv[1] \notin todo'[u]
                     PROVE  /\ kv \in seen[u]
                            /\ kv[1] \in todo[u] => Removing(u, kv[1])'
                            /\ Removing(u, kv[1]) =>
                                  Removing(u, kv[1])' \/ store'[kv[1]].version = 0
          BY Zenon DEF KeepsSight
        <5>1. CASE u = t
          BY Zenon, <3>2, <4>1, <4>2, <4>4, <4>5, <5>1 DEF Removing
        <5>2. CASE u # t
          BY Zenon, <3>2, <4>2, <4>3, <4>6, <5>2 DEF Removing, Actors
        <5> QED BY Zenon, <5>1, <5>2
      <4> QED BY Zenon, <4>7, <4>8, <4>9 DEF Tame
    <3> QED BY Zenon, <2>10, <3>1, <3>2 DEF NextKey
  <2>11. CASE RemoveGet(t)
    <3>1. CASE Present(ctx[t].key)
      BY Zenon, <2>2, <2>11, <3>1 DEF RemoveGet
    <3>2. CASE ~Present(ctx[t].key)
      <4>1. \A k \in Keys : Removing(t, k) => store[k].version = 0
        BY Zenon, <3>2 DEF Removing, Present
      <4> QED BY Zenon, <2>11, <3>2, <4>1, <1>ContinueTame DEF RemoveGet
    <3> QED BY Zenon, <3>1, <3>2
  <2>12. CASE RemoveStore(t)
    <3>1. /\ store' = [store EXCEPT ![ctx[t].key] = NoEntry]
          /\ Goto(t, "remove_unregister")
          /\ UNCHANGED <<nextVersion, todo, seen, ctx>>
      BY Zenon, <2>12 DEF RemoveStore, locals
    <3>2. pc'[t] = "remove_unregister" /\ \A b \in Actors : b # t => pc'[b] = pc[b]
      BY Zenon, <2>0, <3>1 DEF Goto, TypeOK
    <3>3. \A b \in Actors : Pending(b)' => Pending(b)
      BY Zenon, <3>2 DEF Pending
    <3>4. \A u \in Tasks, k \in Keys : Removing(u, k) => Removing(u, k)' \/ k \in {ctx[t].key}
      BY Zenon, <3>1, <3>2 DEF Removing, Actors
    <3>5. store' = [k \in Keys |-> IF k \in {ctx[t].key} THEN NoEntry ELSE store[k]]
      BY Zenon, <2>0, <3>1, <1>TakenOne
    <3> QED BY Zenon, <2>0, <3>1, <3>3, <3>4, <3>5, <1>TakenTame
  <2>13. CASE RemoveUnregister(t)
    <3>1. \A k \in Keys : ~Removing(t, k)
      BY Zenon, <2>13 DEF RemoveUnregister, Removing
    <3> QED BY Zenon, <2>13, <3>1, <1>ContinueTame DEF RemoveUnregister
  <2>14. CASE FlushClear(t)
    BY Zenon, <2>1, <2>14 DEF FlushClear
  <2> QED BY Zenon, <2>3, <2>4, <2>5, <2>7, <2>8, <2>9, <2>10, <2>11, <2>12, <2>13, <2>14
          DEF TaskStep, Write
  \* The steps of a load, but for its numbering and its store.insert.
<1>LoadTame.
      ASSUME TypeOK, TypeOK', NEW l \in Loads, LoadStep(l), ~WriteInsert(l),
             nextVersion' = nextVersion
      PROVE  Tame
  <2> USE <1>LoadTame
  <2>0. l \in Actors /\ l \notin Tasks
    BY Zenon, TasksAreNotLoads DEF Actors
  <2>1. CASE WriteGetOld(l) \/ WriteUnregister(l)
    <3>1. /\ Pending(l)
          /\ \E point : pc' = [pc EXCEPT ![l] = point]
          /\ ctx' = ctx \/ \E T : ctx' = [ctx EXCEPT ![l].old = T]
          /\ UNCHANGED <<store, nextVersion, todo, seen>>
      BY Zenon, <2>1 DEF WriteGetOld, WriteUnregister, Goto, locals, Pending
    <3>2. \A b \in Actors : b # l => pc'[b] = pc[b] /\ ctx'[b] = ctx[b]
      BY Zenon, <3>1 DEF TypeOK
    <3>3. ctx'[l].version = ctx[l].version
      BY <2>0, <3>1 DEF TypeOK
    <3>4. \A k \in Keys : ~Removing(l, k)
      BY Zenon, <3>1 DEF Removing, Pending
    <3> QED BY Zenon, <2>0, <3>1, <3>2, <3>3, <3>4, OneMoves
  <2>2. ASSUME NEW point \in {"check", "finish", "finish_err", "done", "failed"},
               Goto(l, point),
               pc[l] \in {"loading", "check", "register", "finish", "finish_err"},
               UNCHANGED <<store, nextVersion, todo, seen, ctx>>
        PROVE  Tame
    <3>1. /\ point \notin {"get_old", "unregister", "insert"}
          /\ pc[l] \notin {"remove_get", "remove_store"}
      BY Zenon, <2>2
    <3> QED BY Zenon, <2>0, <2>2, <3>1, <1>MoveTame
  <2>3. CASE WriteRegister(l)
    BY Zenon, <2>0, <2>2, <2>3 DEF WriteRegister, locals
  <2>4. CASE LoaderReturns(l) \/ SkipOversize(l)
    BY Zenon, <2>2, <2>4 DEF LoaderReturns, SkipOversize, locals
  <2>5. CASE CheckFresh(l)
    <3>1. CASE IsCurrent(index, snap[l])
      <4>1. nextVersion' = nextVersion + 1
        BY Zenon, <2>5, <3>1 DEF CheckFresh
      <4>2. nextVersion \in Nat
        BY Zenon DEF TypeOK
      <4> QED BY <4>1, <4>2
    <3>2. CASE ~IsCurrent(index, snap[l])
      BY Zenon, <2>2, <2>5, <3>2 DEF CheckFresh
    <3> QED BY Zenon, <3>1, <3>2
  <2>6. CASE FinishLoad(l)
    BY Zenon, <2>2, <2>6 DEF FinishLoad, locals
  <2> QED BY Zenon, <2>1, <2>3, <2>4, <2>5, <2>6 DEF LoadStep, Write
  \* put and put_bytes_if_fresh take a version that nobody has.
<1>Numbered.
      ASSUME TypeOK, TypeOK', VersionInvariant, SeenInvariant, NEW a \in Actors,
             pc' = [pc EXCEPT ![a] = "get_old"], pc[a] \in {"idle", "check"},
             nextVersion' = nextVersion + 1, ctx'[a].version = nextVersion,
             \A b \in Actors : b # a => ctx'[b] = ctx[b],
             UNCHANGED <<store, todo, seen, after>>
      PROVE  VersionInvariant' /\ SeenInvariant'
  <2> USE <1>Numbered
  <2>0. nextVersion \in Nat \ {0} /\ \A b \in Actors : ctx[b].version \in Nat
    BY Zenon DEF TypeOK
  <2>1. pc'[a] = "get_old" /\ \A b \in Actors : b # a => pc'[b] = pc[b]
    BY Zenon DEF TypeOK
  <2>2. \A b \in Actors : b # a /\ Pending(b)' => Pending(b) /\ ctx'[b] = ctx[b]
    BY Zenon, <2>1 DEF Pending
  <2>3. \A v : Spent(v)' <=> Spent(v)
    BY Zenon DEF Spent
  <2>4. ASSUME NEW b \in Actors, Pending(b)'
        PROVE  (/\ ctx[b].version # 0 /\ ctx[b].version < nextVersion
                /\ ~Spent(ctx[b].version))'
    <3> PICK v : v = ctx'[b].version
      BY Zenon
    <3>1. v # 0 /\ v < nextVersion' /\ ~Spent(v)
      <4>1. CASE b = a
        BY <2>0, <4>1 DEF VersionInvariant
      <4>2. CASE b # a
        BY <2>0, <2>2, <2>4, <4>2 DEF VersionInvariant
      <4> QED BY Zenon, <4>1, <4>2
    <3>2. ~Spent(v)'
      BY Zenon, <2>3, <3>1
    <3>3. ~Spent(ctx[b].version)'
      BY Zenon, <3>2 DEF Spent
    <3> QED BY Zenon, <3>1, <3>3
  <2>5. ASSUME NEW b \in Actors, NEW c \in Actors, Pending(b)', Pending(c)',
               ctx'[b].version = ctx'[c].version
        PROVE  b = c
    <3>1. \A d \in Actors : d # a /\ Pending(d)' => ctx'[d].version < nextVersion
      BY Zenon, <2>2 DEF VersionInvariant
    <3>2. CASE b = a /\ c # a
      BY <2>0, <2>5, <3>1, <3>2
    <3>3. CASE b # a /\ c = a
      BY <2>0, <2>5, <3>1, <3>3
    <3>4. CASE b # a /\ c # a
      BY Zenon, <2>2, <2>5, <3>4 DEF VersionInvariant
    <3> QED BY Zenon, <3>2, <3>3, <3>4
  <2>6. ASSUME NEW v \in Nat, Spent(v)' PROVE v < nextVersion'
    BY <2>0, <2>3, <2>6 DEF VersionInvariant
  <2>7. after' \in [Tasks -> Seq(Resumes)]
    BY Zenon DEF VersionInvariant
  <2>8. \A t \in Tasks, k \in Keys : Removing(t, k) => Removing(t, k)'
    <3>1. a \in Tasks => \A k \in Keys : ~Removing(a, k)
      BY Zenon DEF Removing
    <3> QED BY Zenon, <2>1, <3>1 DEF Removing, Actors
  <2>9. ASSUME NEW t \in Tasks, NEW kv \in seen[t] PROVE kv[1] \in Keys
    BY Zenon, <2>9, SeenType
  <2>10. SeenInvariant'
    BY Zenon, <2>8, <2>9 DEF SeenInvariant
  <2>11. VersionInvariant'
    BY Zenon, <2>4, <2>5, <2>6, <2>7 DEF VersionInvariant
  <2> QED BY Zenon, <2>10, <2>11
  \* store.insert spends the version of its writer, which nobody has seen.
<1>Inserted.
      ASSUME TypeOK, TypeOK', VersionInvariant, SeenInvariant, NEW a \in Actors,
             WriteInsert(a)
      PROVE  VersionInvariant' /\ SeenInvariant'
  <2> USE <1>Inserted
  <2> PICK w : w = ctx[a].version
    BY Zenon
  <2>0. /\ ctx[a].key \in Keys /\ nextVersion \in Nat \ {0}
        /\ pc[a] = "insert" /\ Goto(a, "register")
        /\ UNCHANGED <<nextVersion, ctx, todo, seen, after>>
    BY Zenon DEF TypeOK, WriteInsert, locals
  <2>1. pc'[a] = "register" /\ \A b \in Actors : b # a => pc'[b] = pc[b]
    BY Zenon, <2>0 DEF Goto, TypeOK
  <2>2. /\ store'[ctx[a].key].version = w
        /\ \A k \in Keys : k # ctx[a].key => store'[k] = store[k]
    BY Zenon, <2>0 DEF WriteInsert, TypeOK
  <2>3. Pending(a)
    BY Zenon, <2>0 DEF Pending
  <2>4. w # 0 /\ w < nextVersion /\ ~Spent(w)
    BY Zenon, <2>3 DEF VersionInvariant
  <2>5. \A b \in Actors : Pending(b)' => b # a /\ Pending(b) /\ ctx'[b] = ctx[b]
    BY Zenon, <2>0, <2>1 DEF Pending
  <2>6. ASSUME NEW v, Spent(v)' PROVE v = w \/ Spent(v)
    BY Zenon, <2>0, <2>2, <2>6 DEF Spent
  <2>7. ASSUME NEW b \in Actors, Pending(b)'
        PROVE  (/\ ctx[b].version # 0 /\ ctx[b].version < nextVersion
                /\ ~Spent(ctx[b].version))'
    <3> PICK v : v = ctx[b].version
      BY Zenon
    <3>1. v # 0 /\ v < nextVersion /\ ~Spent(v) /\ v # w
      BY Zenon, <2>3, <2>5, <2>7 DEF VersionInvariant
    <3>2. ~Spent(v)'
      BY Zenon, <2>6, <3>1
    <3>3. ~Spent(ctx[b].version)'
      BY Zenon, <2>0, <3>2 DEF Spent
    <3> QED BY Zenon, <2>0, <3>1, <3>3
  <2>8. ASSUME NEW b \in Actors, NEW c \in Actors, Pending(b)', Pending(c)',
               ctx'[b].version = ctx'[c].version
        PROVE  b = c
    BY Zenon, <2>5, <2>8 DEF VersionInvariant
  <2>9. ASSUME NEW v \in Nat, Spent(v)' PROVE v < nextVersion'
    BY Zenon, <2>0, <2>4, <2>6, <2>9 DEF VersionInvariant
  <2>10. after' \in [Tasks -> Seq(Resumes)]
    BY Zenon, <2>0 DEF VersionInvariant
  <2>11. \A t \in Tasks, k \in Keys : Removing(t, k) => Removing(t, k)'
    <3>1. a \in Tasks => \A k \in Keys : ~Removing(a, k)
      BY Zenon, <2>0 DEF Removing
    <3> QED BY Zenon, <2>0, <2>1, <3>1 DEF Removing, Actors
  <2>12. ASSUME NEW t \in Tasks, NEW kv \in seen'[t] PROVE kv \in seen[t] /\ kv[1] \in Keys
    BY Zenon, <2>0, <2>12, SeenType
  <2>13. KeepsSight
    BY Zenon, <2>0, <2>11, <2>12 DEF KeepsSight
  <2>14. ASSUME NEW t \in Tasks, NEW kv \in seen[t]
         PROVE  \/ store'[kv[1]].version = store[kv[1]].version
                \/ store'[kv[1]].version # kv[2]
    <3>1. kv[1] \in Keys /\ kv[2] # w
      BY Zenon, <2>4, <2>14, SeenType DEF Spent
    <3> QED BY Zenon, <2>2, <3>1
  <2>15. SeenInvariant'
    BY Zenon, <2>13, <2>14, SeenKept
  <2>16. VersionInvariant'
    BY Zenon, <2>7, <2>8, <2>9, <2>10 DEF VersionInvariant
  <2> QED BY Zenon, <2>15, <2>16
  \* A call goes on only at the points of Resumes.
<1>ResumesKept.
      ASSUME TypeOK, after \in [Tasks -> Seq(Resumes)], [Next]_vars
      PROVE  after' \in [Tasks -> Seq(Resumes)]
  <2> USE <1>ResumesKept
  <2>0. /\ <<>> \in Seq(Resumes) /\ <<"next_key">> \in Seq(Resumes)
        /\ \A s \in Seq(Resumes) : s # <<>> => Tail(s) \in Seq(Resumes)
    BY DEF Resumes
  <2>1. ASSUME NEW t \in Tasks, NEW s \in Seq(Resumes), after' = [after EXCEPT ![t] = s]
        PROVE  after' \in [Tasks -> Seq(Resumes)]
    BY Zenon, <2>1
  <2>2. ASSUME NEW t \in Tasks, EndCall(t) PROVE after' \in [Tasks -> Seq(Resumes)]
    BY Zenon, <2>0, <2>1, <2>2 DEF EndCall
  <2>3. ASSUME NEW t \in Tasks, after[t] # <<>>, after' = [after EXCEPT ![t] = Tail(@)]
        PROVE  after' \in [Tasks -> Seq(Resumes)]
    BY Zenon, <2>0, <2>3
  <2>4. ASSUME NEW t \in Tasks, Continue(t) PROVE after' \in [Tasks -> Seq(Resumes)]
    BY Zenon, <2>2, <2>3, <2>4 DEF Continue
  <2>5. ASSUME NEW t \in Tasks, Start(t) PROVE after' \in [Tasks -> Seq(Resumes)]
    <3>1. ASSUME NEW k \in Keys, NEW T, GetOrLoadExpired(t, k, T)
          PROVE  after' \in [Tasks -> Seq(Resumes)]
      <4>1. PICK again \in {<<>>, <<"remove_store">>},
                 fallback \in {<<>>, <<"remove_store", "remove_store">>} :
                 after' = [after EXCEPT ![t] = again \o <<"snapshot">> \o fallback]
        BY Zenon, <3>1 DEF GetOrLoadExpired, Begin
      <4>2. <<"remove_store">> \in Seq(Resumes)
        BY DEF Resumes
      <4>3. <<"remove_store", "remove_store">> \in Seq(Resumes)
        BY DEF Resumes
      <4>4. <<"snapshot">> \in Seq(Resumes)
        BY DEF Resumes
      <4>5. again \in Seq(Resumes) /\ fallback \in Seq(Resumes)
        BY Zenon, <2>0, <4>2, <4>3
      <4>6. again \o <<"snapshot">> \o fallback \in Seq(Resumes)
        BY <4>4, <4>5
      <4> QED BY Zenon, <2>1, <4>1, <4>6
    <3>2. CASE after' = after
      BY Zenon, <3>2
    <3>3. CASE after' = [after EXCEPT ![t] = <<>>]
      BY Zenon, <2>0, <2>1, <3>3
    <3> QED BY Zenon, <2>5, <3>1, <3>2, <3>3
            DEF Start, Get, vars, ReadExpired, InvalidateKey, Put, GetOrLoad,
                BackgroundRefresh, InvalidateTag, Flush, Begin, locals
  <2>6. ASSUME NEW a \in Actors, Write(a) PROVE after' \in [Tasks -> Seq(Resumes)]
    BY Zenon, <2>2, <2>6 DEF Write, WriteGetOld, WriteUnregister, WriteInsert,
                             WriteRegister, locals
  <2>7. ASSUME NEW t \in Tasks, TaskStep(t) PROVE after' \in [Tasks -> Seq(Resumes)]
    <3>1. CASE SnapshotGeneration(t) \/ GetCurrent(t) \/ InsertOrGetCurrent(t)
               \/ RemoveStore(t)
      BY Zenon, <3>1 DEF SnapshotGeneration, GetCurrent, InsertOrGetCurrent, Join,
                         RemoveStore, locals
    <3>2. CASE AwaitLoad(t)
      BY Zenon, <2>2, <2>3, <3>2 DEF AwaitLoad
    <3>3. CASE NextKey(t)
      BY Zenon, <2>0, <2>1, <2>2, <3>3 DEF NextKey
    <3>4. CASE RemoveGet(t) \/ RemoveUnregister(t)
      BY Zenon, <2>4, <3>4 DEF RemoveGet, RemoveUnregister
    <3>5. CASE FlushClear(t)
      BY Zenon, <2>2, <3>5 DEF FlushClear
    <3> QED BY Zenon, <2>6, <2>7, <3>1, <3>2, <3>3, <3>4, <3>5 DEF TaskStep, Actors
  <2>8. ASSUME NEW l \in Loads, LoadStep(l) \/ RemoveIfIdle(l)
        PROVE  after' \in [Tasks -> Seq(Resumes)]
    BY Zenon, <2>6, <2>8 DEF LoadStep, LoaderReturns, CheckFresh, SkipOversize,
                             FinishLoad, RemoveIfIdle, locals, Actors
  <2>9. ASSUME NEW k \in Keys, Evict(k) PROVE after' \in [Tasks -> Seq(Resumes)]
    BY Zenon, <2>9 DEF Evict, locals
  <2>10. ASSUME NEW t \in Tasks, Cancel(t) PROVE after' \in [Tasks -> Seq(Resumes)]
    BY Zenon, <2>2, <2>10 DEF Cancel
  <2>11. CASE UNCHANGED vars
    BY Zenon, <2>11 DEF vars
  <2> QED BY Zenon, <2>5, <2>7, <2>8, <2>9, <2>10, <2>11, DroppedAssumption DEF Next
<1>1. ASSUME Tame PROVE VersionInvariant' /\ SeenInvariant'
  <2>1. after' \in [Tasks -> Seq(Resumes)]
    BY Zenon, <1>ResumesKept DEF VersionInvariant
  <2>2. VersionInvariant'
    BY Zenon, <1>1, <2>1, VersionsKept DEF Tame
  <2>3. ASSUME NEW t \in Tasks, NEW kv \in seen[t], kv[2] # 0
        PROVE  \/ store'[kv[1]].version = store[kv[1]].version
               \/ store'[kv[1]].version # kv[2]
    <3>1. kv[1] \in Keys
      BY Zenon, <2>3, SeenType
    <3> QED BY Zenon, <1>1, <2>3, <3>1 DEF Tame, StoresNothing
  <2>4. SeenInvariant'
    BY Zenon, <1>1, <2>3, SeenKept DEF Tame
  <2> QED BY Zenon, <2>2, <2>4
<1>2. ASSUME NEW t \in Tasks, Start(t) PROVE VersionInvariant' /\ SeenInvariant'
  <2>1. ASSUME NEW k \in Keys, NEW T \in TagChoices[k], Put(t, k, T)
        PROVE  VersionInvariant' /\ SeenInvariant'
    <3>1. /\ pc' = [pc EXCEPT ![t] = "get_old"] /\ pc[t] = "idle"
          /\ nextVersion' = nextVersion + 1
          /\ ctx' = [ctx EXCEPT ![t] = [key |-> k, tags |-> T, old |-> {},
                                        version |-> nextVersion]]
          /\ UNCHANGED <<store, todo, seen, after>>
      BY Zenon, <2>1 DEF Put, Goto
    <3>2. t \in Actors /\ ctx'[t].version = nextVersion
      BY Zenon, <3>1 DEF TypeOK, Actors
    <3>3. \A b \in Actors : b # t => ctx'[b] = ctx[b]
      BY Zenon, <3>1 DEF TypeOK
    <3> QED BY Zenon, <3>1, <3>2, <3>3, <1>Numbered
  <2> QED BY Zenon, <1>1, <1>2, <2>1, <1>StartTame
<1>3. ASSUME NEW t \in Tasks, TaskStep(t) PROVE VersionInvariant' /\ SeenInvariant'
  BY Zenon, <1>1, <1>3, <1>TaskTame, <1>Inserted DEF Actors
<1>4. ASSUME NEW l \in Loads, LoadStep(l) PROVE VersionInvariant' /\ SeenInvariant'
  <2>0. l \in Actors
    BY Zenon DEF Actors
  <2>1. CASE WriteInsert(l)
    BY Zenon, <2>0, <2>1, <1>Inserted
  <2>2. CASE nextVersion' = nextVersion /\ ~WriteInsert(l)
    BY Zenon, <1>1, <1>4, <2>2, <1>LoadTame
  <2>3. CASE nextVersion' # nextVersion
    <3>1. CheckFresh(l) /\ IsCurrent(index, snap[l])
      BY Zenon, <1>4, <2>3
         DEF LoadStep, LoaderReturns, CheckFresh, SkipOversize, FinishLoad, Write,
             WriteGetOld, WriteUnregister, WriteInsert, WriteRegister
    <3>2. /\ pc' = [pc EXCEPT ![l] = "get_old"] /\ pc[l] = "check"
          /\ nextVersion' = nextVersion + 1
          /\ ctx' = [ctx EXCEPT ![l].version = nextVersion]
          /\ UNCHANGED <<store, todo, seen, after>>
      BY Zenon, <3>1 DEF CheckFresh, Goto
    <3>3. ctx'[l].version = nextVersion
      BY <2>0, <3>2 DEF TypeOK
    <3>4. \A b \in Actors : b # l => ctx'[b] = ctx[b]
      BY Zenon, <3>2 DEF TypeOK
    <3> QED BY Zenon, <2>0, <3>2, <3>3, <3>4, <1>Numbered
  <2> QED BY Zenon, <2>1, <2>2, <2>3
<1>5. ASSUME UNCHANGED <<nextVersion, todo, seen, pc, ctx>>, NEW K \in SUBSET Keys,
             store' = [k \in Keys |-> IF k \in K THEN NoEntry ELSE store[k]]
      PROVE  VersionInvariant' /\ SeenInvariant'
  <2>1. \A b \in Actors : Pending(b)' => Pending(b)
    BY Zenon, <1>5 DEF Pending
  <2>2. \A t \in Tasks, k \in Keys : Removing(t, k) => Removing(t, k)'
    BY Zenon, <1>5 DEF Removing
  <2> QED BY Zenon, <1>1, <1>5, <2>1, <2>2, <1>TakenTame
<1>6. ASSUME UNCHANGED <<nextVersion, todo, seen, pc, ctx, store>>
      PROVE  VersionInvariant' /\ SeenInvariant'
  <2>1. StoresNothing
    BY Zenon, <1>6 DEF StoresNothing, Spent
  <2>2. NumbersNothing
    BY Zenon, <1>6 DEF NumbersNothing, Pending
  <2>3. KeepsSight
    BY Zenon, <1>6 DEF KeepsSight, Removing
  <2> QED BY Zenon, <1>1, <2>1, <2>2, <2>3 DEF Tame
<1>7. ASSUME NEW l \in Loads, RemoveIfIdle(l) PROVE VersionInvariant' /\ SeenInvariant'
  BY Zenon, <1>6, <1>7 DEF RemoveIfIdle
<1>8. ASSUME NEW k \in Keys, Evict(k) PROVE VersionInvariant' /\ SeenInvariant'
  <2>1. store' = [store EXCEPT ![k] = NoEntry]
        /\ UNCHANGED <<nextVersion, todo, seen, pc, ctx>>
    BY Zenon, <1>8 DEF Evict, locals
  <2>2. store' = [j \in Keys |-> IF j \in {k} THEN NoEntry ELSE store[j]]
    BY Zenon, <2>1, <1>TakenOne
  <2> QED BY Zenon, <1>5, <2>1, <2>2
<1>9. ASSUME NEW t \in Tasks, Cancel(t) PROVE VersionInvariant' /\ SeenInvariant'
  BY Zenon, <1>1, <1>9, EndCallTame DEF Cancel
<1>10. CASE UNCHANGED vars
  BY Zenon, <1>6, <1>10 DEF vars
<1> QED BY Zenon, <1>2, <1>3, <1>4, <1>7, <1>8, <1>9, <1>10, DroppedAssumption DEF Next

\* Both invariants hold of every behaviour.
LEMMA Versioned == Spec => [](VersionInvariant /\ SeenInvariant)
<1>1. Init => VersionInvariant /\ SeenInvariant
  <2> SUFFICES ASSUME Init PROVE VersionInvariant /\ SeenInvariant
    BY Zenon
  <2>1. \A a \in Actors : ~Pending(a)
    BY Zenon DEF Init, Pending
  <2>2. after \in [Tasks -> Seq(Resumes)]
    BY DEF Init
  <2>3. \A v : Spent(v) => v = 0
    BY Zenon DEF Init, Spent, NoEntry
  <2>4. \A v \in Nat : Spent(v) => v < nextVersion
    BY <2>3 DEF Init
  <2>5. SeenInvariant
    BY Zenon DEF Init, SeenInvariant
  <2> QED BY Zenon, <2>1, <2>2, <2>4, <2>5 DEF VersionInvariant
<1>2. TypeOK /\ TypeOK' /\ VersionInvariant /\ SeenInvariant /\ [Next]_vars
      => VersionInvariant' /\ SeenInvariant'
  BY Zenon, SeenStep
<1> QED BY <1>1, <1>2, Types, PTL DEF Spec

\* However writes, loads, evictions and removals interleave with it, an
\* invalidate_tag that has dealt with a key has taken out of the store the entry
\* it found there: a version that left the store never comes back.
THEOREM TagInvalidationRemoves == Spec => []TagInvalidationRemovesSeen
<1>1. SeenInvariant => TagInvalidationRemovesSeen
  BY Zenon DEF SeenInvariant, TagInvalidationRemovesSeen, Removing
<1> QED BY <1>1, Versioned, PTL

-----------------------------------------------------------------------------
(* Single flight *)

\* A snapshot holds the generations of its own tags only.
Trimmed(s) == \A g \in Tags : g \notin s.tags => s.generations[g] = 0

\* Task t is about to load, or will be after a removal.
ToLoad(t) ==
    \/ pc[t] \in {"snapshot", "get_current", "begin"}
    \/ \E i \in DOMAIN after[t] : after[t][i] = "snapshot"

Chosen(t) == ctx[t].tags \in TagChoices[ctx[t].key]

\* A task between its snapshot and its load holds the snapshot of its own call.
OwnSnapshot(t) ==
    pc[t] \in {"get_current", "begin"} =>
        snap[t].key = ctx[t].key /\ snap[t].tags = ctx[t].tags

\* So does a load; its tags are among those that callers attach to its key.
LoadSnapshot(l) ==
    pc[l] # "free" => snap[l].key = ctx[l].key /\ snap[l].tags \in TagChoices[snap[l].key]

SnapshotInvariant ==
    /\ \A a \in Actors : Trimmed(snap[a])
    /\ \A t \in Tasks : (ToLoad(t) => Chosen(t)) /\ OwnSnapshot(t)
    /\ \A l \in Loads : LoadSnapshot(l)

\* The map holds the one load of an undisturbed key that callers still drive.
FlightInvariant ==
    \A l \in Loads : Live(l) /\ Undisturbed(ctx[l].key) => inflight[ctx[l].key] = l

\* A current snapshot is the one that would be taken now, so the current
\* snapshots of a key with one set of tags are equal.
LEMMA CurrentIsTaken ==
    ASSUME NEW ix \in Indexes, NEW s \in Snapshots, Trimmed(s), IsCurrent(ix, s)
    PROVE  s = TakeSnapshot(ix, s.key, s.tags)
<1>1. /\ s.tags \subseteq Tags /\ s.key \in Keys /\ s.generations \in [Tags -> Nat]
      /\ s = [global |-> s.global, key |-> s.key, keyGeneration |-> s.keyGeneration,
              tags |-> s.tags, generations |-> s.generations]
  BY Zenon DEF Snapshots
<1>2. \A g \in Tags : s.generations[g] = IF g \in s.tags THEN ix.generations[g] ELSE 0
  BY Zenon DEF Trimmed, IsCurrent
<1>3. s.generations = [g \in Tags |-> IF g \in s.tags THEN ix.generations[g] ELSE 0]
  BY Zenon, <1>1, <1>2
<1>4. ix.global = s.global /\ ix.keyGenerations[s.key] = s.keyGeneration
  BY Zenon DEF IsCurrent
<1> QED BY Zenon, <1>1, <1>3, <1>4 DEF TakeSnapshot

\* A snapshot that is not ahead and not current is behind.
LEMMA StaleIsBehind ==
    ASSUME NEW ix \in Indexes, NEW s \in Snapshots, NotAhead(ix, s), ~IsCurrent(ix, s)
    PROVE  Behind(ix, s)
<1>1. /\ ix.global \in Nat /\ s.global \in Nat /\ s.key \in Keys /\ s.tags \subseteq Tags
      /\ s.keyGeneration \in Nat /\ ix.keyGenerations[s.key] \in Nat
  BY Zenon, Counters
<1>2. \A g \in s.tags : ix.generations[g] \in Nat /\ s.generations[g] \in Nat
  BY Zenon, Counters
<1>3. CASE s.global # ix.global
  BY <1>1, <1>3 DEF NotAhead, Behind
<1>4. CASE s.global = ix.global
  <2>1. CASE s.keyGeneration # ix.keyGenerations[s.key]
    BY <1>1, <1>4, <2>1 DEF NotAhead, Behind
  <2>2. CASE \E g \in s.tags : ix.generations[g] # s.generations[g]
    <3>1. PICK g \in s.tags : ix.generations[g] # s.generations[g]
      BY Zenon, <2>2
    <3>2. s.generations[g] <= ix.generations[g]
      BY Zenon, <1>4 DEF NotAhead
    <3>3. s.generations[g] < ix.generations[g]
      BY <1>2, <3>1, <3>2
    <3> QED BY Zenon, <3>3 DEF Behind
  <2> QED BY Zenon, <1>4, <2>1, <2>2 DEF IsCurrent
<1> QED BY Zenon, <1>3, <1>4

\* How a step changes the index.
LEMMA IndexStep ==
    ASSUME TypeOK, [Next]_vars
    PROVE  \/ index' = index
           \/ \E a \in Actors :
                 \/ index' = Register(index, ctx[a].key, ctx[a].tags, ctx[a].version)
                 \/ index' = Unregister(index, ctx[a].key, ctx[a].old)
           \/ \E k \in Keys : index' = AdvanceKey(index, k)
           \/ \E g \in Tags : index' = TakeTag(index, g)
           \/ index' = Clear(index)
<1> DEFINE Goal == \/ index' = index
                   \/ \E a \in Actors :
                         \/ index' = Register(index, ctx[a].key, ctx[a].tags, ctx[a].version)
                         \/ index' = Unregister(index, ctx[a].key, ctx[a].old)
                   \/ \E k \in Keys : index' = AdvanceKey(index, k)
                   \/ \E g \in Tags : index' = TakeTag(index, g)
                   \/ index' = Clear(index)
<1>1. ASSUME NEW t \in Tasks, Start(t) PROVE Goal
  BY Zenon, <1>1 DEF Start, Get, vars, ReadExpired, InvalidateKey, Put, GetOrLoad,
                     GetOrLoadExpired, BackgroundRefresh, InvalidateTag, Flush
<1>2. ASSUME NEW a \in Actors, Write(a) PROVE Goal
  BY Zenon, <1>2 DEF Write, WriteGetOld, WriteUnregister, WriteInsert, WriteRegister
<1>3. ASSUME NEW t \in Tasks, TaskStep(t) PROVE Goal
  <2>1. CASE SnapshotGeneration(t) \/ GetCurrent(t) \/ InsertOrGetCurrent(t)
             \/ AwaitLoad(t) \/ NextKey(t) \/ RemoveGet(t) \/ RemoveStore(t)
    BY Zenon, <2>1 DEF SnapshotGeneration, GetCurrent, InsertOrGetCurrent, Join,
                       AwaitLoad, NextKey, RemoveGet, RemoveStore
  <2>2. CASE RemoveUnregister(t) \/ FlushClear(t)
    BY Zenon, <2>2 DEF RemoveUnregister, FlushClear, Actors
  <2> QED BY Zenon, <1>2, <1>3, <2>1, <2>2 DEF TaskStep, Actors
<1>4. ASSUME NEW l \in Loads, LoadStep(l) \/ RemoveIfIdle(l) PROVE Goal
  BY Zenon, <1>2, <1>4 DEF LoadStep, LoaderReturns, CheckFresh, SkipOversize,
                           FinishLoad, RemoveIfIdle, Actors
<1>5. ASSUME NEW k \in Keys, Evict(k) PROVE Goal
  BY Zenon, <1>5 DEF Evict
<1>6. ASSUME NEW t \in Tasks, Cancel(t) PROVE Goal
  BY Zenon, <1>6 DEF Cancel
<1>7. CASE UNCHANGED vars
  BY Zenon, <1>7 DEF vars
<1> QED BY Zenon, <1>1, <1>3, <1>4, <1>5, <1>6, <1>7, DroppedAssumption DEF Next

\* A snapshot that has fallen behind stays behind.
LEMMA BehindStays ==
    ASSUME TypeOK, [Next]_vars, NEW s \in Snapshots, NotAhead(index, s), Behind(index, s)
    PROVE  Behind(index', s)
<1>1. index \in Indexes
  BY Zenon DEF TypeOK
<1>2. CASE index' = index
  BY Zenon, <1>2
<1>3. CASE \E a \in Actors :
              \/ index' = Register(index, ctx[a].key, ctx[a].tags, ctx[a].version)
              \/ index' = Unregister(index, ctx[a].key, ctx[a].old)
  <2>1. PICK a \in Actors :
              \/ index' = Register(index, ctx[a].key, ctx[a].tags, ctx[a].version)
              \/ index' = Unregister(index, ctx[a].key, ctx[a].old)
    BY Zenon, <1>3
  <2>2. CASE index' = Register(index, ctx[a].key, ctx[a].tags, ctx[a].version)
    <3>1. Behind(Register(index, ctx[a].key, ctx[a].tags, ctx[a].version), s)
      BY Zenon, <1>1, MembershipFence
    <3> QED BY Zenon, <2>2, <3>1
  <2>3. CASE index' = Unregister(index, ctx[a].key, ctx[a].old)
    <3>1. Behind(Unregister(index, ctx[a].key, ctx[a].old), s)
      BY Zenon, <1>1, MembershipFence
    <3> QED BY Zenon, <2>3, <3>1
  <2> QED BY Zenon, <2>1, <2>2, <2>3
<1>4. CASE \E k \in Keys : index' = AdvanceKey(index, k)
  <2>1. PICK k \in Keys : index' = AdvanceKey(index, k)
    BY Zenon, <1>4
  <2>2. Behind(AdvanceKey(index, k), s)
    BY Zenon, <1>1, AdvanceKeyFence
  <2> QED BY Zenon, <2>1, <2>2
<1>5. CASE \E g \in Tags : index' = TakeTag(index, g)
  <2>1. PICK g \in Tags : index' = TakeTag(index, g)
    BY Zenon, <1>5
  <2>2. Behind(TakeTag(index, g), s)
    BY Zenon, <1>1, TakeTagFence
  <2> QED BY Zenon, <2>1, <2>2
<1>6. CASE index' = Clear(index)
  BY Zenon, <1>1, <1>6, ClearFence
<1> QED BY Zenon, <1>2, <1>3, <1>4, <1>5, <1>6, IndexStep

\* A step of task t alone: nobody else's locals change.
OnlyTask(t) ==
    /\ \A b \in Actors : b # t => pc'[b] = pc[b] /\ ctx'[b] = ctx[b] /\ snap'[b] = snap[b]
    /\ \A u \in Tasks : u # t => after'[u] = after[u]

\* Such a step keeps the snapshots in order if task t does.
LEMMA TaskAlone ==
    ASSUME TypeOK, TypeOK', SnapshotInvariant, NEW t \in Tasks, OnlyTask(t),
           Trimmed(snap[t])', ToLoad(t)' => Chosen(t)', OwnSnapshot(t)'
    PROVE  SnapshotInvariant'
<1>1. ASSUME NEW a \in Actors PROVE Trimmed(snap[a])'
  BY Zenon DEF SnapshotInvariant, OnlyTask, Trimmed
<1>2. ASSUME NEW u \in Tasks PROVE (ToLoad(u)' => Chosen(u)') /\ OwnSnapshot(u)'
  <2>1. CASE u = t
    BY Zenon, <2>1
  <2>2. CASE u # t
    <3>1. /\ pc'[u] = pc[u] /\ ctx'[u] = ctx[u] /\ snap'[u] = snap[u]
          /\ after'[u] = after[u]
      BY Zenon, <2>2 DEF OnlyTask, Actors
    <3>2. (ToLoad(u) => Chosen(u)) /\ OwnSnapshot(u)
      BY Zenon DEF SnapshotInvariant
    <3>3. ToLoad(u)' => Chosen(u)'
      BY Zenon, <3>1, <3>2 DEF ToLoad, Chosen
    <3>4. OwnSnapshot(u)'
      BY Zenon, <3>1, <3>2 DEF OwnSnapshot
    <3> QED BY Zenon, <3>3, <3>4
  <2> QED BY Zenon, <2>1, <2>2
<1>3. ASSUME NEW l \in Loads PROVE LoadSnapshot(l)'
  <2>1. pc'[l] = pc[l] /\ ctx'[l] = ctx[l] /\ snap'[l] = snap[l]
    BY Zenon, TasksAreNotLoads DEF OnlyTask, Actors
  <2>2. LoadSnapshot(l)
    BY Zenon DEF SnapshotInvariant
  <2> QED BY Zenon, <2>1, <2>2 DEF LoadSnapshot
<1> QED BY Zenon, <1>1, <1>2, <1>3 DEF SnapshotInvariant

\* A task that moves on with its key, its tags, its snapshot and its plan.
LEMMA TaskMoves ==
    ASSUME TypeOK, TypeOK', SnapshotInvariant, NEW t \in Tasks, OnlyTask(t),
           ctx'[t].key = ctx[t].key, ctx'[t].tags = ctx[t].tags, snap'[t] = snap[t],
           after'[t] = after[t],
           pc'[t] \in {"snapshot", "get_current", "begin"} =>
               pc[t] \in {"snapshot", "get_current", "begin"},
           pc'[t] \in {"get_current", "begin"} => pc[t] \in {"get_current", "begin"}
    PROVE  SnapshotInvariant'
<1>1. Trimmed(snap[t]) /\ (ToLoad(t) => Chosen(t)) /\ OwnSnapshot(t)
  BY Zenon DEF SnapshotInvariant, Actors
<1>2. Trimmed(snap[t])'
  BY Zenon, <1>1 DEF Trimmed
<1>3. ToLoad(t)' => Chosen(t)'
  BY Zenon, <1>1 DEF ToLoad, Chosen
<1>4. OwnSnapshot(t)'
  BY Zenon, <1>1 DEF OwnSnapshot
<1> QED BY Zenon, <1>2, <1>3, <1>4, TaskAlone

\* A task that goes on at the next point of its plan.
LEMMA TaskResumes ==
    ASSUME TypeOK, TypeOK', SnapshotInvariant, VersionInvariant, NEW t \in Tasks,
           after[t] # <<>>, Goto(t, Head(after[t])),
           after' = [after EXCEPT ![t] = Tail(@)], UNCHANGED <<ctx, snap>>
    PROVE  OnlyTask(t) /\ SnapshotInvariant'
<1>1. after[t] \in Seq(Resumes)
  BY Zenon DEF VersionInvariant
<1>2. /\ Head(after[t]) \in Resumes
      /\ Head(after[t]) = "snapshot" => \E i \in DOMAIN after[t] : after[t][i] = "snapshot"
  BY <1>1
<1>3. (\E i \in DOMAIN Tail(after[t]) : Tail(after[t])[i] = "snapshot") =>
         \E i \in DOMAIN after[t] : after[t][i] = "snapshot"
  BY <1>1
<1>4. /\ t \in Actors /\ pc'[t] = Head(after[t]) /\ after'[t] = Tail(after[t])
      /\ \A u \in Tasks : u # t => after'[u] = after[u]
  BY Zenon DEF Goto, TypeOK, Actors
<1>5. \A b \in Actors : b # t => pc'[b] = pc[b]
  BY Zenon DEF Goto, TypeOK
<1>6. OnlyTask(t)
  BY Zenon, <1>4, <1>5 DEF OnlyTask
<1>7. Trimmed(snap[t]) /\ (ToLoad(t) => Chosen(t))
  BY Zenon, <1>4 DEF SnapshotInvariant
<1>8. Trimmed(snap[t])'
  BY Zenon, <1>7 DEF Trimmed
<1>9. pc'[t] \notin {"get_current", "begin"}
  BY Zenon, <1>2, <1>4 DEF Resumes
<1>10. ToLoad(t)' => ToLoad(t)
  BY Zenon, <1>2, <1>3, <1>4, <1>9 DEF ToLoad
<1>11. ToLoad(t)' => Chosen(t)'
  BY Zenon, <1>7, <1>10 DEF Chosen
<1>12. OwnSnapshot(t)'
  BY Zenon, <1>9 DEF OwnSnapshot
<1> QED BY Zenon, <1>6, <1>8, <1>11, <1>12, TaskAlone

\* The end of a call.
LEMMA EndCallSnapshots ==
    ASSUME TypeOK, TypeOK', SnapshotInvariant, NEW t \in Tasks, EndCall(t)
    PROVE  OnlyTask(t) /\ SnapshotInvariant'
<1>1. /\ pc' = [pc EXCEPT ![t] = "idle"] /\ ctx' = [ctx EXCEPT ![t] = NoCtx]
      /\ snap' = [snap EXCEPT ![t] = NoSnapshot]
      /\ after' = [after EXCEPT ![t] = <<>>]
  BY Zenon DEF EndCall, Goto
<1>2. t \in Actors /\ pc'[t] = "idle" /\ snap'[t] = NoSnapshot /\ after'[t] = <<>>
  BY Zenon, <1>1 DEF TypeOK, Actors
<1>3. \A b \in Actors : b # t => pc'[b] = pc[b] /\ ctx'[b] = ctx[b]
  BY Zenon, <1>1 DEF TypeOK
<1>4. \A b \in Actors : b # t => snap'[b] = snap[b]
  BY Zenon, <1>1 DEF TypeOK
<1>5. \A u \in Tasks : u # t => after'[u] = after[u]
  BY Zenon, <1>1 DEF TypeOK
<1>6. OnlyTask(t)
  BY Zenon, <1>3, <1>4, <1>5 DEF OnlyTask
<1>7. Trimmed(NoSnapshot)
  BY Zenon DEF NoSnapshot, TakeSnapshot, Trimmed
<1>8. Trimmed(snap[t])'
  BY Zenon, <1>2, <1>7 DEF Trimmed
<1>9. ~ToLoad(t)' /\ OwnSnapshot(t)'
  BY <1>2 DEF ToLoad, OwnSnapshot
<1> QED BY Zenon, <1>6, <1>8, <1>9, TaskAlone


\* The start of a call.
LEMMA StartSnapshots ==
    ASSUME TypeOK, TypeOK', SnapshotInvariant, NEW t \in Tasks, Start(t)
    PROVE  OnlyTask(t) /\ SnapshotInvariant'
<1>0. t \in Actors /\ Trimmed(snap[t])
  BY Zenon DEF SnapshotInvariant, Actors
<1>1. ASSUME NEW k \in Keys, NEW T, NEW point, NEW rest, Begin(t, point, k, T, rest),
             T \in TagChoices[k] \/ (rest = <<>> /\ point # "snapshot"),
             point \in {"snapshot", "remove_get", "remove_store", "next_key"}
      PROVE  OnlyTask(t) /\ SnapshotInvariant'
  <2>1. /\ pc' = [pc EXCEPT ![t] = point]
        /\ ctx' = [ctx EXCEPT ![t] = [key |-> k, tags |-> T, version |-> 0,
                                      old |-> store[k].tags]]
        /\ after' = [after EXCEPT ![t] = rest] /\ snap' = snap
    BY Zenon, <1>1 DEF Begin, Goto
  <2>2. pc'[t] = point /\ after'[t] = rest
    BY Zenon, <1>0, <2>1 DEF TypeOK
  <2>3. ctx'[t].key = k /\ ctx'[t].tags = T
    BY Zenon, <1>0, <2>1 DEF TypeOK
  <2>4. \A b \in Actors : b # t => pc'[b] = pc[b] /\ ctx'[b] = ctx[b]
    BY Zenon, <2>1 DEF TypeOK
  <2>5. \A u \in Tasks : u # t => after'[u] = after[u]
    BY Zenon, <2>1 DEF TypeOK
  <2>6. OnlyTask(t)
    BY Zenon, <2>1, <2>4, <2>5 DEF OnlyTask
  <2>7. Trimmed(snap[t])'
    BY Zenon, <1>0, <2>1 DEF Trimmed
  <2>8. ToLoad(t)' => Chosen(t)'
    <3>1. CASE T \in TagChoices[k]
      BY Zenon, <2>3, <3>1 DEF Chosen
    <3>2. CASE rest = <<>> /\ point # "snapshot"
      <4>1. \A i : i \notin DOMAIN rest
        BY <3>2
      <4>2. point \notin {"snapshot", "get_current", "begin"}
        BY Zenon, <1>1, <3>2
      <4> QED BY Zenon, <2>2, <4>1, <4>2 DEF ToLoad
    <3> QED BY Zenon, <1>1, <3>1, <3>2
  <2>9. OwnSnapshot(t)'
    BY Zenon, <1>1, <2>2 DEF OwnSnapshot
  <2> QED BY Zenon, <2>6, <2>7, <2>8, <2>9, TaskAlone
<1>2. ASSUME UNCHANGED <<pc, ctx, snap, after>> PROVE OnlyTask(t) /\ SnapshotInvariant'
  <2>1. OnlyTask(t)
    BY Zenon, <1>2 DEF OnlyTask
  <2> QED BY Zenon, <1>2, <2>1, TaskMoves
<1>3. ASSUME NEW k \in Keys, Get(t, k) PROVE OnlyTask(t) /\ SnapshotInvariant'
  BY Zenon, <1>2, <1>3 DEF Get, vars
<1>4. ASSUME NEW k \in Keys, ReadExpired(t, k) PROVE OnlyTask(t) /\ SnapshotInvariant'
  BY Zenon, <1>1, <1>4 DEF ReadExpired
<1>5. ASSUME NEW k \in Keys, InvalidateKey(t, k) PROVE OnlyTask(t) /\ SnapshotInvariant'
  BY Zenon, <1>1, <1>5 DEF InvalidateKey
<1>6. ASSUME NEW g \in Tags, InvalidateTag(t, g) PROVE OnlyTask(t) /\ SnapshotInvariant'
  BY Zenon, <1>1, <1>6, Nothing DEF InvalidateTag
<1>7. ASSUME NEW k \in Keys, NEW T \in TagChoices[k],
             \/ GetOrLoad(t, k, T) \/ BackgroundRefresh(t, k, T)
             \/ GetOrLoadExpired(t, k, T)
      PROVE  OnlyTask(t) /\ SnapshotInvariant'
  BY Zenon, <1>1, <1>7 DEF GetOrLoad, BackgroundRefresh, GetOrLoadExpired
<1>8. ASSUME NEW k \in Keys, NEW T \in TagChoices[k], Put(t, k, T)
      PROVE  OnlyTask(t) /\ SnapshotInvariant'
  <2>1. /\ pc' = [pc EXCEPT ![t] = "get_old"]
        /\ ctx' = [ctx EXCEPT ![t] = [key |-> k, tags |-> T, old |-> {},
                                      version |-> nextVersion]]
        /\ UNCHANGED <<after, snap>>
    BY Zenon, <1>8 DEF Put, Goto
  <2>2. pc'[t] = "get_old"
    BY Zenon, <1>0, <2>1 DEF TypeOK
  <2>3. ctx'[t].key = k /\ ctx'[t].tags = T
    BY Zenon, <1>0, <2>1 DEF TypeOK
  <2>4. \A b \in Actors : b # t => pc'[b] = pc[b] /\ ctx'[b] = ctx[b]
    BY Zenon, <2>1 DEF TypeOK
  <2>5. OnlyTask(t)
    BY Zenon, <2>1, <2>4 DEF OnlyTask
  <2>6. Trimmed(snap[t])'
    BY Zenon, <1>0, <2>1 DEF Trimmed
  <2>7. Chosen(t)'
    BY Zenon, <2>3 DEF Chosen
  <2>8. OwnSnapshot(t)'
    BY Zenon, <2>2 DEF OwnSnapshot
  <2> QED BY Zenon, <2>5, <2>6, <2>7, <2>8, TaskAlone
<1>9. ASSUME Flush(t) PROVE OnlyTask(t) /\ SnapshotInvariant'
  <2>1. pc' = [pc EXCEPT ![t] = "flush_clear"] /\ UNCHANGED <<ctx, snap, after>>
    BY Zenon, <1>9 DEF Flush, Goto, locals
  <2>2. pc'[t] = "flush_clear" /\ \A b \in Actors : b # t => pc'[b] = pc[b]
    BY Zenon, <1>0, <2>1 DEF TypeOK
  <2>3. OnlyTask(t)
    BY Zenon, <2>1, <2>2 DEF OnlyTask
  <2>4. pc'[t] \notin {"snapshot", "get_current", "begin"}
    BY Zenon, <2>2
  <2> QED BY Zenon, <2>1, <2>3, <2>4, TaskMoves
<1> QED BY Zenon, <1>3, <1>4, <1>5, <1>6, <1>7, <1>8, <1>9 DEF Start

\* insert_or_get_current creates a load.
Creates(t) == InsertOrGetCurrent(t) /\ ~CanJoin(t, inflight[ctx[t].key])

\* The other steps of a task.
LEMMA TaskSnapshots ==
    ASSUME TypeOK, TypeOK', VersionInvariant, SnapshotInvariant, NEW t \in Tasks,
           TaskStep(t), ~Creates(t)
    PROVE  OnlyTask(t) /\ SnapshotInvariant'
<1>0. t \in Actors /\ t \notin Loads /\ ctx[t].key \in Keys /\ ctx[t].tags \in SUBSET Tags
  BY Zenon, TasksAreNotLoads DEF TypeOK, Actors
<1>1. ASSUME EndCall(t) PROVE OnlyTask(t) /\ SnapshotInvariant'
  BY Zenon, <1>1, EndCallSnapshots
<1>2. ASSUME NEW point, Goto(t, point), UNCHANGED <<snap, after>>,
             ctx' = ctx \/ \E T : ctx' = [ctx EXCEPT ![t].old = T],
             \/ point \notin {"snapshot", "get_current", "begin"}
             \/ pc[t] = "get_current" /\ point = "begin"
      PROVE  OnlyTask(t) /\ SnapshotInvariant'
  <2>1. pc'[t] = point /\ \A b \in Actors : b # t => pc'[b] = pc[b]
    BY Zenon, <1>0, <1>2 DEF Goto, TypeOK
  <2>2. \A b \in Actors : b # t => ctx'[b] = ctx[b]
    BY Zenon, <1>2 DEF TypeOK
  <2>3. ctx'[t].key = ctx[t].key /\ ctx'[t].tags = ctx[t].tags
    BY <1>0, <1>2 DEF TypeOK
  <2>4. OnlyTask(t)
    BY Zenon, <1>2, <2>1, <2>2 DEF OnlyTask
  <2>5. /\ pc'[t] \in {"snapshot", "get_current", "begin"} =>
             pc[t] \in {"snapshot", "get_current", "begin"}
        /\ pc'[t] \in {"get_current", "begin"} => pc[t] \in {"get_current", "begin"}
    BY Zenon, <1>2, <2>1
  <2> QED BY Zenon, <1>2, <2>3, <2>4, <2>5, TaskMoves

<1>3. CASE WriteGetOld(t)
  <2>1. (IF Present(ctx[t].key) THEN "unregister" ELSE "insert")
           \notin {"snapshot", "get_current", "begin"}
    BY Zenon
  <2> QED BY Zenon, <1>2, <1>3, <2>1 DEF WriteGetOld
<1>4. CASE WriteUnregister(t) \/ WriteInsert(t) \/ RemoveStore(t)
  <2>1. \E point \in {"insert", "register", "remove_unregister"} : Goto(t, point)
    BY Zenon, <1>4 DEF WriteUnregister, WriteInsert, RemoveStore
  <2>2. UNCHANGED <<snap, after, ctx>>
    BY Zenon, <1>4 DEF WriteUnregister, WriteInsert, RemoveStore, locals
  <2>3. \A point \in {"insert", "register", "remove_unregister"} :
            point \notin {"snapshot", "get_current", "begin"}
    BY Zenon
  <2> QED BY Zenon, <1>2, <2>1, <2>2, <2>3
<1>5. CASE WriteRegister(t)
  BY Zenon, <1>0, <1>1, <1>5 DEF WriteRegister
<1>6. CASE SnapshotGeneration(t)
  <2> DEFINE s == TakeSnapshot(index, ctx[t].key, ctx[t].tags)
  <2>1. /\ pc' = [pc EXCEPT ![t] = "get_current"] /\ pc[t] = "snapshot"
        /\ snap' = [snap EXCEPT ![t] = s] /\ UNCHANGED <<ctx, after>>
    BY Zenon, <1>6 DEF SnapshotGeneration, Goto
  <2>2. s.key = ctx[t].key /\ s.tags = ctx[t].tags
    BY Zenon DEF TakeSnapshot
  <2>3. \A g \in Tags : g \notin s.tags => s.generations[g] = 0
    BY Zenon, <2>2 DEF TakeSnapshot
  <2> HIDE DEF s
  <2>4. pc'[t] = "get_current" /\ \A b \in Actors : b # t => pc'[b] = pc[b]
    BY Zenon, <1>0, <2>1 DEF TypeOK
  <2>5. snap'[t] = s /\ \A b \in Actors : b # t => snap'[b] = snap[b]
    BY Zenon, <1>0, <2>1 DEF TypeOK
  <2>6. OnlyTask(t)
    BY Zenon, <2>1, <2>4, <2>5 DEF OnlyTask
  <2>7. Trimmed(snap[t])'
    BY Zenon, <2>3, <2>5 DEF Trimmed
  <2>8. ToLoad(t)
    BY Zenon, <2>1 DEF ToLoad
  <2>9. Chosen(t)
    BY Zenon, <2>8 DEF SnapshotInvariant
  <2>10. Chosen(t)' /\ OwnSnapshot(t)'
    BY Zenon, <2>1, <2>2, <2>5, <2>9 DEF Chosen, OwnSnapshot
  <2> QED BY Zenon, <2>6, <2>7, <2>10, TaskAlone
<1>7. ASSUME NEW l, Join(t, l) PROVE OnlyTask(t) /\ SnapshotInvariant'
  <2>1. "wait" \notin {"snapshot", "get_current", "begin"}
    BY Zenon
  <2> QED BY Zenon, <1>2, <1>7, <2>1 DEF Join
<1>8. CASE GetCurrent(t)
  BY Zenon, <1>2, <1>7, <1>8 DEF GetCurrent, locals
<1>9. CASE InsertOrGetCurrent(t)
  BY Zenon, <1>7, <1>9 DEF InsertOrGetCurrent, Creates
<1>10. CASE AwaitLoad(t)
  BY Zenon, <1>1, <1>10, TaskResumes DEF AwaitLoad
<1>11. CASE NextKey(t)
  <2>1. CASE EndCall(t)
    BY Zenon, <1>1, <2>1
  <2>2. ASSUME NEW k \in todo[t], ctx' = [ctx EXCEPT ![t].key = k],
               after' = [after EXCEPT ![t] = <<"next_key">>],
               Goto(t, "remove_get"), snap' = snap
        PROVE  OnlyTask(t) /\ SnapshotInvariant'
    <3>1. pc'[t] = "remove_get" /\ \A b \in Actors : b # t => pc'[b] = pc[b]
      BY Zenon, <1>0, <2>2 DEF Goto, TypeOK
    <3>2. \A b \in Actors : b # t => ctx'[b] = ctx[b]
      BY Zenon, <2>2 DEF TypeOK
    <3>3. after'[t] = <<"next_key">> /\ \A u \in Tasks : u # t => after'[u] = after[u]
      BY Zenon, <2>2 DEF TypeOK
    <3>4. OnlyTask(t)
      BY Zenon, <2>2, <3>1, <3>2, <3>3 DEF OnlyTask
    <3>5. ~ToLoad(t)' /\ OwnSnapshot(t)'
      <4>1. \A i \in DOMAIN <<"next_key">> : <<"next_key">>[i] # "snapshot"
        OBVIOUS
      <4>2. "remove_get" \notin {"snapshot", "get_current", "begin"}
        BY Zenon
      <4> QED BY Zenon, <3>1, <3>3, <4>1, <4>2 DEF ToLoad, OwnSnapshot
    <3>6. Trimmed(snap[t])'
      BY Zenon, <1>0, <2>2 DEF SnapshotInvariant, Trimmed
    <3> QED BY Zenon, <3>4, <3>5, <3>6, TaskAlone
  <2> QED BY Zenon, <1>11, <2>1, <2>2 DEF NextKey
<1>12. ASSUME Continue(t) PROVE OnlyTask(t) /\ SnapshotInvariant'
  BY Zenon, <1>1, <1>12, TaskResumes DEF Continue
<1>13. CASE RemoveGet(t)
  <2>1. "remove_store" \notin {"snapshot", "get_current", "begin"}
    BY Zenon
  <2> QED BY Zenon, <1>2, <1>12, <1>13, <2>1 DEF RemoveGet
<1>14. CASE RemoveUnregister(t)
  BY Zenon, <1>12, <1>14 DEF RemoveUnregister
<1>15. CASE FlushClear(t)
  BY Zenon, <1>1, <1>15 DEF FlushClear
<1> QED BY Zenon, <1>3, <1>4, <1>5, <1>6, <1>8, <1>9, <1>10, <1>11, <1>13, <1>14, <1>15
        DEF TaskStep, Write


\* A load that is created has the key, the tags and the snapshot of its creator.
LEMMA CreateSnapshots ==
    ASSUME TypeOK, TypeOK', SnapshotInvariant, NEW t \in Tasks, Creates(t)
    PROVE  SnapshotInvariant'
<1>1. /\ nextLoad \in Loads
      /\ pc' = [pc EXCEPT ![t] = "wait", ![nextLoad] = "loading"]
      /\ ctx' = [ctx EXCEPT ![nextLoad] = [ctx[t] EXCEPT !.old = {}]]
      /\ snap' = [snap EXCEPT ![nextLoad] = snap[t]]
      /\ after' = after
  BY Zenon, NewLoad DEF Creates
<1>2. t \in Actors /\ nextLoad \in Actors /\ nextLoad \notin Tasks /\ t # nextLoad
  BY Zenon, <1>1, TasksAreNotLoads DEF Actors
<1>3. pc[t] = "begin"
  BY Zenon DEF Creates, InsertOrGetCurrent
<1>4. ToLoad(t)
  BY Zenon, <1>3 DEF ToLoad
<1>5. pc[t] \in {"get_current", "begin"}
  BY Zenon, <1>3
<1>6. Chosen(t) /\ snap[t].key = ctx[t].key /\ snap[t].tags = ctx[t].tags
  BY Zenon, <1>4, <1>5 DEF SnapshotInvariant, OwnSnapshot
<1>7. \A b \in Actors : b # nextLoad => snap'[b] = snap[b] /\ ctx'[b] = ctx[b]
  BY Zenon, <1>1 DEF TypeOK
<1>8. snap'[nextLoad] = snap[t]
  BY Zenon, <1>1, <1>2 DEF TypeOK
<1>9. ctx'[nextLoad].key = ctx[t].key
  BY <1>1, <1>2 DEF TypeOK
<1>10. \A b \in Actors : b # t /\ b # nextLoad => pc'[b] = pc[b]
  BY Zenon, <1>1, <1>2 DEF TypeOK
<1>11. pc'[t] = "wait"
  BY Zenon, <1>1, <1>2 DEF TypeOK
<1>12. ASSUME NEW a \in Actors PROVE Trimmed(snap[a])'
  <2>1. PICK b \in Actors : snap'[a] = snap[b]
    BY Zenon, <1>2, <1>7, <1>8
  <2>2. Trimmed(snap[b])
    BY Zenon DEF SnapshotInvariant
  <2> QED BY Zenon, <2>1, <2>2 DEF Trimmed
<1>13. ASSUME NEW u \in Tasks PROVE (ToLoad(u)' => Chosen(u)') /\ OwnSnapshot(u)'
  <2>1. ctx'[u] = ctx[u] /\ snap'[u] = snap[u] /\ after'[u] = after[u]
    BY Zenon, <1>1, <1>2, <1>7 DEF Actors
  <2>2. (ToLoad(u) => Chosen(u)) /\ OwnSnapshot(u)
    BY Zenon DEF SnapshotInvariant
  <2>3. CASE u = t
    BY Zenon, <1>6, <1>11, <2>1, <2>3 DEF Chosen, OwnSnapshot
  <2>4. CASE u # t
    <3>1. pc'[u] = pc[u]
      BY Zenon, <1>2, <1>10, <2>4 DEF Actors
    <3> QED BY Zenon, <2>1, <2>2, <3>1 DEF ToLoad, Chosen, OwnSnapshot
  <2> QED BY Zenon, <2>3, <2>4
<1>14. ASSUME NEW l \in Loads PROVE LoadSnapshot(l)'
  <2>1. CASE l = nextLoad
    BY Zenon, <1>6, <1>8, <1>9, <2>1 DEF LoadSnapshot, Chosen
  <2>2. CASE l # nextLoad
    <3>1. pc'[l] = pc[l] /\ ctx'[l] = ctx[l] /\ snap'[l] = snap[l]
      BY Zenon, <1>7, <1>10, <2>2, TasksAreNotLoads DEF Actors
    <3>2. LoadSnapshot(l)
      BY Zenon DEF SnapshotInvariant
    <3> QED BY Zenon, <3>1, <3>2 DEF LoadSnapshot
  <2> QED BY Zenon, <2>1, <2>2
<1> QED BY Zenon, <1>12, <1>13, <1>14 DEF SnapshotInvariant

\* A step of load l alone: it moves on with its key and its snapshot.
OnlyLoad(l) ==
    /\ pc[l] \notin {"free", "done", "failed"} /\ pc'[l] # "free"
    /\ ctx'[l].key = ctx[l].key
    /\ \A b \in Actors : b # l => pc'[b] = pc[b] /\ ctx'[b] = ctx[b]
    /\ UNCHANGED <<snap, after, joined>>

LEMMA LoadAlone ==
    ASSUME TypeOK, SnapshotInvariant, NEW l \in Loads, OnlyLoad(l)
    PROVE  SnapshotInvariant'
<1>1. ASSUME NEW a \in Actors PROVE Trimmed(snap[a])'
  BY Zenon DEF SnapshotInvariant, OnlyLoad, Trimmed
<1>2. ASSUME NEW u \in Tasks PROVE (ToLoad(u)' => Chosen(u)') /\ OwnSnapshot(u)'
  <2>1. /\ pc'[u] = pc[u] /\ ctx'[u] = ctx[u] /\ snap'[u] = snap[u]
        /\ after'[u] = after[u]
    BY Zenon, TasksAreNotLoads DEF OnlyLoad, Actors
  <2>2. (ToLoad(u) => Chosen(u)) /\ OwnSnapshot(u)
    BY Zenon DEF SnapshotInvariant
  <2> QED BY Zenon, <2>1, <2>2 DEF ToLoad, Chosen, OwnSnapshot
<1>3. ASSUME NEW m \in Loads PROVE LoadSnapshot(m)'
  <2>1. LoadSnapshot(m)
    BY Zenon DEF SnapshotInvariant
  <2>2. CASE m = l
    <3>1. pc[l] # "free"
      BY Zenon DEF OnlyLoad
    <3> QED BY Zenon, <2>1, <2>2, <3>1 DEF LoadSnapshot, OnlyLoad
  <2>3. CASE m # l
    BY Zenon, <2>1, <2>3 DEF LoadSnapshot, OnlyLoad, Actors
  <2> QED BY Zenon, <2>2, <2>3
<1> QED BY Zenon, <1>1, <1>2, <1>3 DEF SnapshotInvariant

\* Every step of a load is one of that load alone.
LEMMA LoadStepAlone ==
    ASSUME TypeOK, NEW l \in Loads, LoadStep(l)
    PROVE  OnlyLoad(l)
<1>0. l \in Actors /\ l \notin Tasks
  BY Zenon, TasksAreNotLoads DEF Actors
<1>1. ASSUME NEW point, Goto(l, point), point # "free",
             pc[l] \notin {"free", "done", "failed"}, UNCHANGED <<snap, after, joined>>,
             \/ ctx' = ctx
             \/ \E T : ctx' = [ctx EXCEPT ![l].old = T]
             \/ \E v : ctx' = [ctx EXCEPT ![l].version = v]
      PROVE  OnlyLoad(l)
  <2>1. pc'[l] = point /\ \A b \in Actors : b # l => pc'[b] = pc[b]
    BY Zenon, <1>0, <1>1 DEF Goto, TypeOK
  <2>2. \A b \in Actors : b # l => ctx'[b] = ctx[b]
    BY Zenon, <1>1 DEF TypeOK
  <2>3. ctx'[l].key = ctx[l].key
    BY <1>0, <1>1 DEF TypeOK
  <2> QED BY Zenon, <1>1, <2>1, <2>2, <2>3 DEF OnlyLoad
<1>2. pc[l] \notin {"free", "done", "failed"}
  BY Zenon DEF LoadStep, LoaderReturns, CheckFresh, SkipOversize, FinishLoad, Write,
         WriteGetOld, WriteUnregister, WriteInsert, WriteRegister
<1>3. \E point \in {"check", "finish_err", "get_old", "finish", "done", "failed",
                    "unregister", "insert", "register"} : Goto(l, point)
  BY Zenon, <1>0
     DEF LoadStep, LoaderReturns, CheckFresh, SkipOversize, FinishLoad, Write,
         WriteGetOld, WriteUnregister, WriteInsert, WriteRegister
<1>4. UNCHANGED <<snap, after, joined>>
  BY Zenon, <1>0
     DEF LoadStep, LoaderReturns, CheckFresh, SkipOversize, FinishLoad, Write,
         WriteGetOld, WriteUnregister, WriteInsert, WriteRegister, locals
<1>5. \/ ctx' = ctx
      \/ \E T : ctx' = [ctx EXCEPT ![l].old = T]
      \/ \E v : ctx' = [ctx EXCEPT ![l].version = v]
  BY Zenon, <1>0
     DEF LoadStep, LoaderReturns, CheckFresh, SkipOversize, FinishLoad, Write,
         WriteGetOld, WriteUnregister, WriteInsert, WriteRegister, locals
<1>6. \A point \in {"check", "finish_err", "get_old", "finish", "done", "failed",
                    "unregister", "insert", "register"} : point # "free"
  BY Zenon
<1> QED BY Zenon, <1>1, <1>2, <1>3, <1>4, <1>5, <1>6


\* A step that creates no load: no load starts again, none finds a first waiter.
Calm ==
    \A l \in Loads :
        /\ pc[l] # "free" => pc'[l] # "free" /\ snap'[l] = snap[l]
        /\ ctx'[l].key = ctx[l].key
        /\ Live(l)' => Live(l)

\* A key that a load was disturbed on stays disturbed.
LEMMA DisturbedStays ==
    ASSUME TypeOK, TypeOK', FenceInvariant, [Next]_vars, NEW k \in Keys,
           \A l \in Loads : pc[l] # "free" => pc'[l] # "free" /\ snap'[l] = snap[l],
           Undisturbed(k)'
    PROVE  Undisturbed(k)
<1>1. index \in Indexes /\ index' \in Indexes
  BY Zenon DEF TypeOK
<1>2. ASSUME NEW l \in Loads, pc[l] # "free", snap[l].key = k, ~IsCurrent(index, snap[l])
      PROVE  FALSE
  <2> PICK s : s = snap[l]
    BY Zenon
  <2>1. s \in Snapshots /\ NotAhead(index, s)
    BY Zenon DEF TypeOK, FenceInvariant, Actors
  <2>2. Behind(index, s)
    BY Zenon, <1>1, <1>2, <2>1, StaleIsBehind
  <2>3. Behind(index', s)
    BY Zenon, <2>1, <2>2, BehindStays
  <2>4. ~IsCurrent(index', s)
    BY Zenon, <1>1, <2>1, <2>3, BehindNotCurrent
  <2>5. pc'[l] # "free" /\ snap'[l] = s
    BY Zenon, <1>2
  <2>6. IsCurrent(index', s)
    BY Zenon, <1>2, <2>5 DEF Undisturbed, IsCurrent
  <2> QED BY Zenon, <2>4, <2>6
<1> QED BY Zenon, <1>2 DEF Undisturbed

\* A calm step keeps the live loads in the map if the map does.
LEMMA FlightKept ==
    ASSUME TypeOK, TypeOK', FenceInvariant, FlightInvariant, [Next]_vars, Calm,
           \A l \in Loads :
              /\ Live(l) /\ Live(l)' /\ Undisturbed(ctx[l].key)
              /\ inflight[ctx[l].key] = l
              => inflight'[ctx[l].key] = l
    PROVE  FlightInvariant'
<1> SUFFICES ASSUME NEW l \in Loads, Live(l)', Undisturbed(ctx[l].key)'
             PROVE  inflight'[ctx'[l].key] = l
  BY Zenon DEF FlightInvariant
<1> PICK k : k = ctx[l].key
  BY Zenon
<1>1. k \in Keys /\ ctx'[l].key = k /\ Live(l)
  BY Zenon DEF TypeOK, Calm, Actors
<1>2. Undisturbed(k)'
  BY Zenon, <1>1 DEF Undisturbed
<1>3. Undisturbed(k)
  BY Zenon, <1>1, <1>2, DisturbedStays DEF Calm
<1>4. inflight[k] = l
  BY Zenon, <1>1, <1>3 DEF FlightInvariant
<1> QED BY Zenon, <1>1, <1>3, <1>4

\* A step of a task that creates no load is calm.
LEMMA TaskCalm ==
    ASSUME TypeOK, NEW t \in Tasks, OnlyTask(t),
           \/ joined' = joined
           \/ joined' = [joined EXCEPT ![t] = NoLoad]
           \/ \E l \in Loads : Waiters(l) # {} /\ joined' = [joined EXCEPT ![t] = l]
    PROVE  Calm
<1>1. ASSUME NEW l \in Loads PROVE pc'[l] = pc[l] /\ ctx'[l] = ctx[l] /\ snap'[l] = snap[l]
  BY Zenon, TasksAreNotLoads DEF OnlyTask, Actors
<1>2. ASSUME NEW l \in Loads, Waiters(l)' # {} PROVE Waiters(l) # {}
  <2>1. PICK u \in Tasks : joined'[u] = l
    BY Zenon, <1>2 DEF Waiters
  <2>2. l # NoLoad
    BY Zenon, TasksAreNotLoads
  <2>3. CASE joined'[u] = joined[u]
    BY Zenon, <2>1, <2>3 DEF Waiters
  <2>4. CASE joined'[u] # joined[u]
    <3>1. u = t
      BY Zenon, <2>4 DEF TypeOK
    <3>2. ~(joined' = [joined EXCEPT ![t] = NoLoad])
      BY Zenon, <2>1, <2>2, <3>1 DEF TypeOK
    <3>3. PICK m \in Loads : Waiters(m) # {} /\ joined' = [joined EXCEPT ![t] = m]
      BY Zenon, <2>4, <3>2
    <3>4. m = l
      BY Zenon, <2>1, <3>1, <3>3 DEF TypeOK
    <3> QED BY Zenon, <3>3, <3>4
  <2> QED BY Zenon, <2>3, <2>4
<1>3. ASSUME NEW l \in Loads, Live(l)' PROVE Live(l)
  <2>1. Waiters(l)' # {} /\ pc'[l] \notin {"free", "done", "failed"}
    BY Zenon, <1>3 DEF Live
  <2> QED BY Zenon, <1>1, <1>2, <2>1 DEF Live
<1> QED BY Zenon, <1>1, <1>3 DEF Calm

\* A step of a load is calm.
LEMMA LoadCalm ==
    ASSUME TypeOK, NEW l \in Loads, OnlyLoad(l)
    PROVE  Calm
<1>1. ASSUME NEW m \in Loads
      PROVE  /\ pc[m] # "free" => pc'[m] # "free" /\ snap'[m] = snap[m]
             /\ ctx'[m].key = ctx[m].key
             /\ pc'[m] \notin {"free", "done", "failed"} =>
                  pc[m] \notin {"free", "done", "failed"}
  <2>1. CASE m = l
    BY Zenon, <2>1 DEF OnlyLoad
  <2>2. CASE m # l
    BY Zenon, <2>2 DEF OnlyLoad, Actors
  <2> QED BY Zenon, <2>1, <2>2
<1>2. ASSUME NEW m \in Loads, Live(m)' PROVE Live(m)
  <2>1. Waiters(m)' # {} /\ pc'[m] \notin {"free", "done", "failed"}
    BY Zenon, <1>2 DEF Live
  <2>2. Waiters(m) # {}
    BY Zenon, <2>1 DEF Waiters, OnlyLoad
  <2> QED BY Zenon, <1>1, <2>1, <2>2 DEF Live
<1> QED BY Zenon, <1>1, <1>2 DEF Calm

\* A load is created only where no live load of an undisturbed key could be joined.
LEMMA CreateFlight ==
    ASSUME TypeOK, TypeOK', Bookkeeping, FenceInvariant, SnapshotInvariant,
           FlightInvariant, [Next]_vars, NEW t \in Tasks, Creates(t)
    PROVE  FlightInvariant'
<1> PICK n : n = nextLoad
  BY Zenon
<1> PICK k0 : k0 = ctx[t].key
  BY Zenon
<1>1. /\ n \in Loads
      /\ pc' = [pc EXCEPT ![t] = "wait", ![n] = "loading"]
      /\ ctx' = [ctx EXCEPT ![n] = [ctx[t] EXCEPT !.old = {}]]
      /\ snap' = [snap EXCEPT ![n] = snap[t]]
      /\ joined' = [joined EXCEPT ![t] = n]
      /\ inflight' = [inflight EXCEPT ![k0] = n] /\ index' = index
  BY Zenon, NewLoad DEF Creates
<1>2. t \in Actors /\ n \in Actors /\ k0 \in Keys /\ t \notin Loads
  BY Zenon, <1>1, TasksAreNotLoads DEF Actors, TypeOK
<1>3. pc[n] = "free"
  <2>1. n \in Nat /\ n >= nextLoad
    BY <1>1 DEF Loads
  <2> QED BY Zenon, <1>1, <2>1 DEF Bookkeeping
<1>4. \A l \in Loads : l # n => snap'[l] = snap[l] /\ ctx'[l] = ctx[l]
  BY Zenon, <1>1 DEF TypeOK, Actors
<1>5. \A l \in Loads : l # n => pc'[l] = pc[l]
  BY Zenon, <1>1, <1>2 DEF TypeOK, Actors
<1>6. snap'[n] = snap[t]
  BY Zenon, <1>1, <1>2 DEF TypeOK
<1>7. pc'[n] = "loading" /\ ctx'[n].key = k0
  BY <1>1, <1>2 DEF TypeOK
<1>8. inflight'[k0] = n /\ \A k \in Keys : k # k0 => inflight'[k] = inflight[k]
  BY Zenon, <1>1, <1>2 DEF TypeOK
<1>9. \A l \in Loads : l # n /\ Waiters(l)' # {} => Waiters(l) # {}
  <2> SUFFICES ASSUME NEW l \in Loads, l # n, NEW u \in Tasks, joined'[u] = l
               PROVE  joined[u] = l
    BY Zenon DEF Waiters
  <2>1. joined'[t] = n
    BY <1>1 DEF TypeOK
  <2>2. u # t
    BY Zenon, <2>1
  <2> QED BY <1>1, <2>2 DEF TypeOK
<1>10. \A l \in Loads : pc[l] # "free" => pc'[l] # "free" /\ snap'[l] = snap[l]
  BY Zenon, <1>3, <1>4, <1>5
<1>11. ~CanJoin(t, inflight[k0]) /\ pc[t] = "begin"
  BY Zenon DEF Creates, InsertOrGetCurrent
<1>12. ToLoad(t) /\ pc[t] \in {"get_current", "begin"}
  BY Zenon, <1>11 DEF ToLoad
<1>13. /\ snap[t].tags \in TagChoices[k0] /\ snap[t].key = k0
       /\ snap[t] \in Snapshots /\ Trimmed(snap[t])
  BY Zenon, <1>2, <1>12 DEF SnapshotInvariant, OwnSnapshot, Chosen, TypeOK
<1> SUFFICES ASSUME NEW l \in Loads, Live(l)', Undisturbed(ctx[l].key)', l # n
             PROVE  inflight'[ctx'[l].key] = l
  <2>1. inflight'[ctx'[n].key] = n
    BY Zenon, <1>7, <1>8
  <2> QED BY Zenon, <2>1 DEF FlightInvariant
<1> PICK k : k = ctx[l].key
  BY Zenon
<1>14. /\ k \in Keys /\ ctx'[l].key = k /\ Waiters(l) # {}
       /\ pc[l] \notin {"free", "done", "failed"}
  BY Zenon, <1>4, <1>5, <1>9 DEF TypeOK, Actors, Live
<1>15. Undisturbed(k)'
  BY Zenon, <1>14 DEF Undisturbed
<1>16. Undisturbed(k) /\ Live(l)
  BY Zenon, <1>10, <1>14, <1>15, DisturbedStays DEF Live
<1>17. inflight[k] = l
  BY Zenon, <1>16 DEF FlightInvariant
<1>18. CASE k # k0
  BY Zenon, <1>8, <1>14, <1>17, <1>18
<1>19. CASE k = k0
  <2>1. pc[l] # "free"
    BY Zenon, <1>14
  <2>2. /\ snap[l].key = k /\ snap[l].tags \in TagChoices[k]
        /\ snap[l] \in Snapshots /\ Trimmed(snap[l])
    BY Zenon, <2>1 DEF SnapshotInvariant, LoadSnapshot, TypeOK, Actors
  <2>3. IsCurrent(index, snap[l])
    BY Zenon, <1>16, <2>1, <2>2 DEF Undisturbed
  <2>4. pc'[n] # "free" /\ snap'[n].key = k
    BY Zenon, <1>6, <1>7, <1>13, <1>19
  <2>5. IsCurrent(index', snap'[n])
    BY Zenon, <1>1, <1>15, <2>4 DEF Undisturbed
  <2>6. IsCurrent(index, snap[t])
    BY Zenon, <1>1, <1>6, <2>5
  <2>7. snap[l].tags = snap[t].tags
    BY Zenon, <1>13, <1>16, <1>19, <2>2 DEF Undisturbed
  <2>8. index \in Indexes
    BY Zenon DEF TypeOK
  <2>9. snap[l] = TakeSnapshot(index, snap[l].key, snap[l].tags)
    BY Zenon, <2>2, <2>3, <2>8, CurrentIsTaken
  <2>10. snap[t] = TakeSnapshot(index, snap[t].key, snap[t].tags)
    BY Zenon, <1>13, <2>6, <2>8, CurrentIsTaken
  <2>11. snap[l] = snap[t]
    BY Zenon, <1>13, <1>19, <2>2, <2>7, <2>9, <2>10
  <2>12. CanJoin(t, l)
    BY Zenon, <1>14, <2>11, TasksAreNotLoads DEF CanJoin
  <2> QED BY Zenon, <1>11, <1>17, <1>19, <2>12
<1> QED BY Zenon, <1>18, <1>19

\* The load that ends is the one in the map, if its key is undisturbed.
LEMMA FinishFlight ==
    ASSUME TypeOK, TypeOK', FenceInvariant, FlightInvariant, [Next]_vars,
           NEW m \in Loads, FinishLoad(m)
    PROVE  FlightInvariant'
<1>1. OnlyLoad(m)
  BY Zenon, LoadStepAlone DEF LoadStep
<1>2. Calm
  BY Zenon, <1>1, LoadCalm
<1>3. Live(m) /\ ~Live(m)'
  <2>1. pc[m] \in {"finish", "finish_err"} /\ Waiters(m) # {}
    BY Zenon DEF FinishLoad, Runnable
  <2>2. Goto(m, "done") \/ Goto(m, "failed")
    BY Zenon DEF FinishLoad
  <2>3. pc'[m] \in {"done", "failed"}
    BY Zenon, <2>2 DEF Goto, TypeOK, Actors
  <2> QED BY Zenon, <2>1, <2>3 DEF Live
<1>4. ASSUME NEW l \in Loads, Live(l)', Undisturbed(ctx[l].key), inflight[ctx[l].key] = l
      PROVE  inflight'[ctx[l].key] = l
  <2>1. ctx[l].key # ctx[m].key
    BY Zenon, <1>3, <1>4 DEF FlightInvariant
  <2>2. \/ inflight' = inflight
        \/ inflight' = [inflight EXCEPT ![ctx[m].key] = NoLoad]
    BY Zenon DEF FinishLoad
  <2>3. ctx[l].key \in Keys
    BY Zenon DEF TypeOK, Actors
  <2> QED BY Zenon, <1>4, <2>1, <2>2, <2>3 DEF TypeOK
<1> QED BY Zenon, <1>2, <1>4, FlightKept


\* Every other step of a task leaves the map alone, and joins the task only to a
\* load that a caller still drives.
LEMMA TaskMap ==
    ASSUME TypeOK, NEW t \in Tasks, Start(t) \/ (TaskStep(t) /\ ~Creates(t))
    PROVE  /\ inflight' = inflight
           /\ \/ joined' = joined
              \/ joined' = [joined EXCEPT ![t] = NoLoad]
              \/ \E l \in Loads : Waiters(l) # {} /\ joined' = [joined EXCEPT ![t] = l]
<1> DEFINE Goal == /\ inflight' = inflight
                   /\ \/ joined' = joined
                      \/ joined' = [joined EXCEPT ![t] = NoLoad]
                      \/ \E l \in Loads : /\ Waiters(l) # {}
                                          /\ joined' = [joined EXCEPT ![t] = l]
<1>1. CASE Start(t)
  <2>1. inflight' = inflight /\ joined' = joined
    BY Zenon, <1>1 DEF Start, Get, vars, ReadExpired, InvalidateKey, Put, GetOrLoad,
                       GetOrLoadExpired, BackgroundRefresh, InvalidateTag, Flush,
                       Begin, locals
  <2> QED BY Zenon, <2>1
<1>2. CASE TaskStep(t) /\ ~Creates(t)
  <2>0. inflight[ctx[t].key] \in Loads \cup {NoLoad}
    BY Zenon DEF TypeOK, Actors
  <2>1. ASSUME CanJoin(t, inflight[ctx[t].key]), Join(t, inflight[ctx[t].key])
        PROVE  Goal
    BY Zenon, <2>0, <2>1 DEF CanJoin, Join
  <2>2. CASE Write(t) \/ SnapshotGeneration(t)
    BY Zenon, <2>2 DEF Write, WriteGetOld, WriteUnregister, WriteInsert, WriteRegister,
                       SnapshotGeneration, EndCall, locals
  <2>3. CASE GetCurrent(t)
    BY Zenon, <2>1, <2>3 DEF GetCurrent, locals
  <2>4. CASE InsertOrGetCurrent(t)
    BY Zenon, <1>2, <2>1, <2>4 DEF InsertOrGetCurrent, Creates
  <2>5. CASE AwaitLoad(t) \/ NextKey(t)
    BY Zenon, <2>5 DEF AwaitLoad, NextKey, EndCall
  <2>6. CASE RemoveGet(t) \/ RemoveStore(t) \/ RemoveUnregister(t) \/ FlushClear(t)
    BY Zenon, <2>6 DEF RemoveGet, RemoveStore, RemoveUnregister, FlushClear,
                       Continue, EndCall, locals
  <2> QED BY Zenon, <1>2, <2>2, <2>3, <2>4, <2>5, <2>6 DEF TaskStep
<1> QED BY Zenon, <1>1, <1>2

\* A load with callers is not removed from the map by a pending clean-up.
LEMMA IdleFlight ==
    ASSUME TypeOK, TypeOK', FenceInvariant, FlightInvariant, [Next]_vars,
           NEW m \in Loads, RemoveIfIdle(m)
    PROVE  FlightInvariant'
<1>1. UNCHANGED <<pc, ctx, snap, joined>>
  BY Zenon DEF RemoveIfIdle
<1>2. Calm
  BY Zenon, <1>1 DEF Calm, Live, Waiters
<1>3. ASSUME NEW l \in Loads, Live(l), inflight[ctx[l].key] = l
      PROVE  inflight'[ctx[l].key] = l
  <2> PICK k : k = ctx[m].key
    BY Zenon
  <2>1. \/ inflight' = inflight
        \/ Waiters(inflight[k]) = {} /\ inflight' = [inflight EXCEPT ![k] = NoLoad]
    BY Zenon DEF RemoveIfIdle
  <2>2. CASE inflight' = inflight
    BY Zenon, <1>3, <2>2
  <2>3. CASE Waiters(inflight[k]) = {} /\ inflight' = [inflight EXCEPT ![k] = NoLoad]
    <3>1. ctx[l].key # k
      BY Zenon, <1>3, <2>3 DEF Live
    <3>2. ctx[l].key \in Keys
      BY Zenon DEF TypeOK, Actors
    <3> QED BY Zenon, <1>3, <2>3, <3>1, <3>2 DEF TypeOK
  <2> QED BY Zenon, <2>1, <2>2, <2>3
<1> QED BY Zenon, <1>2, <1>3, FlightKept

\* Every step keeps the snapshots in order and the live loads in the map.
LEMMA FlightStep ==
    ASSUME TypeOK, TypeOK', Bookkeeping, FenceInvariant, VersionInvariant,
           SnapshotInvariant, FlightInvariant, [Next]_vars
    PROVE  SnapshotInvariant' /\ FlightInvariant'
<1>1. ASSUME UNCHANGED <<pc, ctx, snap, after, joined, inflight>>
      PROVE  SnapshotInvariant' /\ FlightInvariant'
  <2>1. Calm
    BY Zenon, <1>1 DEF Calm, Live, Waiters
  <2>2. FlightInvariant'
    BY Zenon, <1>1, <2>1, FlightKept
  <2>3. SnapshotInvariant'
    BY Zenon, <1>1 DEF SnapshotInvariant, Trimmed, ToLoad, Chosen, OwnSnapshot,
                       LoadSnapshot
  <2> QED BY Zenon, <2>2, <2>3
<1>2. ASSUME NEW t \in Tasks, Start(t) \/ (TaskStep(t) /\ ~Creates(t))
      PROVE  SnapshotInvariant' /\ FlightInvariant'
  <2>1. OnlyTask(t) /\ SnapshotInvariant'
    BY Zenon, <1>2, StartSnapshots, TaskSnapshots
  <2>2. Calm /\ inflight' = inflight
    BY Zenon, <1>2, <2>1, TaskMap, TaskCalm
  <2>3. FlightInvariant'
    BY Zenon, <2>2, FlightKept
  <2> QED BY Zenon, <2>1, <2>3
<1>3. ASSUME NEW t \in Tasks, Creates(t) PROVE SnapshotInvariant' /\ FlightInvariant'
  BY Zenon, <1>3, CreateSnapshots, CreateFlight
<1>4. ASSUME NEW t \in Tasks, Cancel(t) PROVE SnapshotInvariant' /\ FlightInvariant'
  <2>1. EndCall(t) /\ inflight' = inflight
    BY Zenon, <1>4 DEF Cancel
  <2>2. OnlyTask(t) /\ SnapshotInvariant'
    BY Zenon, <2>1, EndCallSnapshots
  <2>3. joined' = [joined EXCEPT ![t] = NoLoad]
    BY Zenon, <2>1 DEF EndCall
  <2>4. Calm
    BY Zenon, <2>2, <2>3, TaskCalm
  <2>5. FlightInvariant'
    BY Zenon, <2>1, <2>4, FlightKept
  <2> QED BY Zenon, <2>2, <2>5
<1>5. ASSUME NEW l \in Loads, LoadStep(l) PROVE SnapshotInvariant' /\ FlightInvariant'
  <2>1. OnlyLoad(l)
    BY Zenon, <1>5, LoadStepAlone
  <2>2. SnapshotInvariant'
    BY Zenon, <2>1, LoadAlone
  <2>3. CASE FinishLoad(l)
    BY Zenon, <2>2, <2>3, FinishFlight
  <2>4. CASE ~FinishLoad(l)
    <3>1. inflight' = inflight
      BY Zenon, <1>5, <2>4 DEF LoadStep, LoaderReturns, CheckFresh, SkipOversize, Write,
                               WriteGetOld, WriteUnregister, WriteInsert, WriteRegister
    <3>2. Calm
      BY Zenon, <2>1, LoadCalm
    <3>3. FlightInvariant'
      BY Zenon, <3>1, <3>2, FlightKept
    <3> QED BY Zenon, <2>2, <3>3
  <2> QED BY Zenon, <2>3, <2>4
<1>6. ASSUME NEW l \in Loads, RemoveIfIdle(l) PROVE SnapshotInvariant' /\ FlightInvariant'
  <2>1. UNCHANGED <<pc, ctx, snap, after>>
    BY Zenon, <1>6 DEF RemoveIfIdle
  <2>2. SnapshotInvariant'
    BY Zenon, <2>1 DEF SnapshotInvariant, Trimmed, ToLoad, Chosen, OwnSnapshot,
                       LoadSnapshot
  <2> QED BY Zenon, <1>6, <2>2, IdleFlight
<1>7. ASSUME NEW k \in Keys, Evict(k) PROVE SnapshotInvariant' /\ FlightInvariant'
  <2>1. UNCHANGED <<pc, ctx, snap, after, joined, inflight>>
    BY Zenon, <1>7 DEF Evict, locals
  <2> QED BY Zenon, <1>1, <2>1
<1>8. CASE UNCHANGED vars
  <2>1. UNCHANGED <<pc, ctx, snap, after, joined, inflight>>
    BY Zenon, <1>8 DEF vars
  <2> QED BY Zenon, <1>1, <2>1
<1>9. ASSUME NEW t \in Tasks, TaskStep(t) PROVE SnapshotInvariant' /\ FlightInvariant'
  BY Zenon, <1>2, <1>3, <1>9
<1> QED BY Zenon, <1>2, <1>4, <1>5, <1>6, <1>7, <1>8, <1>9, DroppedAssumption DEF Next

\* The callers of a key that use one set of tags share one running loader while
\* no invalidation or epoch rotation overlaps a load of the key, for every number
\* of callers, loads, keys and tags (get_or_load, InFlightMap).
THEOREM OneFlight == Spec => []SingleFlight
<1>1. Init => SnapshotInvariant /\ FlightInvariant
  <2> SUFFICES ASSUME Init PROVE SnapshotInvariant /\ FlightInvariant
    BY Zenon
  <2>1. ASSUME NEW a \in Actors PROVE Trimmed(snap[a])
    <3>1. snap[a] = NoSnapshot
      BY Zenon DEF Init
    <3>2. Trimmed(NoSnapshot)
      BY Zenon DEF Trimmed, NoSnapshot, TakeSnapshot
    <3> QED BY Zenon, <3>1, <3>2
  <2>2. ASSUME NEW t \in Tasks PROVE ~ToLoad(t) /\ OwnSnapshot(t)
    <3>1. pc[t] = "idle" /\ after[t] = <<>>
      BY Zenon, TasksAreNotLoads DEF Init, Actors
    <3> QED BY <3>1 DEF ToLoad, OwnSnapshot
  <2>3. ASSUME NEW l \in Loads PROVE pc[l] = "free"
    BY Zenon, TasksAreNotLoads DEF Init, Actors
  <2>4. SnapshotInvariant
    BY Zenon, <2>1, <2>2, <2>3 DEF SnapshotInvariant, LoadSnapshot
  <2>5. FlightInvariant
    BY Zenon, <2>3 DEF FlightInvariant, Live
  <2> QED BY Zenon, <2>4, <2>5
<1>2. /\ TypeOK /\ TypeOK' /\ Bookkeeping /\ FenceInvariant /\ VersionInvariant
      /\ SnapshotInvariant /\ FlightInvariant /\ [Next]_vars
      => SnapshotInvariant' /\ FlightInvariant'
  BY Zenon, FlightStep
<1>3. FlightInvariant => SingleFlight
  BY Zenon DEF FlightInvariant, SingleFlight
<1> QED BY <1>1, <1>2, <1>3, Types, Books, Fenced, Versioned, PTL DEF Spec
=============================================================================
