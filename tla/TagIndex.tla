------------------------------ MODULE TagIndex ------------------------------
(***************************************************************************)
(* The tag index of the local cache (crates/hydracache/src/tag_index.rs):  *)
(* which keys carry which tag, and the generation counters that fence      *)
(* loads against invalidations.  Every method of the Rust TagIndex holds   *)
(* one lock for its whole body, so each one is an operator from an index   *)
(* to an index, used as a single step by the modules that own an index.    *)
(*                                                                         *)
(* The hash maps of the code become total functions: a version or a        *)
(* generation 0 stands for "no record".  That is exact, because versions   *)
(* start at 1 and a generation record is created and incremented in one    *)
(* step.  The u64 counters are naturals: 2^64 invalidations are out of     *)
(* reach of a process.                                                     *)
(***************************************************************************)
EXTENDS Integers, FiniteSets

CONSTANTS Keys,          \* cache keys
          Tags,          \* invalidation tags
          MaxTombstones  \* MAX_GENERATION_TOMBSTONES

ASSUME TombstonesAssumption == MaxTombstones \in Nat \ {0}

\* TagIndexState.
Indexes == [keysByTag : [Tags -> [Keys -> Nat]],
            generations : [Tags -> Nat],
            keyGenerations : [Keys -> Nat],
            global : Nat]

\* LoadGenerationSnapshot; generations of tags outside `tags` are kept at 0.
Snapshots == [global : Nat, key : Keys, keyGeneration : Nat,
              tags : SUBSET Tags, generations : [Tags -> Nat]]

EmptyIndex == [keysByTag |-> [t \in Tags |-> [k \in Keys |-> 0]],
               generations |-> [t \in Tags |-> 0],
               keyGenerations |-> [k \in Keys |-> 0],
               global |-> 0]

\* Keys registered under a tag.
TaggedKeys(ix, t) == {k \in Keys : ix.keysByTag[t][k] # 0}

Register(ix, k, T, v) ==
    [ix EXCEPT !.keysByTag =
        [t \in Tags |-> IF t \in T THEN [ix.keysByTag[t] EXCEPT ![k] = v]
                                   ELSE ix.keysByTag[t]]]

Unregister(ix, k, T) == Register(ix, k, T, 0)

\* Drops the membership of one version only.
UnregisterIfVersion(ix, k, T, v) ==
    Unregister(ix, k, {t \in T : ix.keysByTag[t][k] = v})

\* A bug: the rotation forgets to bump the global generation.
RotateKeepsGlobal(ix) ==
    [EmptyIndex EXCEPT !.keysByTag = ix.keysByTag, !.global = ix.global]

\* Forgets every counter but bumps the global generation.
RotateGenerationEpoch(ix) ==
    [EmptyIndex EXCEPT !.keysByTag = ix.keysByTag, !.global = ix.global + 1]

TagRecords(ix) == {t \in Tags : ix.generations[t] # 0}
KeyRecords(ix) == {k \in Keys : ix.keyGenerations[k] # 0}

\* Room for one more counter, made by rotating the epoch when the map is full.
RoomForTag(ix, t) ==
    IF ix.generations[t] = 0 /\ Cardinality(TagRecords(ix)) >= MaxTombstones
    THEN RotateGenerationEpoch(ix) ELSE ix

RoomForKey(ix, k) ==
    IF ix.keyGenerations[k] = 0 /\ Cardinality(KeyRecords(ix)) >= MaxTombstones
    THEN RotateGenerationEpoch(ix) ELSE ix

\* take_tag: advance the tag's generation and detach its members.  The keys
\* it returns are TaggedKeys(ix, t) of the index before the step.
TakeTag(ix, t) ==
    [RoomForTag(ix, t) EXCEPT !.generations[t] = @ + 1,
                              !.keysByTag[t] = [k \in Keys |-> 0]]

AdvanceKey(ix, k) ==
    [RoomForKey(ix, k) EXCEPT !.keyGenerations[k] = @ + 1]

\* A bug: the global generation moves the wrong way.
ClearBackwards(ix) == [EmptyIndex EXCEPT !.global = ix.global - 1]

Clear(ix) == [EmptyIndex EXCEPT !.global = ix.global + 1]

TakeSnapshot(ix, k, T) ==
    [global |-> ix.global, key |-> k, keyGeneration |-> ix.keyGenerations[k],
     tags |-> T,
     generations |-> [t \in Tags |-> IF t \in T THEN ix.generations[t] ELSE 0]]

IsCurrent(ix, s) ==
    /\ ix.global = s.global
    /\ ix.keyGenerations[s.key] = s.keyGeneration
    /\ \A t \in s.tags : ix.generations[t] = s.generations[t]

\* reconcile_memberships: rebuild the memberships from the stored entries.
ReconcileMemberships(ix, version, tagsOf) ==
    [ix EXCEPT !.keysByTag =
        [t \in Tags |-> [k \in Keys |->
            IF version[k] # 0 /\ t \in tagsOf[k] THEN version[k] ELSE 0]]]
=============================================================================
