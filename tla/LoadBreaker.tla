---------------------------- MODULE LoadBreaker ----------------------------
(***************************************************************************)
(* The per-key loader circuit breaker (load_breaker.rs) and the part of    *)
(* shared_load (cache.rs) that consults it: a caller takes its generation, *)
(* tries to join the load in flight, asks the breaker, then registers a    *)
(* load of its own or joins the one that got there first.  A load reports  *)
(* its result to the breaker before it leaves the in-flight map.           *)
(*                                                                         *)
(* Instants are ages.  A failure sets last_activity, and opened_at if the  *)
(* breaker is open, to the same instant, and nothing else sets them: one   *)
(* age, the time since the key's last failure, stands for both, counted up *)
(* to the largest value the code compares it with.  A load is alive while  *)
(* a caller waits for it: the slot of a load without waiters can no longer *)
(* be joined and counts as empty.                                          *)
(***************************************************************************)
EXTENDS Naturals, FiniteSets

CONSTANTS Keys, Tasks,
          Loads,            \* names for the load futures alive at one time
          Threshold,        \* failure_threshold
          InitialBackoff, MaxBackoff,
          InactiveTtl,      \* inactive_entry_ttl
          MaxTracked,       \* max_tracked_keys
          MaxGeneration,    \* bound on the invalidations of one key
          Dropped           \* the callers that may be dropped while they wait

ASSUME PolicyAssumption ==
    /\ Threshold \in Nat /\ Threshold >= 2
    /\ InitialBackoff \in Nat \ {0} /\ MaxBackoff \in Nat
    /\ InitialBackoff <= MaxBackoff
    /\ InactiveTtl \in Nat \ {0} /\ MaxTracked \in Nat \ {0}
    /\ MaxGeneration \in Nat
ASSUME KeysAssumption == IsFiniteSet(Keys) /\ Keys # {}

VARIABLES
    entries,      \* [Keys -> the breaker of the key, or Untracked]
    generation,   \* [Keys -> the key's current load generation]
    inflight,     \* [Keys -> the load registered for the key, or NoLoad]
    load,         \* [Loads -> the load's key, generation and point]
    pc,           \* [Tasks -> where the caller is in shared_load]
    call,         \* [Tasks -> the key and the generation it loads]
    joined,       \* [Tasks -> the load the caller waits for, or NoLoad]
    streak        \* history: failures of the key since its last success

vars == <<entries, generation, inflight, load, pc, call, joined, streak>>

NoLoad == "no_load"
Untracked == [failures |-> 0, opened |-> FALSE, age |-> 0, backoff |-> 0,
              halfOpen |-> FALSE]
AgeBound == IF InactiveTtl <= MaxBackoff THEN MaxBackoff ELSE InactiveTtl

\* A tracked entry has at least one failure; the count saturates at Threshold.
Breakers == [failures : 1 .. Threshold, opened : BOOLEAN, age : 0 .. AgeBound,
             backoff : InitialBackoff .. MaxBackoff, halfOpen : BOOLEAN]
Calls == [key : Keys, generation : 0 .. MaxGeneration]
LoadStates == [key : Keys, generation : 0 .. MaxGeneration,
               at : {"running", "failed", "succeeded", "done"}]

Tracked(e) == {k \in Keys : e[k] # Untracked}
Waiters(l) == {t \in Tasks : joined[t] = l}

TypeOK ==
    /\ entries \in [Keys -> Breakers \cup {Untracked}]
    /\ generation \in [Keys -> 0 .. MaxGeneration]
    /\ inflight \in [Keys -> Loads \cup {NoLoad}]
    /\ load \in [Loads -> LoadStates]
    /\ pc \in [Tasks -> {"idle", "get_current", "before_load", "insert", "wait"}]
    /\ call \in [Tasks -> Calls]
    /\ joined \in [Tasks -> Loads \cup {NoLoad}]
    /\ streak \in [Keys -> 0 .. Threshold]

\* The locals of a caller without a call, and of a load without a handle.
NoCall == [key |-> CHOOSE k \in Keys : TRUE, generation |-> 0]
Ended == [key |-> NoCall.key, generation |-> 0, at |-> "done"]

Init ==
    /\ entries = [k \in Keys |-> Untracked]
    /\ generation = [k \in Keys |-> 0]
    /\ inflight = [k \in Keys |-> NoLoad]
    /\ load = [l \in Loads |-> Ended]
    /\ pc = [t \in Tasks |-> "idle"]
    /\ call = [t \in Tasks |-> NoCall]
    /\ joined = [t \in Tasks |-> NoLoad]
    /\ streak = [k \in Keys |-> 0]

-----------------------------------------------------------------------------
\* The breaker registry, one operator per function of load_breaker.rs.

\* A bug: the age of open breakers counts as inactivity too.
PruneOpenToo(e) ==
    [k \in Keys |-> IF e[k].age < InactiveTtl THEN e[k] ELSE Untracked]

\* prune_inactive_entries: closed entries leave after the inactivity timeout.
Prune(e) ==
    [k \in Keys |-> IF e[k].opened \/ e[k].age < InactiveTtl
                    THEN e[k] ELSE Untracked]

\* The least recently active closed entries, one of which makes room.
EvictionCandidates(e) ==
    {k \in Tracked(e) : /\ ~e[k].opened
                        /\ \A j \in Tracked(e) : ~e[j].opened => e[j].age <= e[k].age}

\* A bug: a full registry admits the key when it finds nothing to evict.
RoomForAlways(e, k) ==
    IF e[k] = Untracked /\ Cardinality(Tracked(e)) >= MaxTracked
       /\ EvictionCandidates(e) # {}
    THEN {[e EXCEPT ![j] = Untracked] : j \in EvictionCandidates(e)}
    ELSE {e}

\* The registries in which a failure of k may be recorded; none if every slot
\* is open.
RoomFor(e, k) ==
    IF e[k] = Untracked /\ Cardinality(Tracked(e)) >= MaxTracked
    THEN {[e EXCEPT ![j] = Untracked] : j \in EvictionCandidates(e)}
    ELSE {e}

Lesser(i, j) == IF i <= j THEN i ELSE j

\* A bug: the doubled backoff is not capped.
DoubleUncapped(backoff) == 2 * backoff

\* double_backoff
DoubleBackoff(backoff) == Lesser(2 * backoff, MaxBackoff)

\* The failure branch of after_load_result on the key's entry.
CountFailure(b) ==
    LET failures == Lesser(b.failures + 1, Threshold)
        open == b.opened \/ failures >= Threshold
    IN [failures |-> failures, opened |-> open, age |-> 0,
        backoff |-> IF b.opened THEN DoubleBackoff(b.backoff) ELSE InitialBackoff,
        halfOpen |-> FALSE]

\* A bug: a success closes only a breaker that was open.
SuccessKeepsClosed(e, k) ==
    IF e[k].opened THEN [e EXCEPT ![k] = Untracked] ELSE e

\* The success branch of after_load_result forgets the key.
Succeed(e, k) == [e EXCEPT ![k] = Untracked]

Rejects(b) == b.opened /\ (b.halfOpen \/ b.age < b.backoff)
Probes(b) == b.opened /\ ~b.halfOpen /\ b.age >= b.backoff

-----------------------------------------------------------------------------
\* shared_load, one action for each lock it takes.

Goto(t, point) == pc' = [pc EXCEPT ![t] = point]

\* tag_index.snapshot
SharedLoad(t, k) ==
    /\ pc[t] = "idle"
    /\ call' = [call EXCEPT ![t] = [key |-> k, generation |-> generation[k]]]
    /\ Goto(t, "get_current")
    /\ UNCHANGED <<entries, generation, inflight, load, joined, streak>>

\* The registered load has the caller's generation.
CanJoin(t) ==
    LET l == inflight[call[t].key]
    IN l # NoLoad /\ load[l].generation = call[t].generation

Join(t) ==
    /\ joined' = [joined EXCEPT ![t] = inflight[call[t].key]]
    /\ Goto(t, "wait")
    /\ UNCHANGED <<entries, generation, inflight, load, call, streak>>

GetCurrent(t) ==
    /\ pc[t] = "get_current"
    /\ \/ CanJoin(t) /\ Join(t)
       \/ /\ ~CanJoin(t)
          /\ Goto(t, "before_load")
          /\ UNCHANGED <<entries, generation, inflight, load, call, joined, streak>>

\* before_load answers Allow or Reject; an open breaker past its backoff turns
\* half open and lets this caller through.
BeforeLoad(t) ==
    /\ pc[t] = "before_load"
    /\ LET k == call[t].key
           e == Prune(entries)
       IN /\ entries' = IF Probes(e[k]) THEN [e EXCEPT ![k].halfOpen = TRUE] ELSE e
          /\ Goto(t, IF Rejects(e[k]) THEN "idle" ELSE "insert")
          /\ call' = IF Rejects(e[k]) THEN [call EXCEPT ![t] = NoCall] ELSE call
    /\ UNCHANGED <<generation, inflight, load, joined, streak>>

\* insert_or_get_current: the caller's load replaces one it cannot join.
InsertOrGetCurrent(t) ==
    /\ pc[t] = "insert"
    /\ \/ CanJoin(t) /\ Join(t)
       \/ /\ ~CanJoin(t)
          /\ \E l \in Loads :
                /\ Waiters(l) = {}
                /\ load' = [load EXCEPT ![l] =
                       [key |-> call[t].key, generation |-> call[t].generation,
                        at |-> "running"]]
                /\ inflight' = [inflight EXCEPT ![call[t].key] = l]
                /\ joined' = [joined EXCEPT ![t] = l]
          /\ Goto(t, "wait")
          /\ UNCHANGED <<entries, generation, call, streak>>

\* The load's loader returned; it reports success to the breaker.
LoadSucceeds(l) ==
    /\ load[l].at = "running" /\ Waiters(l) # {}
    /\ entries' = Succeed(Prune(entries), load[l].key)
    /\ load' = [load EXCEPT ![l].at = "succeeded"]
    /\ streak' = [streak EXCEPT ![load[l].key] = 0]
    /\ UNCHANGED <<generation, inflight, pc, call, joined>>

\* It reports a failure, which a saturated registry does not record.
LoadFails(l) ==
    /\ load[l].at = "running" /\ Waiters(l) # {}
    /\ LET k == load[l].key
           e == Prune(entries)
       IN \/ \E r \in RoomFor(e, k) : entries' = [r EXCEPT ![k] = CountFailure(r[k])]
          \/ RoomFor(e, k) = {} /\ entries' = e
    /\ load' = [load EXCEPT ![l].at = "failed"]
    /\ streak' = [streak EXCEPT ![load[l].key] = Lesser(@ + 1, Threshold)]
    /\ UNCHANGED <<generation, inflight, pc, call, joined>>

\* remove_if_generation_matches, after which the load's result is out.
FinishLoad(l) ==
    /\ load[l].at \in {"succeeded", "failed"} /\ Waiters(l) # {}
    /\ LET current == inflight[load[l].key] IN
       inflight' = IF current # NoLoad /\ load[current].generation = load[l].generation
                   THEN [inflight EXCEPT ![load[l].key] = NoLoad] ELSE inflight
    /\ load' = [load EXCEPT ![l].at = "done"]
    /\ UNCHANGED <<entries, generation, pc, call, joined, streak>>

\* A handle is dropped; with its last handle a load ends and leaves the map.
DropHandle(t) ==
    /\ joined' = [joined EXCEPT ![t] = NoLoad]
    /\ inflight' = [k \in Keys |-> IF inflight[k] # NoLoad /\ Waiters(inflight[k]) = {t}
                                   THEN NoLoad ELSE inflight[k]]
    /\ load' = [l \in Loads |-> IF Waiters(l) = {t} THEN Ended ELSE load[l]]
    /\ call' = [call EXCEPT ![t] = NoCall]
    /\ Goto(t, "idle")
    /\ UNCHANGED <<entries, generation, streak>>

\* The caller receives the load's result.
AwaitLoad(t) ==
    /\ pc[t] = "wait" /\ load[joined[t]].at = "done"
    /\ DropHandle(t)

\* The caller's future is dropped at an await point.
Cancel(t) ==
    /\ pc[t] # "idle"
    /\ DropHandle(t)

\* An invalidation moves the key to a new load generation.
Invalidate(k) ==
    /\ generation[k] < MaxGeneration
    /\ generation' = [generation EXCEPT ![k] = @ + 1]
    /\ UNCHANGED <<entries, inflight, load, pc, call, joined, streak>>

\* Time passes for every tracked breaker.
Tick ==
    /\ entries' = [k \in Keys |->
           IF entries[k] = Untracked THEN Untracked
           ELSE [entries[k] EXCEPT !.age = Lesser(@ + 1, AgeBound)]]
    /\ UNCHANGED <<generation, inflight, load, pc, call, joined, streak>>

CallerStep(t) ==
    \/ GetCurrent(t) \/ BeforeLoad(t) \/ InsertOrGetCurrent(t) \/ AwaitLoad(t)
LoadStep(l) == LoadSucceeds(l) \/ LoadFails(l) \/ FinishLoad(l)

Next ==
    \/ \E t \in Tasks, k \in Keys : SharedLoad(t, k)
    \/ \E t \in Tasks : CallerStep(t)
    \/ \E l \in Loads : LoadStep(l)
    \/ \E t \in Dropped : Cancel(t)
    \/ \E k \in Keys : Invalidate(k)
    \/ Tick

Spec == Init /\ [][Next]_vars

-----------------------------------------------------------------------------
\* The registry never holds more keys than its budget: after_load_result makes
\* room for a key before it adds one.
WithinBudget == Cardinality(Tracked(entries)) <= MaxTracked

\* A breaker that rejects calls is backed by that many failures of the very key
\* in a row: no failure counted for another key, no success missed, no half-open
\* state left on a closed breaker.
OpenAfterStreak ==
    \A k \in Keys :
        /\ entries[k].opened <=> entries[k].failures = Threshold
        /\ entries[k].failures <= streak[k]
        /\ entries[k].halfOpen => entries[k].opened

\* An open breaker leaves the registry only with a success of its key, whatever
\* the pressure on the budget and however long it is inactive.
OpenSurvives ==
    [][\A k \in Keys : entries[k].opened /\ ~entries'[k].opened =>
          \E l \in Loads : /\ load[l].key = k /\ load[l].at = "running"
                           /\ load'[l].at = "succeeded"]_vars
=============================================================================
