-------------------------- MODULE LoadBreakerProofs --------------------------
(***************************************************************************)
(* Proofs about LoadBreaker: the registry stays within its budget, an open *)
(* breaker is backed by failures of its own key, and only a success closes *)
(* it, for every policy and any number of keys, callers and loads.         *)
(***************************************************************************)
EXTENDS LoadBreaker, FiniteSetTheorems, TLAPS

Registries == [Keys -> Breakers \cup {Untracked}]

(* What OpenAfterStreak says of one entry. *)
Backed(b, failures) ==
    /\ b.opened <=> b.failures = Threshold
    /\ b.failures <= failures
    /\ b.halfOpen => b.opened

-----------------------------------------------------------------------------
(* The fields of an entry, tracked or not. *)
LEMMA EntryTypes ==
    ASSUME NEW b \in Breakers \cup {Untracked}
    PROVE  /\ b.failures \in 0 .. Threshold /\ b.opened \in BOOLEAN /\ b.halfOpen \in BOOLEAN
           /\ b.age \in 0 .. AgeBound
           /\ b # Untracked => b.backoff \in InitialBackoff .. MaxBackoff /\ b.failures >= 1
  <1>1. AgeBound \in Nat /\ Threshold \in Nat
    BY Zenon, PolicyAssumption DEF AgeBound
  <1>2. CASE b = Untracked
    BY <1>1, <1>2 DEF Untracked
  <1>3. CASE b \in Breakers
    BY <1>1, <1>3 DEF Breakers
  <1> QED BY Zenon, <1>2, <1>3

LEMMA UntrackedIsClosed ==
    /\ Untracked \notin Breakers /\ ~Untracked.opened /\ Untracked.failures = 0
    /\ \A n \in Nat : Backed(Untracked, n)
  <1>1. Untracked \notin Breakers
    BY PolicyAssumption DEF Untracked, Breakers
  <1>2. ~Untracked.opened /\ Untracked.failures = 0 /\ ~Untracked.halfOpen
    BY Zenon DEF Untracked
  <1>3. Threshold # 0
    BY PolicyAssumption
  <1> QED BY <1>1, <1>2, <1>3 DEF Backed

(* prune_inactive_entries removes closed entries only. *)
LEMMA PruneKeepsOpen ==
    ASSUME NEW e \in Registries
    PROVE  /\ Prune(e) \in Registries
           /\ \A k \in Keys : Prune(e)[k] = e[k] \/ (Prune(e)[k] = Untracked /\ ~e[k].opened)
  BY Zenon DEF Prune, Registries

(* The eviction that makes room removes one closed entry of another key. *)
LEMMA RoomKeepsOpen ==
    ASSUME NEW e \in Registries, NEW k \in Keys, NEW r \in RoomFor(e, k)
    PROVE  /\ r \in Registries
           /\ r[k] = e[k]
           /\ \A j \in Keys : r[j] = e[j] \/ (r[j] = Untracked /\ ~e[j].opened)
  <1>1. CASE r = e
    BY Zenon, <1>1
  <1>2. CASE r # e
    <2>1. e[k] = Untracked
      BY Zenon, <1>2 DEF RoomFor
    <2>2. PICK j \in EvictionCandidates(e) : r = [e EXCEPT ![j] = Untracked]
      BY Zenon, <1>2 DEF RoomFor
    <2>3. j \in Keys /\ e[j] # Untracked /\ ~e[j].opened
      BY Zenon, <2>2 DEF EvictionCandidates, Tracked
    <2> QED BY Zenon, <2>1, <2>2, <2>3 DEF Registries
  <1> QED BY Zenon, <1>1, <1>2

(* A recorded failure is a well-formed entry and counts one more. *)
LEMMA FailureIsCounted ==
    ASSUME NEW b \in Breakers \cup {Untracked}
    PROVE  /\ CountFailure(b) \in Breakers
           /\ b.opened => CountFailure(b).opened
           /\ \A n \in 0 .. Threshold :
                 Backed(b, n) => Backed(CountFailure(b), Lesser(n + 1, Threshold))
  <1> DEFINE f == Lesser(b.failures + 1, Threshold)
             open == b.opened \/ f >= Threshold
             back == IF b.opened THEN DoubleBackoff(b.backoff) ELSE InitialBackoff
  <1>1. /\ b.failures \in 0 .. Threshold /\ b.opened \in BOOLEAN
        /\ b # Untracked => b.backoff \in InitialBackoff .. MaxBackoff
    BY Zenon, EntryTypes
  <1>2. f \in 1 .. Threshold /\ (f >= Threshold <=> b.failures + 1 >= Threshold)
    BY <1>1, PolicyAssumption DEF Lesser
  <1>3. back \in InitialBackoff .. MaxBackoff
    <2>1. CASE b.opened
      <3>1. b.backoff \in InitialBackoff .. MaxBackoff
        BY Zenon, <1>1, <2>1, UntrackedIsClosed
      <3> QED BY <2>1, <3>1, PolicyAssumption DEF DoubleBackoff, Lesser
    <2>2. CASE ~b.opened
      BY <2>2, PolicyAssumption
    <2> QED BY Zenon, <2>1, <2>2
  <1>4. AgeBound \in Nat
    BY Zenon, PolicyAssumption DEF AgeBound
  <1>5. open \in BOOLEAN
    BY Zenon, <1>1, <1>2, PolicyAssumption
  <1>6. CountFailure(b) = [failures |-> f, opened |-> open, age |-> 0, backoff |-> back,
                           halfOpen |-> FALSE]
    BY Zenon DEF CountFailure
  <1> HIDE DEF back
  <1>7. CountFailure(b) \in Breakers
    <2> HIDE DEF f, open
    <2> QED BY <1>2, <1>3, <1>4, <1>5, <1>6 DEF Breakers
  <1>8. /\ CountFailure(b).failures = f /\ CountFailure(b).opened = open
        /\ CountFailure(b).halfOpen = FALSE
    <2> HIDE DEF f, open
    <2> QED BY <1>6
  <1>9. b.opened => CountFailure(b).opened
    BY Zenon, <1>8
  <1>10. ASSUME NEW n \in 0 .. Threshold, Backed(b, n)
         PROVE  Backed(CountFailure(b), Lesser(n + 1, Threshold))
    <2>1. f <= Lesser(n + 1, Threshold)
      BY <1>1, <1>10, PolicyAssumption DEF Lesser, Backed
    <2>2. open <=> f = Threshold
      <3>1. b.opened => b.failures = Threshold
        BY Zenon, <1>10 DEF Backed
      <3> QED BY <3>1, <1>1, <1>2, PolicyAssumption DEF Lesser
    <2> HIDE DEF f, open
    <2> QED BY Zenon, <1>8, <2>1, <2>2 DEF Backed
  <1> QED BY Zenon, <1>7, <1>9, <1>10

-----------------------------------------------------------------------------
(* The states of the registry: types, and entries backed by failures. *)
RegistryOK ==
    /\ entries \in Registries
    /\ streak \in [Keys -> 0 .. Threshold]
    /\ OpenAfterStreak

(* The variables that the registry does not see. *)
CallersOK ==
    /\ generation \in [Keys -> 0 .. MaxGeneration]
    /\ inflight \in [Keys -> Loads \cup {NoLoad}]
    /\ load \in [Loads -> LoadStates]
    /\ pc \in [Tasks -> {"idle", "get_current", "before_load", "insert", "wait"}]
    /\ call \in [Tasks -> Calls]
    /\ joined \in [Tasks -> Loads \cup {NoLoad}]

LEMMA Locals == NoCall \in Calls /\ Ended \in LoadStates
  <1>1. NoCall.key \in Keys /\ NoCall \in Calls
    BY KeysAssumption, PolicyAssumption DEF NoCall, Calls
  <1> QED BY <1>1, PolicyAssumption DEF Ended, LoadStates

LEMMA CallersInit == Init => CallersOK
  BY Locals, PolicyAssumption DEF Init, CallersOK

LEMMA JoinTypes ==
    ASSUME CallersOK, NEW t \in Tasks, Join(t)
    PROVE  CallersOK'
  <1>1. call[t].key \in Keys
    BY Zenon DEF CallersOK, Calls
  <1>2. inflight[call[t].key] \in Loads \cup {NoLoad}
    BY Zenon, <1>1 DEF CallersOK
  <1>3. /\ joined' = [joined EXCEPT ![t] = inflight[call[t].key]]
        /\ pc' = [pc EXCEPT ![t] = "wait"]
        /\ UNCHANGED <<generation, inflight, load, call>>
    BY Zenon DEF Join, Goto
  <1> QED BY Zenon, <1>2, <1>3 DEF CallersOK

LEMMA DropTypes ==
    ASSUME CallersOK, NEW t, DropHandle(t)
    PROVE  CallersOK'
  <1>1. /\ joined' = [joined EXCEPT ![t] = NoLoad]
        /\ inflight' = [k \in Keys |-> IF inflight[k] # NoLoad /\ Waiters(inflight[k]) = {t}
                                       THEN NoLoad ELSE inflight[k]]
        /\ load' = [l \in Loads |-> IF Waiters(l) = {t} THEN Ended ELSE load[l]]
        /\ call' = [call EXCEPT ![t] = NoCall]
        /\ pc' = [pc EXCEPT ![t] = "idle"]
        /\ generation' = generation
    BY Zenon DEF DropHandle, Goto
  <1>2. joined' \in [Tasks -> Loads \cup {NoLoad}]
    BY Zenon, <1>1 DEF CallersOK
  <1>3. inflight' \in [Keys -> Loads \cup {NoLoad}]
    BY Zenon, <1>1 DEF CallersOK
  <1>4. load' \in [Loads -> LoadStates]
    BY Zenon, <1>1, Locals DEF CallersOK
  <1>5. call' \in [Tasks -> Calls]
    BY Zenon, <1>1, Locals DEF CallersOK
  <1> QED BY Zenon, <1>1, <1>2, <1>3, <1>4, <1>5 DEF CallersOK

LEMMA CallersStep == CallersOK /\ [Next]_vars => CallersOK'
  <1> SUFFICES ASSUME CallersOK, [Next]_vars PROVE CallersOK'
    BY Zenon
  <1>1. ASSUME NEW t \in Tasks, NEW k \in Keys, SharedLoad(t, k)
        PROVE  CallersOK'
    <2> DEFINE c == [key |-> k, generation |-> generation[k]]
    <2>1. c \in Calls
      BY Zenon DEF CallersOK, Calls
    <2>2. call' = [call EXCEPT ![t] = c] /\ pc' = [pc EXCEPT ![t] = "get_current"]
          /\ UNCHANGED <<generation, inflight, load, joined>>
      BY Zenon, <1>1 DEF SharedLoad, Goto
    <2> HIDE DEF c
    <2> QED BY Zenon, <2>1, <2>2 DEF CallersOK
  <1>2. ASSUME NEW t \in Tasks, GetCurrent(t)
        PROVE  CallersOK'
    <2>1. CASE Join(t)
      BY Zenon, <2>1, JoinTypes
    <2>2. CASE ~Join(t)
      BY Zenon, <1>2, <2>2 DEF GetCurrent, Goto, CallersOK
    <2> QED BY Zenon, <2>1, <2>2
  <1>3. ASSUME NEW t \in Tasks, BeforeLoad(t)
        PROVE  CallersOK'
    <2>1. \/ pc' = [pc EXCEPT ![t] = "idle"]
          \/ pc' = [pc EXCEPT ![t] = "insert"]
      BY Zenon, <1>3 DEF BeforeLoad, Goto
    <2>2. call' = [call EXCEPT ![t] = NoCall] \/ call' = call
      BY Zenon, <1>3 DEF BeforeLoad
    <2>3. UNCHANGED <<generation, inflight, load, joined>>
      BY Zenon, <1>3 DEF BeforeLoad
    <2>4. pc' \in [Tasks -> {"idle", "get_current", "before_load", "insert", "wait"}]
      BY Zenon, <2>1 DEF CallersOK
    <2>5. call' \in [Tasks -> Calls]
      BY Zenon, <2>2, Locals DEF CallersOK
    <2> QED BY Zenon, <2>3, <2>4, <2>5 DEF CallersOK
  <1>4. ASSUME NEW t \in Tasks, InsertOrGetCurrent(t)
        PROVE  CallersOK'
    <2>1. CASE Join(t)
      BY Zenon, <2>1, JoinTypes
    <2>2. CASE ~Join(t)
      <3> DEFINE n == [key |-> call[t].key, generation |-> call[t].generation, at |-> "running"]
      <3>1. PICK l \in Loads :
               /\ load' = [load EXCEPT ![l] = n]
               /\ inflight' = [inflight EXCEPT ![call[t].key] = l]
               /\ joined' = [joined EXCEPT ![t] = l]
        BY Zenon, <1>4, <2>2 DEF InsertOrGetCurrent
      <3>2. pc' = [pc EXCEPT ![t] = "wait"] /\ UNCHANGED <<generation, call>>
        BY Zenon, <1>4, <2>2 DEF InsertOrGetCurrent, Goto
      <3>3. n \in LoadStates
        BY Zenon DEF CallersOK, Calls, LoadStates
      <3> HIDE DEF n
      <3>4. load' \in [Loads -> LoadStates]
        BY Zenon, <3>1, <3>3 DEF CallersOK
      <3>5. inflight' \in [Keys -> Loads \cup {NoLoad}] /\ joined' \in [Tasks -> Loads \cup {NoLoad}]
        BY Zenon, <3>1 DEF CallersOK
      <3>6. pc' \in [Tasks -> {"idle", "get_current", "before_load", "insert", "wait"}]
        BY Zenon, <3>2 DEF CallersOK
      <3> QED BY Zenon, <3>2, <3>4, <3>5, <3>6 DEF CallersOK
    <2> QED BY Zenon, <2>1, <2>2
  <1>5. ASSUME NEW l \in Loads, LoadStep(l)
        PROVE  CallersOK'
    <2>1. PICK p \in {"succeeded", "failed", "done"} : load' = [load EXCEPT ![l].at = p]
      BY Zenon, <1>5 DEF LoadStep, LoadSucceeds, LoadFails, FinishLoad
    <2>2. load' \in [Loads -> LoadStates]
      BY Zenon, <2>1 DEF CallersOK, LoadStates
    <2>3. inflight' = inflight \/ inflight' = [inflight EXCEPT ![load[l].key] = NoLoad]
      BY Zenon, <1>5 DEF LoadStep, LoadSucceeds, LoadFails, FinishLoad
    <2>4. inflight' \in [Keys -> Loads \cup {NoLoad}]
      BY Zenon, <2>3 DEF CallersOK
    <2>5. UNCHANGED <<generation, pc, call, joined>>
      BY Zenon, <1>5 DEF LoadStep, LoadSucceeds, LoadFails, FinishLoad
    <2> QED BY Zenon, <2>2, <2>4, <2>5 DEF CallersOK
  <1>6. ASSUME NEW t, AwaitLoad(t) \/ Cancel(t)
        PROVE  CallersOK'
    <2>1. DropHandle(t)
      BY Zenon, <1>6 DEF AwaitLoad, Cancel
    <2> QED BY Zenon, <2>1, DropTypes
  <1>7. ASSUME NEW k \in Keys, Invalidate(k)
        PROVE  CallersOK'
    <2>1. /\ generation[k] < MaxGeneration /\ generation' = [generation EXCEPT ![k] = @ + 1]
          /\ UNCHANGED <<inflight, load, pc, call, joined>>
      BY Zenon, <1>7 DEF Invalidate
    <2>2. generation[k] + 1 \in 0 .. MaxGeneration
      BY <2>1, PolicyAssumption DEF CallersOK
    <2>3. generation' \in [Keys -> 0 .. MaxGeneration]
      BY Zenon, <2>1, <2>2 DEF CallersOK
    <2> QED BY Zenon, <2>1, <2>3 DEF CallersOK
  <1>8. CASE Tick \/ UNCHANGED vars
    BY Zenon, <1>8 DEF Tick, vars, CallersOK
  <1> QED BY Zenon, <1>1, <1>2, <1>3, <1>4, <1>5, <1>6, <1>7, <1>8 DEF Next, CallerStep

-----------------------------------------------------------------------------
(* What a step makes of the registry. *)

(* Some entries are as they were, the others are forgotten or were closed. *)
Thinned(e, f) ==
    /\ f \in Registries
    /\ \A k \in Keys : f[k] = e[k] \/ (f[k] = Untracked /\ ~e[k].opened)

LEMMA ThinnedIsBacked ==
    ASSUME NEW e \in Registries, NEW f, Thinned(e, f), NEW n \in [Keys -> 0 .. Threshold],
           \A k \in Keys : Backed(e[k], n[k])
    PROVE  /\ \A k \in Keys : Backed(f[k], n[k])
           /\ \A k \in Keys : e[k].opened => f[k].opened
           /\ Tracked(f) \subseteq Tracked(e)
  <1>1. \A k \in Keys : n[k] \in Nat
    BY PolicyAssumption
  <1>2. \A k \in Keys : Backed(f[k], n[k])
    BY Zenon, <1>1, UntrackedIsClosed DEF Thinned
  <1>3. \A k \in Keys : e[k].opened => f[k].opened
    BY Zenon DEF Thinned
  <1>4. Tracked(f) \subseteq Tracked(e)
    BY Zenon DEF Thinned, Tracked
  <1> QED BY Zenon, <1>2, <1>3, <1>4

(* A set of keys is finite and no larger than one that contains it. *)
LEMMA TrackedIsFinite ==
    ASSUME NEW e, NEW f, Tracked(f) \subseteq Tracked(e)
    PROVE  /\ IsFiniteSet(Tracked(e)) /\ IsFiniteSet(Tracked(f))
           /\ Cardinality(Tracked(e)) \in Nat /\ Cardinality(Tracked(f)) \in Nat
           /\ Cardinality(Tracked(f)) <= Cardinality(Tracked(e))
  <1>1. IsFiniteSet(Tracked(e))
    BY Zenon, KeysAssumption, FS_Subset DEF Tracked
  <1>2. IsFiniteSet(Tracked(f)) /\ Cardinality(Tracked(f)) <= Cardinality(Tracked(e))
    BY Zenon, <1>1, FS_Subset
  <1> QED BY Zenon, <1>1, <1>2, FS_CardinalityType

LEMMA PruneThins == ASSUME NEW e \in Registries PROVE Thinned(e, Prune(e))
  BY Zenon, PruneKeepsOpen DEF Thinned

LEMMA BeforeLoadOK ==
    ASSUME RegistryOK, CallersOK, WithinBudget, NEW t \in Tasks, BeforeLoad(t)
    PROVE  /\ RegistryOK' /\ WithinBudget'
           /\ \A k \in Keys : entries[k].opened => entries'[k].opened
  <1> DEFINE k == call[t].key
             e == Prune(entries)
  <1>1. /\ entries' = IF Probes(e[k]) THEN [e EXCEPT ![k].halfOpen = TRUE] ELSE e
        /\ streak' = streak
    BY Zenon DEF BeforeLoad
  <1>2. k \in Keys
    BY Zenon DEF CallersOK, Calls
  <1>3. entries \in Registries /\ streak \in [Keys -> 0 .. Threshold]
        /\ \A j \in Keys : Backed(entries[j], streak[j])
    BY Zenon DEF RegistryOK, OpenAfterStreak, Backed
  <1>4. Thinned(entries, e) /\ e \in Registries
    BY Zenon, <1>3, PruneThins DEF Thinned
  <1> HIDE DEF k, e
  <1>5. /\ \A j \in Keys : Backed(e[j], streak[j])
        /\ \A j \in Keys : entries[j].opened => e[j].opened
        /\ Tracked(e) \subseteq Tracked(entries)
    BY Zenon, <1>3, <1>4, ThinnedIsBacked
  <1> DEFINE p == [e[k] EXCEPT !.halfOpen = TRUE]
  <1>6. CASE ~Probes(e[k])
    <2>1. entries' = e
      BY Zenon, <1>1, <1>6
    <2>2. RegistryOK'
      BY Zenon, <2>1, <1>1, <1>3, <1>4, <1>5 DEF RegistryOK, OpenAfterStreak, Backed
    <2>3. WithinBudget'
      BY <2>1, <1>5, TrackedIsFinite, PolicyAssumption DEF WithinBudget
    <2> QED BY Zenon, <2>1, <2>2, <2>3, <1>5
  <1>7. CASE Probes(e[k])
    <2>1. entries' = [e EXCEPT ![k] = p]
      BY Zenon, <1>1, <1>7
    <2>2. e[k].opened /\ e[k] \in Breakers
      BY Zenon, <1>2, <1>4, <1>7, UntrackedIsClosed DEF Probes, Registries
    <2>3. p \in Breakers /\ p.opened /\ p.failures = e[k].failures /\ p.opened = e[k].opened
      BY Zenon, <2>2 DEF Breakers
    <2>4. Backed(p, streak[k])
      BY Zenon, <1>2, <1>5, <2>2, <2>3 DEF Backed
    <2> HIDE DEF p
    <2>5. entries' \in Registries /\ entries'[k] = p /\ \A j \in Keys : j # k => entries'[j] = e[j]
      BY Zenon, <2>1, <2>3, <1>2, <1>4 DEF Registries
    <2>6. \A j \in Keys : Backed(entries'[j], streak[j])
      BY Zenon, <2>4, <2>5, <1>5
    <2>7. RegistryOK'
      BY Zenon, <2>5, <2>6, <1>1, <1>3 DEF RegistryOK, OpenAfterStreak, Backed
    <2>8. Tracked(entries') \subseteq Tracked(entries)
      <3>1. p # Untracked /\ e[k] # Untracked
        BY Zenon, <2>2, <2>3, UntrackedIsClosed
      <3> QED BY Zenon, <3>1, <2>5, <1>5 DEF Tracked
    <2>9. WithinBudget'
      BY <2>8, TrackedIsFinite, PolicyAssumption DEF WithinBudget
    <2> QED BY Zenon, <2>3, <2>5, <2>7, <2>9, <1>5
  <1> QED BY Zenon, <1>6, <1>7

LEMMA SuccessOK ==
    ASSUME RegistryOK, CallersOK, WithinBudget, NEW l \in Loads, LoadSucceeds(l)
    PROVE  /\ RegistryOK' /\ WithinBudget'
           /\ \A k \in Keys : entries[k].opened => entries'[k].opened \/ k = load[l].key
  <1> DEFINE k == load[l].key
             e == Prune(entries)
  <1>1. entries' = [e EXCEPT ![k] = Untracked] /\ streak' = [streak EXCEPT ![k] = 0]
    BY Zenon DEF LoadSucceeds, Succeed
  <1>2. k \in Keys
    BY Zenon DEF CallersOK, LoadStates
  <1>3. entries \in Registries /\ streak \in [Keys -> 0 .. Threshold]
        /\ \A j \in Keys : Backed(entries[j], streak[j])
    BY Zenon DEF RegistryOK, OpenAfterStreak, Backed
  <1>4. Thinned(entries, e) /\ e \in Registries
    BY Zenon, <1>3, PruneThins DEF Thinned
  <1>5. k = load[l].key
    BY Zenon
  <1> HIDE DEF k, e
  <1>6. /\ \A j \in Keys : Backed(e[j], streak[j])
        /\ \A j \in Keys : entries[j].opened => e[j].opened
        /\ Tracked(e) \subseteq Tracked(entries)
    BY Zenon, <1>3, <1>4, ThinnedIsBacked
  <1>7. /\ entries' \in Registries /\ entries'[k] = Untracked
        /\ \A j \in Keys : j # k => entries'[j] = e[j]
    BY Zenon, <1>1, <1>2, <1>4 DEF Registries
  <1>8. /\ streak' \in [Keys -> 0 .. Threshold] /\ streak'[k] = 0
        /\ \A j \in Keys : j # k => streak'[j] = streak[j]
    BY <1>1, <1>2, <1>3, PolicyAssumption
  <1>9. \A j \in Keys : Backed(entries'[j], streak'[j])
    BY Zenon, <1>6, <1>7, <1>8, UntrackedIsClosed
  <1>10. RegistryOK'
    BY Zenon, <1>7, <1>8, <1>9 DEF RegistryOK, OpenAfterStreak, Backed
  <1>11. Tracked(entries') \subseteq Tracked(entries)
    BY Zenon, <1>6, <1>7 DEF Tracked
  <1>12. WithinBudget'
    BY <1>11, TrackedIsFinite, PolicyAssumption DEF WithinBudget
  <1> QED BY Zenon, <1>5, <1>6, <1>7, <1>10, <1>12

(* Room was made for a key that is not tracked: one slot is free. *)
LEMMA RoomIsFree ==
    ASSUME NEW e \in Registries, NEW k \in Keys, NEW r \in RoomFor(e, k),
           Cardinality(Tracked(e)) <= MaxTracked
    PROVE  /\ Cardinality(Tracked(r)) <= MaxTracked
           /\ r[k] = Untracked => Cardinality(Tracked(r)) < MaxTracked
  <1>1. MaxTracked \in Nat
    BY Zenon, PolicyAssumption
  <1>2. IsFiniteSet(Tracked(e)) /\ Cardinality(Tracked(e)) \in Nat
    BY Zenon, TrackedIsFinite
  <1>3. r[k] = e[k]
    BY Zenon, RoomKeepsOpen
  <1>4. CASE e[k] = Untracked /\ Cardinality(Tracked(e)) >= MaxTracked
    <2>1. PICK j \in EvictionCandidates(e) : r = [e EXCEPT ![j] = Untracked]
      BY Zenon, <1>4 DEF RoomFor
    <2>2. j \in Tracked(e)
      BY Zenon, <2>1 DEF EvictionCandidates
    <2>3. Tracked(r) = Tracked(e) \ {j}
      BY Zenon, <2>1, <2>2 DEF Tracked, Registries
    <2>4. Cardinality(Tracked(r)) = Cardinality(Tracked(e)) - 1
      BY Zenon, <2>2, <2>3, <1>2, FS_RemoveElement
    <2> QED BY <2>4, <1>1, <1>2
  <1>5. CASE ~(e[k] = Untracked /\ Cardinality(Tracked(e)) >= MaxTracked)
    <2>1. r = e
      BY Zenon, <1>5 DEF RoomFor
    <2> QED BY <2>1, <1>1, <1>2, <1>5
  <1> QED BY Zenon, <1>4, <1>5

LEMMA FailureOK ==
    ASSUME RegistryOK, CallersOK, WithinBudget, NEW l \in Loads, LoadFails(l)
    PROVE  /\ RegistryOK' /\ WithinBudget'
           /\ \A k \in Keys : entries[k].opened => entries'[k].opened
  <1> DEFINE k == load[l].key
             e == Prune(entries)
  <1>1. /\ \/ \E r \in RoomFor(e, k) : entries' = [r EXCEPT ![k] = CountFailure(r[k])]
           \/ RoomFor(e, k) = {} /\ entries' = e
        /\ streak' = [streak EXCEPT ![k] = Lesser(@ + 1, Threshold)]
    BY Zenon DEF LoadFails
  <1>2. k \in Keys
    BY Zenon DEF CallersOK, LoadStates
  <1>3. entries \in Registries /\ streak \in [Keys -> 0 .. Threshold]
        /\ \A j \in Keys : Backed(entries[j], streak[j])
    BY Zenon DEF RegistryOK, OpenAfterStreak, Backed
  <1>4. Thinned(entries, e) /\ e \in Registries
    BY Zenon, <1>3, PruneThins DEF Thinned
  <1> HIDE DEF k, e
  <1>5. /\ \A j \in Keys : Backed(e[j], streak[j])
        /\ \A j \in Keys : entries[j].opened => e[j].opened
        /\ Tracked(e) \subseteq Tracked(entries)
    BY Zenon, <1>3, <1>4, ThinnedIsBacked
  <1>6. Cardinality(Tracked(e)) <= MaxTracked
    BY <1>5, TrackedIsFinite, PolicyAssumption DEF WithinBudget
  <1>7. Lesser(streak[k] + 1, Threshold) \in 0 .. Threshold /\ streak[k] \in 0 .. Threshold
        /\ streak[k] <= Lesser(streak[k] + 1, Threshold)
    BY <1>2, <1>3, PolicyAssumption DEF Lesser
  <1>8. /\ streak' \in [Keys -> 0 .. Threshold] /\ streak'[k] = Lesser(streak[k] + 1, Threshold)
        /\ \A j \in Keys : j # k => streak'[j] = streak[j]
    BY Zenon, <1>1, <1>2, <1>3, <1>7
  <1>9. CASE RoomFor(e, k) = {} /\ entries' = e
    <2>1. Backed(e[k], streak'[k])
      <3>1. e[k].failures \in 0 .. Threshold
        BY Zenon, <1>2, <1>4, EntryTypes DEF Registries
      <3>2. Backed(e[k], streak[k])
        BY Zenon, <1>2, <1>5
      <3> QED BY <3>1, <3>2, <1>7, <1>8, PolicyAssumption DEF Backed
    <2>2. \A j \in Keys : Backed(entries'[j], streak'[j])
      BY Zenon, <1>5, <1>8, <1>9, <2>1
    <2>3. RegistryOK'
      BY Zenon, <1>4, <1>8, <1>9, <2>2 DEF RegistryOK, OpenAfterStreak, Backed
    <2>4. WithinBudget'
      BY Zenon, <1>6, <1>9 DEF WithinBudget
    <2> QED BY Zenon, <1>5, <1>9, <2>3, <2>4
  <1>10. ASSUME NEW r \in RoomFor(e, k), entries' = [r EXCEPT ![k] = CountFailure(r[k])]
         PROVE  /\ RegistryOK' /\ WithinBudget'
                /\ \A j \in Keys : entries[j].opened => entries'[j].opened
    <2> DEFINE c == CountFailure(r[k])
    <2>1. /\ r \in Registries /\ r[k] = e[k]
          /\ \A j \in Keys : r[j] = e[j] \/ (r[j] = Untracked /\ ~e[j].opened)
      BY <1>2, <1>4, RoomKeepsOpen
    <2>2. Thinned(e, r)
      BY Zenon, <2>1 DEF Thinned
    <2>3. /\ \A j \in Keys : Backed(r[j], streak[j])
          /\ \A j \in Keys : e[j].opened => r[j].opened
          /\ Tracked(r) \subseteq Tracked(e)
      BY Zenon, <2>2, <1>3, <1>4, <1>5, ThinnedIsBacked
    <2>4. r[k] \in Breakers \cup {Untracked}
      BY Zenon, <2>1, <1>2 DEF Registries
    <2>5. c \in Breakers /\ (r[k].opened => c.opened) /\ Backed(c, streak'[k])
      BY Zenon, <2>3, <2>4, <1>2, <1>7, <1>8, FailureIsCounted
    <2> HIDE DEF c
    <2>6. entries' \in Registries /\ entries'[k] = c /\ \A j \in Keys : j # k => entries'[j] = r[j]
      BY Zenon, <1>10, <2>1, <2>5, <1>2 DEF Registries, c
    <2>7. \A j \in Keys : Backed(entries'[j], streak'[j])
      BY Zenon, <2>3, <2>5, <2>6, <1>8
    <2>8. RegistryOK'
      BY Zenon, <2>6, <2>7, <1>8 DEF RegistryOK, OpenAfterStreak, Backed
    <2>9. WithinBudget'
      <3>1. /\ Cardinality(Tracked(r)) <= MaxTracked
            /\ r[k] = Untracked => Cardinality(Tracked(r)) < MaxTracked
        BY Zenon, <1>2, <1>4, <1>6, RoomIsFree
      <3>2. IsFiniteSet(Tracked(r)) /\ Cardinality(Tracked(r)) \in Nat /\ MaxTracked \in Nat
        BY Zenon, TrackedIsFinite, PolicyAssumption
      <3>3. Tracked(entries') = Tracked(r) \cup {k}
        BY Zenon, <2>5, <2>6, <1>2, UntrackedIsClosed DEF Tracked
      <3>4. CASE r[k] = Untracked
        <4>1. k \notin Tracked(r)
          BY Zenon, <3>4 DEF Tracked
        <4>2. Cardinality(Tracked(entries')) = Cardinality(Tracked(r)) + 1
          BY Zenon, <4>1, <3>2, <3>3, FS_AddElement
        <4> QED BY <4>2, <3>1, <3>2, <3>4 DEF WithinBudget
      <3>5. CASE r[k] # Untracked
        <4>1. Tracked(entries') = Tracked(r)
          BY Zenon, <3>3, <3>5, <1>2 DEF Tracked
        <4> QED BY Zenon, <4>1, <3>1 DEF WithinBudget
      <3> QED BY Zenon, <3>4, <3>5
    <2>10. \A j \in Keys : entries[j].opened => entries'[j].opened
      BY Zenon, <2>3, <2>5, <2>6, <1>5
    <2> QED BY Zenon, <2>8, <2>9, <2>10
  <1> QED BY Zenon, <1>1, <1>9, <1>10

LEMMA TickOK ==
    ASSUME RegistryOK, WithinBudget, Tick
    PROVE  /\ RegistryOK' /\ WithinBudget'
           /\ \A k \in Keys : entries[k].opened => entries'[k].opened
  <1> DEFINE Older(b) == IF b = Untracked THEN Untracked
                         ELSE [b EXCEPT !.age = Lesser(@ + 1, AgeBound)]
  <1>1. entries' = [k \in Keys |-> Older(entries[k])] /\ streak' = streak
    BY Zenon DEF Tick
  <1>2. entries \in Registries /\ streak \in [Keys -> 0 .. Threshold]
        /\ \A j \in Keys : Backed(entries[j], streak[j])
    BY Zenon DEF RegistryOK, OpenAfterStreak, Backed
  <1>3. AgeBound \in Nat
    BY Zenon, PolicyAssumption DEF AgeBound
  <1>4. ASSUME NEW b \in Breakers \cup {Untracked}
        PROVE  /\ Older(b) \in Breakers \cup {Untracked}
               /\ Older(b) = Untracked <=> b = Untracked
               /\ Older(b).opened = b.opened /\ Older(b).failures = b.failures
               /\ Older(b).halfOpen = b.halfOpen
    <2>1. CASE b = Untracked
      BY Zenon, <2>1
    <2>2. CASE b # Untracked
      <3>1. b \in Breakers /\ b.age \in 0 .. AgeBound
        BY Zenon, <2>2, EntryTypes
      <3>2. Lesser(b.age + 1, AgeBound) \in 0 .. AgeBound
        BY <3>1, <1>3 DEF Lesser
      <3>3. Older(b) \in Breakers
        BY Zenon, <3>1, <3>2, <2>2 DEF Breakers
      <3>4. Older(b) # Untracked
        BY Zenon, <3>3, UntrackedIsClosed
      <3>5. /\ Older(b).opened = b.opened /\ Older(b).failures = b.failures
            /\ Older(b).halfOpen = b.halfOpen
        BY Zenon, <3>1, <2>2 DEF Breakers
      <3> QED BY Zenon, <2>2, <3>3, <3>4, <3>5
    <2> QED BY Zenon, <2>1, <2>2
  <1> HIDE DEF Older
  <1>5. \A k \in Keys : entries[k] \in Breakers \cup {Untracked} /\ entries'[k] = Older(entries[k])
    BY Zenon, <1>1, <1>2 DEF Registries
  <1>6. entries' \in Registries
    BY Zenon, <1>1, <1>4, <1>5 DEF Registries
  <1>7. \A k \in Keys : Backed(entries'[k], streak[k])
    BY <1>2, <1>4, <1>5 DEF Backed
  <1>8. RegistryOK'
    BY Zenon, <1>1, <1>2, <1>6, <1>7 DEF RegistryOK, OpenAfterStreak, Backed
  <1>9. Tracked(entries') \subseteq Tracked(entries)
    BY Zenon, <1>4, <1>5 DEF Tracked
  <1>10. WithinBudget'
    BY <1>9, TrackedIsFinite, PolicyAssumption DEF WithinBudget
  <1> QED BY <1>4, <1>5, <1>8, <1>10

-----------------------------------------------------------------------------
(* Every step keeps the registry, and an open breaker stays open unless a   *)
(* load of its key succeeds.                                                *)
LEMMA RegistryStep ==
    ASSUME RegistryOK, CallersOK, WithinBudget, [Next]_vars
    PROVE  /\ RegistryOK' /\ WithinBudget'
           /\ \A k \in Keys : entries[k].opened /\ ~entries'[k].opened =>
                 \E l \in Loads : LoadSucceeds(l) /\ load[l].key = k
  <1> DEFINE Goal == /\ RegistryOK' /\ WithinBudget'
                     /\ \A k \in Keys : entries[k].opened /\ ~entries'[k].opened =>
                           \E l \in Loads : LoadSucceeds(l) /\ load[l].key = k
  <1>1. ASSUME UNCHANGED <<entries, streak>>
        PROVE  Goal
    BY Zenon, <1>1 DEF RegistryOK, OpenAfterStreak, WithinBudget, Tracked
  <1>2. ASSUME NEW t, NEW k \in Keys, SharedLoad(t, k)
        PROVE  Goal
    BY Zenon, <1>1, <1>2 DEF SharedLoad
  <1>3. ASSUME NEW t \in Tasks, CallerStep(t)
        PROVE  Goal
    <2>1. CASE BeforeLoad(t)
      BY Zenon, <2>1, BeforeLoadOK
    <2>2. CASE GetCurrent(t) \/ InsertOrGetCurrent(t) \/ AwaitLoad(t)
      BY Zenon, <2>2, <1>1 DEF GetCurrent, InsertOrGetCurrent, AwaitLoad, DropHandle, Join
    <2> QED BY Zenon, <2>1, <2>2, <1>3 DEF CallerStep
  <1>4. ASSUME NEW l \in Loads, LoadStep(l)
        PROVE  Goal
    <2>1. CASE LoadSucceeds(l)
      BY Zenon, <2>1, SuccessOK
    <2>2. CASE LoadFails(l)
      BY Zenon, <2>2, FailureOK
    <2>3. CASE FinishLoad(l)
      BY Zenon, <2>3, <1>1 DEF FinishLoad
    <2> QED BY Zenon, <2>1, <2>2, <2>3, <1>4 DEF LoadStep
  <1>5. ASSUME NEW t, Cancel(t)
        PROVE  Goal
    BY Zenon, <1>1, <1>5 DEF Cancel, DropHandle
  <1>6. ASSUME NEW k \in Keys, Invalidate(k)
        PROVE  Goal
    BY Zenon, <1>1, <1>6 DEF Invalidate
  <1>7. CASE Tick
    BY Zenon, <1>7, TickOK
  <1>8. CASE UNCHANGED vars
    BY Zenon, <1>1, <1>8 DEF vars
  <1> QED BY Zenon, <1>2, <1>3, <1>4, <1>5, <1>6, <1>7, <1>8 DEF Next

LEMMA Always == Spec => [](CallersOK /\ RegistryOK /\ WithinBudget)
  <1>1. Init => RegistryOK /\ WithinBudget
    <2> SUFFICES ASSUME Init PROVE RegistryOK /\ WithinBudget
      BY Zenon
    <2>1. entries \in Registries /\ streak \in [Keys -> 0 .. Threshold]
      BY PolicyAssumption DEF Init, Registries
    <2>2. \A k \in Keys : entries[k] = Untracked /\ streak[k] = 0
      BY Zenon DEF Init
    <2>3. \A k \in Keys : Backed(entries[k], streak[k])
      BY <2>2, UntrackedIsClosed
    <2>4. Tracked(entries) = {}
      BY Zenon, <2>2 DEF Tracked
    <2>5. Cardinality(Tracked(entries)) = 0
      BY Zenon, <2>4, FS_EmptySet
    <2> QED BY <2>1, <2>3, <2>5, PolicyAssumption DEF RegistryOK, OpenAfterStreak, Backed, WithinBudget
  <1>2. CallersOK /\ RegistryOK /\ WithinBudget /\ [Next]_vars => RegistryOK' /\ WithinBudget'
    BY Zenon, RegistryStep
  <1> QED BY <1>1, <1>2, CallersInit, CallersStep, PTL DEF Spec

(* Every variable keeps its type: a doubled backoff stays within the        *)
(* policy's bounds and a count of failures saturates (double_backoff,       *)
(* after_load_result).                                                      *)
THEOREM BreakerTypes == Spec => []TypeOK
  <1>1. CallersOK /\ RegistryOK => TypeOK
    BY Zenon DEF CallersOK, RegistryOK, Registries, TypeOK
  <1> QED BY <1>1, Always, PTL

(* The registry never tracks more than max_tracked_keys keys, whatever the  *)
(* order in which loads fail (after_load_result makes room first).          *)
THEOREM BreakerBudget == Spec => []WithinBudget
  BY Always, PTL

(* A breaker is open exactly when failure_threshold failures of its own key *)
(* in a row were counted, and only an open one is half open (before_load,   *)
(* after_load_result).                                                      *)
THEOREM BreakerIsEarned == Spec => []OpenAfterStreak
  <1>1. RegistryOK => OpenAfterStreak
    BY Zenon DEF RegistryOK
  <1> QED BY <1>1, Always, PTL

(* Neither the inactivity timeout nor the budget forgets an open breaker:   *)
(* only a success of its key does (prune_inactive_entries,                  *)
(* after_load_result).                                                      *)
THEOREM OpenBreakersSurvive == Spec => OpenSurvives
  <1>1. CallersOK /\ RegistryOK /\ WithinBudget /\ [Next]_vars =>
           [\A k \in Keys : entries[k].opened /\ ~entries'[k].opened =>
              \E l \in Loads : /\ load[l].key = k /\ load[l].at = "running"
                               /\ load'[l].at = "succeeded"]_vars
    <2> SUFFICES ASSUME CallersOK, RegistryOK, WithinBudget, [Next]_vars,
                        NEW k \in Keys, entries[k].opened, ~entries'[k].opened
                 PROVE  \E l \in Loads : /\ load[l].key = k /\ load[l].at = "running"
                                         /\ load'[l].at = "succeeded"
      BY Zenon
    <2>1. PICK l \in Loads : LoadSucceeds(l) /\ load[l].key = k
      BY Zenon, RegistryStep
    <2>2. load[l].at = "running" /\ load' = [load EXCEPT ![l].at = "succeeded"]
      BY Zenon, <2>1 DEF LoadSucceeds
    <2>3. load'[l].at = "succeeded"
      BY Zenon, <2>2 DEF CallersOK, LoadStates
    <2> QED BY Zenon, <2>1, <2>2, <2>3
  <1> QED BY <1>1, Always, PTL DEF Spec, OpenSurvives
=============================================================================
