-------------------------- MODULE FencedLockProofs --------------------------
(***************************************************************************)
(* The fenced lock for every number of keys, sessions and calls: the lock  *)
(* table is a fenced mutex, validated writes never go back, a held key can *)
(* always be reclaimed, and leases are kept until their deadline.          *)
(*                                                                         *)
(* Every method of the store does one of two things to the grants in       *)
(* force: it ends some of them (Shrinks) or it makes one (Grants).  A      *)
(* command of the service sweeps and then applies its method, so a step is *)
(* a shrinking followed by at most one grant (FenceStep); the theorems     *)
(* follow from that shape.                                                 *)
(***************************************************************************)
EXTENDS FencedLock, FiniteSetTheorems, TLAPS

SameHold(h, g) == h.owner = g.owner /\ h.fence = g.fence

Shrinks(tb, left) ==
    /\ left \in Tables
    /\ left.nextFence >= tb.nextFence
    /\ \A k \in Keys : left.locks[k] = Free \/ SameHold(left.locks[k], tb.locks[k])

Grants(tb, left, k, o) ==
    /\ left \in Tables
    /\ left.nextFence = tb.nextFence + 1
    /\ left.locks[k].owner = o /\ left.locks[k].fence = tb.nextFence
    /\ \A j \in Keys \ {k} : SameHold(left.locks[j], tb.locks[j])

FenceStep(tb, left) ==
    \E mid \in Tables :
        /\ Shrinks(tb, mid)
        /\ left = mid \/ \E k \in Keys, o \in Owners : Grants(mid, left, k, o)

Reclaimable(tb) ==
    \A k \in Keys : Held(tb, k) => tb.beats[tb.locks[k].owner.session] # Never

-----------------------------------------------------------------------------
(* The table operators.                                                    *)

\* A hold in a table is Free exactly when its fence is 0, and its owner is typed.
LEMMA HoldTypes ==
    ASSUME NEW tb \in Tables, NEW k \in Keys
    PROVE  /\ tb.locks[k] \in Holds \union {Free}
           /\ Held(tb, k) => /\ tb.locks[k] \in Holds
                             /\ tb.locks[k].owner \in Owners
                             /\ tb.locks[k].owner.session \in Sessions
           /\ ~Held(tb, k) => tb.locks[k] = Free
  <1>1. tb.locks[k] \in Holds \union {Free}
    BY Zenon DEF Tables
  <1>2. tb.locks[k] \in Holds => /\ tb.locks[k].owner \in Owners
                                 /\ tb.locks[k].owner.session \in Sessions
                                 /\ tb.locks[k].fence # 0
    BY Zenon DEF Holds, Owners
  <1>3. Free.fence = 0
    BY Zenon DEF Free
  <1> QED BY <1>1, <1>2, <1>3, SMTT(30) DEF Held

\* remove_heartbeat_if_unused touches heartbeats only, and only of sessions that
\* hold nothing.
LEMMA ForgetUnusedKeeps ==
    ASSUME NEW tb \in Tables, NEW S
    PROVE  /\ ForgetUnused(tb, S) \in Tables
           /\ ForgetUnused(tb, S).locks = tb.locks
           /\ ForgetUnused(tb, S).nextFence = tb.nextFence
           /\ Reclaimable(tb) => Reclaimable(ForgetUnused(tb, S))
  <1> DEFINE out == ForgetUnused(tb, S)
             beats == [s \in Sessions |->
                          IF s \in S \ SessionsOf(tb, Keys) THEN Never ELSE tb.beats[s]]
  <1>1. /\ out = [tb EXCEPT !.beats = beats]
        /\ tb.beats \in [Sessions -> Nat \union {Never}]
    BY Zenon DEF ForgetUnused, Tables
  <1>2. beats \in [Sessions -> Nat \union {Never}]
    BY Zenon, <1>1
  <1>3. out \in Tables /\ out.locks = tb.locks /\ out.nextFence = tb.nextFence
        /\ out.beats = beats
    BY Zenon, <1>1, <1>2 DEF Tables
  <1>4. ASSUME Reclaimable(tb), NEW k \in Keys, Held(out, k)
        PROVE  out.beats[out.locks[k].owner.session] # Never
    <2> DEFINE s == tb.locks[k].owner.session
    <2>1. Held(tb, k)
      BY Zenon, <1>3, <1>4 DEF Held
    <2>2. s \in Sessions /\ tb.beats[s] # Never
      BY Zenon, <2>1, <1>4, HoldTypes DEF Reclaimable
    <2>3. s \in SessionsOf(tb, Keys)
      BY Zenon, <2>1, <2>2 DEF SessionsOf, HeldBy
    <2> QED BY Zenon, <2>2, <2>3, <1>3
  <1> QED BY Zenon, <1>3, <1>4 DEF Reclaimable

\* A grant makes one hold with the next fence.
LEMMA GrantToGrants ==
    ASSUME NEW tb \in Tables, NEW k \in Keys, NEW o \in Owners,
           NEW lease \in Nat, NEW at \in Nat
    PROVE  /\ Grants(tb, GrantTo(tb, k, o, lease, at), k, o)
           /\ Reclaimable(tb) => Reclaimable(GrantTo(tb, k, o, lease, at))
  <1> DEFINE hold == [owner |-> o, fence |-> tb.nextFence, holds |-> 1,
                      deadline |-> at + lease]
             mid == [locks |-> [tb.locks EXCEPT ![k] = hold],
                     beats |-> [tb.beats EXCEPT ![o.session] = at],
                     nextFence |-> tb.nextFence + 1]
             out == GrantTo(tb, k, o, lease, at)
  <1>1. /\ tb.locks \in [Keys -> Holds \union {Free}]
        /\ tb.beats \in [Sessions -> Nat \union {Never}]
        /\ tb.nextFence \in Nat \ {0}
        /\ o.session \in Sessions
    BY Zenon DEF Tables, Owners
  <1>2. hold \in Holds
    BY <1>1 DEF Holds
  <1>3. mid \in Tables
    BY <1>1, <1>2 DEF Tables
  <1>4. out = ForgetUnused(mid, SessionsOf(tb, {k}) \ {o.session})
    BY Zenon DEF GrantTo
  <1>5. out \in Tables /\ out.locks = mid.locks /\ out.nextFence = mid.nextFence
    BY <1>3, <1>4, ForgetUnusedKeeps
  <1>6. Grants(tb, out, k, o)
    BY <1>1, <1>5 DEF Grants, SameHold
  <1>7. ASSUME Reclaimable(tb) PROVE Reclaimable(mid)
    <2> SUFFICES ASSUME NEW j \in Keys, Held(mid, j)
                 PROVE  mid.beats[mid.locks[j].owner.session] # Never
      BY Zenon DEF Reclaimable
    <2>1. CASE j = k
      BY <2>1, <1>1 DEF Never
    <2>2. CASE j # k
      <3>1. mid.locks[j] = tb.locks[j] /\ Held(tb, j)
        BY Zenon, <2>2, <1>1 DEF Held
      <3>2. /\ tb.locks[j].owner.session \in Sessions
            /\ tb.beats[tb.locks[j].owner.session] # Never
        BY Zenon, <3>1, <1>7, HoldTypes DEF Reclaimable
      <3> QED BY <3>1, <3>2, <1>1 DEF Never
    <2> QED BY Zenon, <2>1, <2>2
  <1>8. Reclaimable(mid) => Reclaimable(out)
    BY Zenon, <1>3, <1>4, ForgetUnusedKeeps
  <1> QED BY Zenon, <1>6, <1>7, <1>8

\* A re-entry keeps the grant: only the count and the deadline of the hold change.
LEMMA ReentryShrinks ==
    ASSUME NEW tb \in Tables, NEW k \in Keys, NEW o \in Owners,
           NEW lease \in Nat, NEW at \in Nat,
           Held(tb, k), tb.locks[k].owner = o
    PROVE  LET out == Reentry(tb, k, o, lease, at).table IN
           Shrinks(tb, out) /\ (Reclaimable(tb) => Reclaimable(out))
  <1> DEFINE hold == tb.locks[k]
             later == [owner |-> o, fence |-> hold.fence, holds |-> hold.holds + 1,
                       deadline |-> IF hold.deadline > at + lease THEN hold.deadline
                                                                  ELSE at + lease]
             out == [tb EXCEPT !.locks[k] = later, !.beats[o.session] = at]
  <1>1. /\ tb.locks \in [Keys -> Holds \union {Free}]
        /\ tb.beats \in [Sessions -> Nat \union {Never}]
        /\ tb.nextFence \in Nat \ {0}
        /\ o.session \in Sessions /\ hold \in Holds
    BY Zenon, HoldTypes DEF Tables, Owners
  <1>2. later \in Holds /\ SameHold(later, hold)
    BY <1>1 DEF Holds, SameHold
  <1> HIDE DEF later
  <1>3. /\ out.locks = [tb.locks EXCEPT ![k] = later]
        /\ out.beats = [tb.beats EXCEPT ![o.session] = at]
        /\ out.nextFence = tb.nextFence
        /\ out \in Tables
    BY Zenon, <1>1, <1>2 DEF Tables
  <1> HIDE DEF out
  <1>4. Shrinks(tb, out)
    BY <1>1, <1>2, <1>3 DEF Shrinks, SameHold
  <1>5. ASSUME Reclaimable(tb), NEW j \in Keys, Held(out, j)
        PROVE  out.beats[out.locks[j].owner.session] # Never
    <2>1. CASE j = k
      BY <2>1, <1>1, <1>2, <1>3 DEF Never, SameHold
    <2>2. CASE j # k
      <3>1. out.locks[j] = tb.locks[j] /\ Held(tb, j)
        BY Zenon, <2>2, <1>1, <1>3, <1>5 DEF Held
      <3>2. /\ tb.locks[j].owner.session \in Sessions
            /\ tb.beats[tb.locks[j].owner.session] # Never
        BY Zenon, <3>1, <1>5, HoldTypes DEF Reclaimable
      <3> QED BY <3>1, <3>2, <1>1, <1>3 DEF Never
    <2> QED BY Zenon, <2>1, <2>2
  <1>6. Shrinks(tb, tb)
    BY <1>1 DEF Shrinks, SameHold
  <1>7. Reentry(tb, k, o, lease, at).table \in {tb, out}
    BY Zenon DEF Reentry, later, out
  <1>8. Reclaimable(tb) => Reclaimable(out)
    BY Zenon, <1>5 DEF Reclaimable
  <1> QED BY Zenon, <1>4, <1>6, <1>7, <1>8

\* try_acquire_lock keeps the grants in force or makes one.
LEMMA TryAcquireSteps ==
    ASSUME NEW tb \in Tables, NEW k \in Keys, NEW o \in Owners,
           NEW lease \in Nat, NEW at \in Nat
    PROVE  LET out == TryAcquireLock(tb, k, o, lease, at).table IN
           /\ Shrinks(tb, out) \/ Grants(tb, out, k, o)
           /\ Reclaimable(tb) => Reclaimable(out)
  <1>1. CASE Held(tb, k) /\ ~Expired(tb, k, at) /\ tb.locks[k].owner = o
    BY Zenon, <1>1, ReentryShrinks DEF TryAcquireLock
  <1>2. CASE Held(tb, k) /\ ~Expired(tb, k, at) /\ tb.locks[k].owner # o
    <2>1. TryAcquireLock(tb, k, o, lease, at).table = tb
      BY Zenon, <1>2 DEF TryAcquireLock
    <2>2. Shrinks(tb, tb)
      BY DEF Shrinks, SameHold, Tables
    <2> QED BY Zenon, <2>1, <2>2
  <1>3. CASE ~(Held(tb, k) /\ ~Expired(tb, k, at))
    BY Zenon, <1>3, GrantToGrants DEF TryAcquireLock
  <1> QED BY Zenon, <1>1, <1>2, <1>3

\* renew_lease moves a deadline and a heartbeat.
LEMMA RenewShrinks ==
    ASSUME NEW tb \in Tables, NEW k \in Keys, NEW o \in Owners,
           NEW token, NEW deadline \in Nat
    PROVE  LET out == RenewLease(tb, k, o, token, deadline) IN
           Shrinks(tb, out) /\ (Reclaimable(tb) => Reclaimable(out))
  <1> DEFINE later == [tb.locks[k] EXCEPT !.deadline = deadline]
             out == [tb EXCEPT !.locks[k].deadline = deadline, !.beats[o.session] = deadline]
  <1>1. /\ tb.locks \in [Keys -> Holds \union {Free}]
        /\ tb.beats \in [Sessions -> Nat \union {Never}]
        /\ tb.nextFence \in Nat \ {0}
        /\ o.session \in Sessions
    BY Zenon DEF Tables, Owners
  <1>2. CASE Current(tb, k, o, token)
    <2>1. tb.locks[k] \in Holds /\ tb.locks[k].owner = o
      BY Zenon, <1>2, HoldTypes DEF Current
    <2>2. later \in Holds /\ SameHold(later, tb.locks[k])
      BY Zenon, <2>1 DEF Holds, SameHold
    <2>3. /\ out.locks = [tb.locks EXCEPT ![k] = later]
          /\ out.beats = [tb.beats EXCEPT ![o.session] = deadline]
          /\ out.nextFence = tb.nextFence
          /\ out \in Tables
      BY Zenon, <1>1, <2>2 DEF Tables
    <2> HIDE DEF later, out
    <2>4. Shrinks(tb, out)
      BY <1>1, <2>2, <2>3 DEF Shrinks, SameHold
    <2>5. ASSUME Reclaimable(tb), NEW j \in Keys, Held(out, j)
          PROVE  out.beats[out.locks[j].owner.session] # Never
      <3>1. CASE j = k
        BY <3>1, <1>1, <2>1, <2>2, <2>3 DEF Never, SameHold
      <3>2. CASE j # k
        <4>1. out.locks[j] = tb.locks[j] /\ Held(tb, j)
          BY Zenon, <3>2, <1>1, <2>3, <2>5 DEF Held
        <4>2. /\ tb.locks[j].owner.session \in Sessions
              /\ tb.beats[tb.locks[j].owner.session] # Never
          BY Zenon, <4>1, <2>5, HoldTypes DEF Reclaimable
        <4> QED BY <4>1, <4>2, <1>1, <2>3 DEF Never
      <3> QED BY Zenon, <3>1, <3>2
    <2>6. RenewLease(tb, k, o, token, deadline) = out
      BY Zenon, <1>2 DEF RenewLease, out
    <2>7. Reclaimable(tb) => Reclaimable(out)
      BY Zenon, <2>5 DEF Reclaimable
    <2> QED BY Zenon, <2>4, <2>6, <2>7
  <1>3. CASE ~Current(tb, k, o, token)
    <2>1. RenewLease(tb, k, o, token, deadline) = tb
      BY Zenon, <1>3 DEF RenewLease
    <2>2. Shrinks(tb, tb)
      BY <1>1 DEF Shrinks, SameHold
    <2> QED BY Zenon, <2>1, <2>2
  <1> QED BY Zenon, <1>2, <1>3

\* Ending holds makes no grant and keeps the other holds reclaimable.
LEMMA EndHoldsShrinks ==
    ASSUME NEW tb \in Tables, NEW K \in SUBSET Keys, NEW n \in Nat
    PROVE  LET out == EndHolds(tb, K, n) IN
           /\ Shrinks(tb, out) /\ (Reclaimable(tb) => Reclaimable(out))
           /\ \A k \in Keys : out.locks[k] = IF k \in K THEN Free ELSE tb.locks[k]
  <1> DEFINE locks == [k \in Keys |-> IF k \in K THEN Free ELSE tb.locks[k]]
             gone == [locks |-> locks, beats |-> tb.beats, nextFence |-> tb.nextFence + n]
             out == ForgetUnused(gone, SessionsOf(tb, K))
  <1>1. /\ tb.locks \in [Keys -> Holds \union {Free}]
        /\ tb.beats \in [Sessions -> Nat \union {Never}]
        /\ tb.nextFence \in Nat \ {0}
    BY Zenon DEF Tables
  <1>2. /\ locks \in [Keys -> Holds \union {Free}]
        /\ \A k \in Keys : locks[k] = IF k \in K THEN Free ELSE tb.locks[k]
    BY Zenon, <1>1
  <1> HIDE DEF locks
  <1>3. /\ gone \in Tables /\ gone.locks = locks /\ gone.beats = tb.beats
        /\ gone.nextFence = tb.nextFence + n
    BY <1>1, <1>2 DEF Tables
  <1> HIDE DEF gone
  <1>4. out \in Tables /\ out.locks = locks /\ out.nextFence = tb.nextFence + n
    BY Zenon, <1>3, ForgetUnusedKeeps
  <1>5. Shrinks(tb, out)
    BY <1>1, <1>2, <1>4 DEF Shrinks, SameHold
  <1>6. ASSUME Reclaimable(tb), NEW k \in Keys, Held(gone, k)
        PROVE  gone.beats[gone.locks[k].owner.session] # Never
    <2>1. gone.locks[k] = tb.locks[k] /\ Held(tb, k)
      BY <1>2, <1>3, <1>6 DEF Held, Free
    <2> QED BY Zenon, <2>1, <1>3, <1>6 DEF Reclaimable
  <1>7. Reclaimable(gone) => Reclaimable(out)
    BY Zenon, <1>3, ForgetUnusedKeeps
  <1>8. EndHolds(tb, K, n) = out
    BY Zenon DEF EndHolds, gone, locks
  <1>9. Reclaimable(tb) => Reclaimable(gone)
    BY Zenon, <1>6 DEF Reclaimable
  <1> HIDE DEF out
  <1> QED BY Zenon, <1>2, <1>4, <1>5, <1>7, <1>8, <1>9

\* The two sweeps, release, forced unlock and reset end holds and grant nothing.
LEMMA ExpireKeysShrinks ==
    ASSUME NEW tb \in Tables, NEW K \in SUBSET Keys
    PROVE  LET out == ExpireKeys(tb, K) IN
           /\ Shrinks(tb, out) /\ (Reclaimable(tb) => Reclaimable(out))
           /\ \A k \in Keys : out.locks[k] = IF k \in K THEN Free ELSE tb.locks[k]
  <1>1. Cardinality(K) \in Nat
    BY Zenon, LockAssumption, FS_Subset, FS_CardinalityType
  <1> QED BY <1>1, EndHoldsShrinks DEF ExpireKeys

LEMMA ExpireDueShrinks ==
    ASSUME NEW tb \in Tables, NEW at \in Nat
    PROVE  LET out == ExpireDue(tb, at) IN
           Shrinks(tb, out) /\ (Reclaimable(tb) => Reclaimable(out))
  BY Zenon, ExpireKeysShrinks DEF ExpireDue

LEMMA ExpireLostShrinks ==
    ASSUME NEW tb \in Tables, NEW at \in Nat
    PROVE  LET out == ExpireLostSessions(tb, at, MaxSilence) IN
           Shrinks(tb, out) /\ (Reclaimable(tb) => Reclaimable(out))
  <1> DEFINE lost == LostSessions(tb, at, MaxSilence)
             K == {k \in Keys : \E s \in lost : HeldBy(tb, k, s)}
             left == ExpireKeys(tb, K)
             beats == [s \in Sessions |-> IF s \in lost THEN Never ELSE left.beats[s]]
             out == [left EXCEPT !.beats = beats]
  <1> HIDE DEF lost
  <1>1. /\ Shrinks(tb, left) /\ left \in Tables
        /\ Reclaimable(tb) => Reclaimable(left)
        /\ \A k \in Keys : left.locks[k] = IF k \in K THEN Free ELSE tb.locks[k]
    BY ExpireKeysShrinks DEF Shrinks
  <1>2. \A k \in Keys : Held(left, k) => /\ left.locks[k].owner.session \in Sessions
                                         /\ left.locks[k].owner.session \notin lost
    <2> SUFFICES ASSUME NEW k \in Keys, Held(left, k)
                 PROVE  /\ left.locks[k].owner.session \in Sessions
                        /\ left.locks[k].owner.session \notin lost
      BY Zenon
    <2>1. k \notin K
      BY <1>1 DEF Held, Free
    <2>2. left.locks[k] = tb.locks[k] /\ Held(tb, k)
      BY Zenon, <2>1, <1>1 DEF Held
    <2>3. \A s \in lost : ~HeldBy(tb, k, s)
      BY Zenon, <2>1
    <2>4. tb.locks[k].owner.session \in Sessions
      BY Zenon, <2>2, HoldTypes
    <2> HIDE DEF left, K
    <2> QED BY Zenon, <2>2, <2>3, <2>4 DEF HeldBy
  <1> HIDE DEF left, K
  <1>3. left.beats \in [Sessions -> Nat \union {Never}]
    BY Zenon, <1>1 DEF Tables
  <1>4. beats \in [Sessions -> Nat \union {Never}]
    BY Zenon, <1>3
  <1>5. /\ out \in Tables /\ out.locks = left.locks /\ out.nextFence = left.nextFence
        /\ out.beats = beats
    BY Zenon, <1>1, <1>4 DEF Tables
  <1>6. Shrinks(tb, out)
    BY Zenon, <1>1, <1>5 DEF Shrinks
  <1>7. Reclaimable(left) => Reclaimable(out)
    BY <1>2, <1>5 DEF Reclaimable, Held
  <1>8. ExpireLostSessions(tb, at, MaxSilence) = out
    BY Zenon DEF ExpireLostSessions, left, K, lost
  <1> QED BY Zenon, <1>1, <1>6, <1>7, <1>8

LEMMA ReleaseShrinks ==
    ASSUME NEW tb \in Tables, NEW k \in Keys, NEW o \in Owners, NEW token
    PROVE  LET out == ReleaseLock(tb, k, o, token) IN
           Shrinks(tb, out) /\ (Reclaimable(tb) => Reclaimable(out))
  <1> DEFINE fewer == [tb.locks[k] EXCEPT !.holds = tb.locks[k].holds - 1]
             out == [tb EXCEPT !.locks[k].holds = tb.locks[k].holds - 1]
  <1>1. /\ tb.locks \in [Keys -> Holds \union {Free}]
        /\ tb.beats \in [Sessions -> Nat \union {Never}]
        /\ tb.nextFence \in Nat \ {0}
    BY Zenon DEF Tables
  <1>2. CASE ~Current(tb, k, o, token)
    <2>1. ReleaseLock(tb, k, o, token) = tb /\ Shrinks(tb, tb)
      BY <1>1, <1>2 DEF ReleaseLock, Shrinks, SameHold
    <2> QED BY Zenon, <2>1
  <1>3. CASE Current(tb, k, o, token) /\ tb.locks[k].holds > 1
    <2>1. tb.locks[k] \in Holds
      BY Zenon, <1>3, HoldTypes DEF Current
    <2>2. fewer \in Holds /\ SameHold(fewer, tb.locks[k])
      BY <1>3, <2>1 DEF Holds, SameHold
    <2>3. /\ out.locks = [tb.locks EXCEPT ![k] = fewer] /\ out.beats = tb.beats
          /\ out.nextFence = tb.nextFence /\ out \in Tables
      BY Zenon, <1>1, <2>2 DEF Tables
    <2> HIDE DEF fewer, out
    <2>4. Shrinks(tb, out)
      BY <1>1, <2>2, <2>3 DEF Shrinks, SameHold
    <2>5. ASSUME Reclaimable(tb) PROVE Reclaimable(out)
      <3>1. \A j \in Keys : SameHold(out.locks[j], tb.locks[j])
        BY Zenon, <1>1, <2>2, <2>3 DEF SameHold
      <3> QED BY Zenon, <3>1, <2>3, <2>5 DEF Reclaimable, Held, SameHold
    <2>6. ReleaseLock(tb, k, o, token) = out
      BY Zenon, <1>3 DEF ReleaseLock, out
    <2> QED BY Zenon, <2>4, <2>5, <2>6
  <1>4. CASE Current(tb, k, o, token) /\ ~(tb.locks[k].holds > 1)
    <2>1. ReleaseLock(tb, k, o, token) = EndHolds(tb, {k}, 0)
      BY Zenon, <1>4 DEF ReleaseLock
    <2> QED BY <2>1, EndHoldsShrinks
  <1> QED BY Zenon, <1>2, <1>3, <1>4

LEMMA ForceUnlockShrinks ==
    ASSUME NEW tb \in Tables, NEW k \in Keys
    PROVE  LET out == ForceUnlockKey(tb, k) IN
           Shrinks(tb, out) /\ (Reclaimable(tb) => Reclaimable(out))
  <1>1. Shrinks(tb, tb)
    BY DEF Shrinks, SameHold, Tables
  <1> QED BY <1>1, EndHoldsShrinks DEF ForceUnlockKey

LEMMA ResetShrinks ==
    ASSUME NEW tb \in Tables
    PROVE  LET out == ClearForDiagnosticReset(tb) IN Shrinks(tb, out) /\ Reclaimable(out)
  <1> DEFINE out == ClearForDiagnosticReset(tb)
  <1>1. tb.nextFence \in Nat \ {0}
    BY Zenon DEF Tables
  <1>2. out = [locks |-> [k \in Keys |-> Free], beats |-> [s \in Sessions |-> Never],
               nextFence |-> tb.nextFence + 1]
    BY DEF ClearForDiagnosticReset, EmptyTable
  <1>3. out \in Tables
    BY <1>1, <1>2 DEF Tables
  <1> QED BY <1>1, <1>2, <1>3 DEF Shrinks, Reclaimable, Held, Free

-----------------------------------------------------------------------------
(* The steps of the specification.                                         *)

LEMMA ShrinksTwice ==
    ASSUME NEW a \in Tables, NEW b \in Tables, NEW c, Shrinks(a, b), Shrinks(b, c)
    PROVE  Shrinks(a, c)
  <1>1. c \in Tables /\ c.nextFence >= a.nextFence
    BY DEF Shrinks, Tables
  <1>2. ASSUME NEW k \in Keys PROVE c.locks[k] = Free \/ SameHold(c.locks[k], a.locks[k])
    <2>1. CASE b.locks[k] = Free
      <3>1. c.locks[k] = Free \/ c.locks[k].fence = 0
        BY <2>1 DEF Shrinks, SameHold, Free
      <3> QED BY Zenon, <3>1, <1>1, HoldTypes DEF Held
    <2>2. CASE SameHold(b.locks[k], a.locks[k])
      BY Zenon, <2>2 DEF Shrinks, SameHold
    <2> QED BY Zenon, <2>1, <2>2 DEF Shrinks
  <1> QED BY Zenon, <1>1, <1>2 DEF Shrinks

\* The table a call starts from is the present one with some holds ended.
LEMMA SweptShrinks ==
    ASSUME TypeOK, NEW at \in Nat
    PROVE  /\ Swept(at) \in Tables /\ Shrinks(table, Swept(at))
           /\ Reclaimable(table) => Reclaimable(Swept(at))
  <1>1. table \in Tables
    BY Zenon DEF TypeOK
  <1>2. Shrinks(table, table)
    BY <1>1 DEF Shrinks, SameHold, Tables
  <1>3. /\ Shrinks(table, ExpireDue(table, at))
        /\ Reclaimable(table) => Reclaimable(ExpireDue(table, at))
    BY Zenon, <1>1, ExpireDueShrinks
  <1>4. Shrinks(table, Swept(at)) /\ (Reclaimable(table) => Reclaimable(Swept(at)))
    BY Zenon, <1>2, <1>3 DEF Swept
  <1> QED BY Zenon, <1>4 DEF Shrinks

\* Shrinking after the sweep is a fence step, and so is a grant after it.
LEMMA SweepThen ==
    ASSUME TypeOK, NEW at \in Nat, NEW out,
           Shrinks(Swept(at), out) \/ \E k \in Keys, o \in Owners : Grants(Swept(at), out, k, o)
    PROVE  FenceStep(table, out)
  <1>1. table \in Tables
    BY Zenon DEF TypeOK
  <1>2. Swept(at) \in Tables /\ Shrinks(table, Swept(at))
    BY Zenon, SweptShrinks
  <1>3. CASE Shrinks(Swept(at), out)
    <2>1. Shrinks(table, out) /\ out \in Tables
      BY Zenon, <1>1, <1>2, <1>3, ShrinksTwice DEF Shrinks
    <2> QED BY Zenon, <2>1 DEF FenceStep
  <1>4. CASE \E k \in Keys, o \in Owners : Grants(Swept(at), out, k, o)
    BY Zenon, <1>2, <1>4 DEF FenceStep
  <1> QED BY Zenon, <1>3, <1>4

\* What every step does, a validation apart.
Moves ==
    /\ FenceStep(table, table') /\ (Reclaimable(table) => Reclaimable(table'))
    /\ written' = written

LEMMA ShrinkingMoves ==
    ASSUME TypeOK, Shrinks(table, table'), Reclaimable(table) => Reclaimable(table'),
           written' = written
    PROVE  Moves
  BY Zenon DEF Moves, FenceStep, Shrinks

LEMMA TryLockMoves ==
    ASSUME TypeOK, NEW k \in Keys, NEW o \in Owners, NEW lease \in Leases, NEW at \in Nat,
           TryLock(k, o, lease, at)
    PROVE  Moves
  <1> DEFINE out == TryAcquireLock(Swept(at), k, o, lease, at).table
  <1>1. lease \in Nat
    BY Zenon, LockAssumption
  <1>2. Swept(at) \in Tables /\ (Reclaimable(table) => Reclaimable(Swept(at)))
    BY Zenon, SweptShrinks
  <1>3. /\ Shrinks(Swept(at), out) \/ Grants(Swept(at), out, k, o)
        /\ Reclaimable(Swept(at)) => Reclaimable(out)
    BY Zenon, <1>1, <1>2, TryAcquireSteps
  <1>4. table' = out /\ written' = written
    BY Zenon DEF TryLock
  <1> HIDE DEF out
  <1>5. FenceStep(table, out)
    BY Zenon, <1>3, SweepThen
  <1> QED BY Zenon, <1>2, <1>3, <1>4, <1>5 DEF Moves

\* Every step is a fence step, or a validation that leaves the table alone.
LEMMA StepShape ==
    ASSUME TypeOK, Next
    PROVE  \/ Moves
           \/ /\ table' = table
              /\ \E k \in Keys : /\ Held(table, k)
                                 /\ written' = [written EXCEPT ![k] = table.locks[k].fence]
  <1>t. table \in Tables /\ now \in Nat /\ Times \subseteq Nat /\ CallTimes \subseteq Nat
    BY LockAssumption DEF TypeOK, Times, CallTimes
  <1>1. ASSUME NEW lease \in Leases, Retry(lease) PROVE Moves
    BY <1>t, <1>1, TryLockMoves, LockAssumption DEF Retry
  <1>2. CASE Reset
    BY Zenon, <1>t, <1>2, ResetShrinks, ShrinkingMoves DEF Reset
  <1>3. ASSUME NEW at \in Times \union {now}, Sweep(at) PROVE Moves
    BY Zenon, <1>t, <1>3, ExpireDueShrinks, ShrinkingMoves DEF Sweep
  <1>4. ASSUME NEW at \in Times, NEW s \in Sessions, RecordSessionHeartbeat(s, at)
        PROVE  Moves
    <2> DEFINE out == [table EXCEPT !.beats[s] = at]
    <2>1. /\ table.locks \in [Keys -> Holds \union {Free}]
          /\ table.beats \in [Sessions -> Nat \union {Never}] /\ at \in Nat
          /\ table.nextFence \in Nat
      BY Zenon, <1>t DEF Tables
    <2>2. /\ out \in Tables /\ out.locks = table.locks /\ out.nextFence = table.nextFence
          /\ out.beats = [table.beats EXCEPT ![s] = at]
      BY Zenon, <1>t, <2>1 DEF Tables
    <2>3. Shrinks(table, out)
      BY <2>1, <2>2 DEF Shrinks, SameHold
    <2>4. Reclaimable(table) => Reclaimable(out)
      BY <2>1, <2>2 DEF Reclaimable, Held, Never
    <2>5. table' = out /\ written' = written
      BY Zenon, <1>4 DEF RecordSessionHeartbeat
    <2> QED BY Zenon, <2>3, <2>4, <2>5, ShrinkingMoves
  <1>5. ASSUME NEW at \in Times, SweepLostSessions(at) PROVE Moves
    BY Zenon, <1>t, <1>5, ExpireLostShrinks, ShrinkingMoves DEF SweepLostSessions
  <1>6. ASSUME NEW k \in Keys, NEW at \in CallTimes, ForceUnlock(k, at) PROVE Moves
    <2>1. Swept(at) \in Tables /\ (Reclaimable(table) => Reclaimable(Swept(at)))
      BY Zenon, <1>t, SweptShrinks
    <2>2. table' = ForceUnlockKey(Swept(at), k) /\ written' = written
      BY Zenon, <1>6 DEF ForceUnlock
    <2>3. Shrinks(Swept(at), table') /\ (Reclaimable(Swept(at)) => Reclaimable(table'))
      BY Zenon, <2>1, <2>2, ForceUnlockShrinks
    <2>4. FenceStep(table, table')
      BY Zenon, <1>t, <2>3, SweepThen
    <2> QED BY Zenon, <2>1, <2>2, <2>3, <2>4 DEF Moves
  <1>7. ASSUME NEW k \in Keys, NEW o \in Owners, NEW lease \in Leases, NEW at \in CallTimes,
               TryLock(k, o, lease, at) \/ ForceAcquireLock(k, o, lease, at)
        PROVE  Moves
    <2>1. CASE TryLock(k, o, lease, at)
      BY Zenon, <1>t, <2>1, TryLockMoves
    <2>2. CASE ForceAcquireLock(k, o, lease, at)
      <3>1. Swept(at) = table /\ table' = GrantTo(table, k, o, lease, at) /\ written' = written
        BY Zenon, <2>2 DEF ForceAcquireLock, Swept, Embedded
      <3>2. Grants(table, table', k, o) /\ (Reclaimable(table) => Reclaimable(table'))
        BY Zenon, <1>t, <3>1, GrantToGrants, LockAssumption
      <3>3. FenceStep(table, table')
        BY Zenon, <1>t, <3>1, <3>2, SweepThen
      <3> QED BY Zenon, <3>1, <3>2, <3>3 DEF Moves
    <2> QED BY Zenon, <1>7, <2>1, <2>2
  <1>8. ASSUME NEW k \in Keys, NEW token \in presented, ValidateFenceToken(k, token)
        PROVE  /\ table' = table
               /\ \E j \in Keys : /\ Held(table, j)
                                  /\ written' = [written EXCEPT ![j] = table.locks[j].fence]
    BY Zenon, <1>8 DEF ValidateFenceToken
  <1>9. ASSUME NEW k \in Keys, NEW o \in Owners, NEW token \in presented, NEW at \in CallTimes,
               \/ Unlock(k, o, token, at)
               \/ \E deadline \in Times \union {at + lease : lease \in Leases} :
                     Renew(k, o, token, deadline, at)
        PROVE  Moves
    <2>1. Swept(at) \in Tables /\ (Reclaimable(table) => Reclaimable(Swept(at)))
      BY Zenon, <1>t, SweptShrinks
    <2>2. CASE Unlock(k, o, token, at)
      <3>1. table' = ReleaseLock(Swept(at), k, o, token) /\ written' = written
        BY Zenon, <2>2 DEF Unlock
      <3>2. Shrinks(Swept(at), table') /\ (Reclaimable(Swept(at)) => Reclaimable(table'))
        BY Zenon, <2>1, <3>1, ReleaseShrinks
      <3>3. FenceStep(table, table')
        BY Zenon, <1>t, <3>2, SweepThen
      <3> QED BY Zenon, <2>1, <3>1, <3>2, <3>3 DEF Moves
    <2>3. ASSUME NEW deadline \in Times \union {at + lease : lease \in Leases},
                 Renew(k, o, token, deadline, at)
          PROVE  Moves
      <3>0. deadline \in Nat
        BY <1>t, LockAssumption
      <3>1. table' = RenewLease(Swept(at), k, o, token, deadline) /\ written' = written
        BY Zenon, <2>3 DEF Renew
      <3>2. Shrinks(Swept(at), table') /\ (Reclaimable(Swept(at)) => Reclaimable(table'))
        BY Zenon, <2>1, <3>0, <3>1, RenewShrinks
      <3>3. FenceStep(table, table')
        BY Zenon, <1>t, <3>2, SweepThen
      <3> QED BY Zenon, <2>1, <3>1, <3>2, <3>3 DEF Moves
    <2> QED BY Zenon, <1>9, <2>2, <2>3
  <1> QED BY <1>1, <1>2, <1>3, <1>4, <1>5, <1>6, <1>7, <1>8, <1>9, SMTT(30) DEF Next

-----------------------------------------------------------------------------
(* The invariant and the theorems.                                         *)

\* Every fence in force, and every token that passed validation, was taken from the
\* sequence; a hold's fence is not below what its key last validated.
LockInv ==
    /\ TypeOK
    /\ HoldersAreReclaimable
    /\ \A k \in Keys : table.locks[k].fence < table.nextFence
    /\ \A k \in Keys : written[k] < table.nextFence
    /\ \A k \in Keys : Held(table, k) => written[k] <= table.locks[k].fence

LEMMA LocalsTyped ==
    ASSUME TypeOK, Next
    PROVE  /\ surface' \in {"embedded", "service"}
           /\ now' \in Nat /\ calls' \in Nat /\ waiting' \in BOOLEAN
           /\ presented' \in SUBSET Nat
  <1>t. /\ table \in Tables /\ now \in Nat /\ Times \subseteq Nat /\ CallTimes \subseteq Nat
        /\ table.nextFence \in Nat /\ calls \in Nat /\ presented \in SUBSET Nat
        /\ waiting \in BOOLEAN /\ surface \in {"embedded", "service"}
        /\ now + 1 \in Nat /\ calls + 1 \in Nat
    BY LockAssumption DEF TypeOK, Times, CallTimes, Tables
  <1>1. ASSUME NEW k \in Keys, NEW o \in Owners, NEW lease \in Leases, NEW at \in Nat,
               TryLock(k, o, lease, at)
        PROVE  /\ surface' = surface /\ now' \in Nat /\ waiting' \in BOOLEAN
               /\ presented' \in SUBSET Nat
    <2> DEFINE tb == Swept(at)
               outcome == TryAcquireLock(tb, k, o, lease, at)
    <2>1. tb \in Tables
      BY Zenon, SweptShrinks
    <2>2. outcome.token \in {0, tb.locks[k].fence, tb.nextFence}
      BY Zenon DEF TryAcquireLock, Reentry
    <2>3. tb.locks[k].fence \in Nat /\ tb.nextFence \in Nat
      <3>1. tb.locks[k] \in Holds \union {Free} /\ tb.nextFence \in Nat
        BY Zenon, <2>1 DEF Tables
      <3> QED BY <3>1 DEF Holds, Free
    <2> HIDE DEF outcome
    <2>4. /\ presented' = presented \union ({outcome.token} \ {0})
          /\ waiting' = (waiting /\ ~(<<o, k>> = <<Waiter, WaitKey>> /\ outcome.token # 0))
          /\ surface' = surface /\ now' = at
      BY Zenon, <1>1 DEF TryLock, Clock, outcome
    <2>5. presented' \in SUBSET Nat
      BY Zenon, <2>2, <2>3, <2>4, <1>t
    <2> QED BY Zenon, <2>4, <2>5
  <1>2. ASSUME NEW lease \in Leases, Retry(lease)
        PROVE  /\ surface' = surface /\ now' \in Nat /\ waiting' \in BOOLEAN
               /\ presented' \in SUBSET Nat /\ calls' = calls
    BY Zenon, <1>1, <1>2, <1>t, LockAssumption DEF Retry
  <1>3. ASSUME NEW at \in Nat, Clock(at) PROVE now' \in Nat
    BY Zenon, <1>3 DEF Clock
  <1>4. CASE Reset
    BY Zenon, <1>4, <1>t DEF Reset, Counted
  <1>5. ASSUME NEW at \in Times \union {now}, Sweep(at)
        PROVE  now' \in Nat /\ calls' = calls + 1
               /\ UNCHANGED <<surface, presented, waiting>>
    BY Zenon, <1>5, <1>t DEF Sweep, Counted, Clock
  <1>6. ASSUME NEW at \in Times, SweepLostSessions(at) \/ \E s \in Sessions : RecordSessionHeartbeat(s, at)
        PROVE  now' \in Nat /\ calls' = calls + 1
               /\ UNCHANGED <<surface, presented, waiting>>
    BY Zenon, <1>6, <1>3, <1>t DEF SweepLostSessions, RecordSessionHeartbeat, Counted
  <1>7. ASSUME NEW k \in Keys, NEW at \in CallTimes,
               \/ ForceUnlock(k, at)
               \/ \E o \in Owners, token \in presented :
                     \/ Unlock(k, o, token, at)
                     \/ \E deadline \in Times \union {at + lease : lease \in Leases} :
                           Renew(k, o, token, deadline, at)
        PROVE  now' \in Nat /\ calls' = calls + 1
               /\ UNCHANGED <<surface, presented, waiting>>
    <2>0. at \in Nat
      BY Zenon, <1>t
    <2>1. Clock(at) /\ Counted /\ UNCHANGED <<surface, presented, waiting>>
      <3>1. CASE ForceUnlock(k, at)
        BY Zenon, <3>1 DEF ForceUnlock
      <3>2. ASSUME NEW o \in Owners, NEW token \in presented, Unlock(k, o, token, at)
            PROVE  Clock(at) /\ Counted /\ UNCHANGED <<surface, presented, waiting>>
        BY Zenon, <3>2 DEF Unlock
      <3>3. ASSUME NEW o \in Owners, NEW token \in presented, NEW deadline,
                   Renew(k, o, token, deadline, at)
            PROVE  Clock(at) /\ Counted /\ UNCHANGED <<surface, presented, waiting>>
        BY Zenon, <3>3 DEF Renew
      <3> QED BY Zenon, <1>7, <3>1, <3>2, <3>3
    <2> QED BY Zenon, <2>0, <2>1, <1>3 DEF Counted
  <1>8. ASSUME NEW k \in Keys, NEW o \in Owners, NEW lease \in Leases, NEW at \in CallTimes,
               ForceAcquireLock(k, o, lease, at)
        PROVE  /\ now' \in Nat /\ calls' = calls + 1 /\ presented' \in SUBSET Nat
               /\ UNCHANGED <<surface, waiting>>
    BY Zenon, <1>8, <1>3, <1>t DEF ForceAcquireLock, Counted
  <1>9. ASSUME NEW k \in Keys, NEW token \in presented, ValidateFenceToken(k, token)
        PROVE  now' \in Nat /\ calls' = calls + 1
               /\ UNCHANGED <<surface, presented, waiting>>
    BY Zenon, <1>9, <1>t DEF ValidateFenceToken, Counted
  <1>10. ASSUME NEW k \in Keys, NEW o \in Owners, NEW lease \in Leases, NEW at \in CallTimes,
                TryLock(k, o, lease, at), Counted
         PROVE  /\ surface' = surface /\ now' \in Nat /\ waiting' \in BOOLEAN
                /\ presented' \in SUBSET Nat /\ calls' = calls + 1
    BY Zenon, <1>10, <1>1, <1>t DEF Counted
  <1> QED
    BY Zenon, <1>t, <1>2, <1>4, <1>5, <1>6, <1>7, <1>8, <1>9, <1>10 DEF Next, Reset, Counted

\* A fence step keeps what LockInv says of fences.
LEMMA FenceStepKeeps ==
    ASSUME NEW tb \in Tables, NEW left, NEW w \in [Keys -> Nat], FenceStep(tb, left),
           \A k \in Keys : tb.locks[k].fence < tb.nextFence,
           \A k \in Keys : w[k] < tb.nextFence,
           \A k \in Keys : Held(tb, k) => w[k] <= tb.locks[k].fence
    PROVE  /\ left \in Tables
           /\ \A k \in Keys : left.locks[k].fence < left.nextFence
           /\ \A k \in Keys : w[k] < left.nextFence
           /\ \A k \in Keys : Held(left, k) => w[k] <= left.locks[k].fence
  <1>f. \A a \in Tables : /\ a.nextFence \in Nat \ {0}
                          /\ \A k \in Keys : a.locks[k].fence \in Nat
    <2> SUFFICES ASSUME NEW a \in Tables, NEW k \in Keys
                 PROVE  a.nextFence \in Nat \ {0} /\ a.locks[k].fence \in Nat
      BY Zenon DEF Tables
    <2>1. a.locks[k] \in Holds \union {Free} /\ a.nextFence \in Nat \ {0}
      BY Zenon DEF Tables
    <2> QED BY <2>1 DEF Holds, Free
  <1>1. PICK mid \in Tables :
             /\ Shrinks(tb, mid)
             /\ left = mid \/ \E k \in Keys, o \in Owners : Grants(mid, left, k, o)
    BY Zenon DEF FenceStep
  <1>2. ASSUME NEW k \in Keys
        PROVE  /\ mid.locks[k].fence < mid.nextFence /\ w[k] < mid.nextFence
               /\ Held(mid, k) => w[k] <= mid.locks[k].fence
    <2>1. mid.nextFence >= tb.nextFence
      BY Zenon, <1>1 DEF Shrinks
    <2>2. mid.locks[k].fence = 0 \/ mid.locks[k].fence = tb.locks[k].fence
      BY <1>1 DEF Shrinks, SameHold, Free
    <2>3. /\ mid.nextFence \in Nat /\ tb.nextFence \in Nat /\ tb.locks[k].fence \in Nat
          /\ w[k] \in Nat /\ tb.locks[k].fence < tb.nextFence /\ w[k] < tb.nextFence
          /\ tb.locks[k].fence # 0 => w[k] <= tb.locks[k].fence
          /\ 0 < tb.nextFence
      BY <1>f DEF Held
    <2>4. mid.locks[k].fence < mid.nextFence /\ w[k] < mid.nextFence
      BY <2>1, <2>2, <2>3, SMTT(30)
    <2>5. mid.locks[k].fence # 0 => w[k] <= mid.locks[k].fence
      BY <2>2, <2>3, SMTT(30)
    <2> QED BY Zenon, <2>4, <2>5 DEF Held
  <1>3. ASSUME NEW k \in Keys, NEW o \in Owners, Grants(mid, left, k, o), NEW j \in Keys
        PROVE  /\ left \in Tables
               /\ left.locks[j].fence < left.nextFence /\ w[j] < left.nextFence
               /\ Held(left, j) => w[j] <= left.locks[j].fence
    <2>1. left.nextFence = mid.nextFence + 1
      BY Zenon, <1>3 DEF Grants
    <2>2. left.locks[j].fence = mid.nextFence \/ left.locks[j].fence = mid.locks[j].fence
      BY Zenon, <1>3 DEF Grants, SameHold
    <2>3. left \in Tables
      BY Zenon, <1>3 DEF Grants
    <2>4. /\ mid.nextFence \in Nat /\ mid.locks[j].fence \in Nat /\ w[j] \in Nat
          /\ mid.locks[j].fence < mid.nextFence /\ w[j] < mid.nextFence
          /\ mid.locks[j].fence # 0 => w[j] <= mid.locks[j].fence
      BY Zenon, <1>2, <1>f DEF Held
    <2>5. left.locks[j].fence < left.nextFence /\ w[j] < left.nextFence
      BY <2>1, <2>2, <2>4, SMTT(30)
    <2>6. left.locks[j].fence # 0 => w[j] <= left.locks[j].fence
      BY <2>2, <2>4, SMTT(30)
    <2> QED BY Zenon, <2>3, <2>5, <2>6 DEF Held
  <1>4. CASE left = mid
    BY Zenon, <1>2, <1>4
  <1>5. CASE \E k \in Keys, o \in Owners : Grants(mid, left, k, o)
    <2>1. left \in Tables
      BY Zenon, <1>5 DEF Grants
    <2> QED BY Zenon, <1>3, <1>5, <2>1
  <1> QED BY Zenon, <1>1, <1>4, <1>5

LEMMA LockInvInit == Init => LockInv
  <1> SUFFICES ASSUME Init PROVE LockInv
    BY Zenon
  <1>1. EmptyTable \in Tables
    BY DEF EmptyTable, Tables
  <1>2. \A k \in Keys : EmptyTable.locks[k] = Free
    BY Zenon DEF EmptyTable
  <1>3. TypeOK
    BY Zenon, <1>1, LockAssumption DEF Init, TypeOK
  <1>4. EmptyTable.nextFence = 1 /\ Free.fence = 0
    BY Zenon DEF EmptyTable, Free
  <1> QED
    BY <1>2, <1>3, <1>4 DEF Init, LockInv, HoldersAreReclaimable, Held

LEMMA LockInvStep == LockInv /\ [Next]_vars => LockInv'
  <1> SUFFICES ASSUME LockInv, [Next]_vars PROVE LockInv'
    BY Zenon
  <1>t. /\ TypeOK /\ table \in Tables /\ written \in [Keys -> Nat]
        /\ HoldersAreReclaimable <=> Reclaimable(table)
        /\ HoldersAreReclaimable' <=> Reclaimable(table')
    BY Zenon DEF LockInv, TypeOK, HoldersAreReclaimable, Reclaimable, Held
  <1>1. CASE Next
    <2>1. /\ surface' \in {"embedded", "service"}
          /\ now' \in Nat /\ calls' \in Nat /\ waiting' \in BOOLEAN
          /\ presented' \in SUBSET Nat
      BY Zenon, <1>1, <1>t, LocalsTyped
    <2>2. CASE Moves
      <3>1. /\ table' \in Tables
            /\ \A k \in Keys : table'.locks[k].fence < table'.nextFence
            /\ \A k \in Keys : written[k] < table'.nextFence
            /\ \A k \in Keys : Held(table', k) => written[k] <= table'.locks[k].fence
        BY Zenon, <2>2, <1>t, FenceStepKeeps DEF Moves, LockInv
      <3> QED BY Zenon, <3>1, <2>1, <2>2, <1>t DEF Moves, LockInv, TypeOK, Held
    <2>3. ASSUME table' = table,
                 NEW k \in Keys, Held(table, k),
                 written' = [written EXCEPT ![k] = table.locks[k].fence]
          PROVE  LockInv'
      <3>1. table.locks[k].fence \in Nat /\ table.locks[k].fence < table.nextFence
        <4>1. table.locks[k] \in Holds
          BY Zenon, <1>t, <2>3, HoldTypes
        <4> QED BY Zenon, <4>1 DEF Holds, LockInv
      <3>2. written' \in [Keys -> Nat]
        BY Zenon, <2>3, <3>1, <1>t
      <3>3. \A j \in Keys : /\ written'[j] < table.nextFence
                            /\ Held(table, j) => written'[j] <= table.locks[j].fence
        BY <2>3, <3>1, <1>t DEF LockInv
      <3> QED BY <3>2, <3>3, <2>1, <2>3, <1>t, SMTT(30) DEF LockInv, TypeOK, Held
    <2> QED BY Zenon, <1>1, <1>t, <2>2, <2>3, StepShape
  <1>2. CASE UNCHANGED vars
    BY <1>2, SMTT(30) DEF vars, LockInv, TypeOK, HoldersAreReclaimable, Held
  <1> QED BY Zenon, <1>1, <1>2

\* The lock table stays well formed.
THEOREM LockTypes == Spec => []TypeOK
  <1>1. LockInv => TypeOK
    BY Zenon DEF LockInv
  <1> QED BY <1>1, LockInvInit, LockInvStep, PTL DEF Spec

\* Every held key has a heartbeat record, so the session sweep can reclaim it.
THEOREM Reclaim == Spec => []HoldersAreReclaimable
  <1>1. LockInv => HoldersAreReclaimable
    BY Zenon DEF LockInv
  <1> QED BY <1>1, LockInvInit, LockInvStep, PTL DEF Spec

\* Tokens that pass validation never go back, for every number of keys, sessions and
\* calls and every sequence of times.
THEOREM FencedWrites == Spec => WritesAreFenced
  <1>1. LockInv /\ [Next]_vars => [\A k \in Keys : written'[k] >= written[k]]_vars
    <2> SUFFICES ASSUME LockInv, Next, NEW k \in Keys PROVE written'[k] >= written[k]
      BY Zenon DEF vars
    <2>t. TypeOK /\ table \in Tables /\ written \in [Keys -> Nat]
      BY Zenon DEF LockInv, TypeOK
    <2>1. CASE written' = written
      BY <2>1, <2>t
    <2>2. ASSUME NEW j \in Keys, Held(table, j),
                 written' = [written EXCEPT ![j] = table.locks[j].fence]
          PROVE  written'[k] >= written[k]
      <3>1. table.locks[j].fence \in Nat /\ written[j] <= table.locks[j].fence
        <4>1. table.locks[j] \in Holds
          BY Zenon, <2>t, <2>2, HoldTypes
        <4> QED BY Zenon, <4>1, <2>2 DEF Holds, LockInv
      <3> QED BY <2>t, <2>2, <3>1
    <2> QED BY Zenon, <2>t, <2>1, <2>2, StepShape DEF Moves
  <1> QED BY <1>1, LockInvInit, LockInvStep, PTL DEF Spec, WritesAreFenced

\* The lock implements the fenced mutex: initial states map to initial states and
\* every step to a lapse, a grant or a stutter of FencedMutex.
THEOREM LockIsFencedMutex == Spec => IsFencedMutex
  <1> DEFINE H(tb) == [k \in Keys |-> [owner |-> tb.locks[k].owner, token |-> tb.locks[k].fence]]
  <1>1. Init => Mutex!Init
    BY DEF Init, EmptyTable, Free, Mutex!Init, Mutex!Nobody
  <1>2. LockInv /\ [Next]_vars => [Mutex!Next]_<<H(table), table.nextFence - 1>>
    <2> SUFFICES ASSUME LockInv, [Next]_vars
                 PROVE  Mutex!Next \/ UNCHANGED <<H(table), table.nextFence - 1>>
      BY Zenon
    <2>t. TypeOK /\ table \in Tables
      BY Zenon DEF LockInv, TypeOK
    <2>1. CASE table' = table
      BY Zenon, <2>1
    <2>2. CASE FenceStep(table, table')
      <3>1. PICK mid \in Tables :
                 /\ Shrinks(table, mid)
                 /\ \/ table' = mid
                    \/ \E k \in Keys, o \in Owners : Grants(mid, table', k, o)
        BY Zenon, <2>2 DEF FenceStep
      <3> DEFINE S == {k \in Keys : mid.locks[k] = Free}
      <3>2. H(mid) = Mutex!Without(S)
        <4>1. ASSUME NEW k \in Keys
              PROVE  H(mid)[k] = IF k \in S THEN Mutex!Nobody ELSE H(table)[k]
          BY <3>1, SMTT(30) DEF Shrinks, SameHold, Free, Mutex!Nobody
        <4> QED BY Zenon, <4>1 DEF Mutex!Without
      <3>3. /\ mid.nextFence \in Nat \ {0} /\ table.nextFence \in Nat \ {0}
            /\ mid.nextFence >= table.nextFence
        BY Zenon, <2>t, <3>1 DEF Tables, Shrinks
      <3>4. CASE table' = mid
        <4>1. Mutex!Lapse(S)
          BY <3>2, <3>3, <3>4 DEF Mutex!Lapse
        <4> QED BY Zenon, <4>1 DEF Mutex!Next
      <3>5. ASSUME NEW k \in Keys, NEW o \in Owners, Grants(mid, table', k, o)
            PROVE  Mutex!Next
        <4>1. table'.nextFence = mid.nextFence + 1
          BY Zenon, <3>5 DEF Grants
        <4>2. H(table') = [Mutex!Without(S) EXCEPT
                               ![k] = [owner |-> o, token |-> table'.nextFence - 1]]
          <5>1. H(table')[k] = [owner |-> o, token |-> table'.nextFence - 1]
            BY <3>3, <3>5, <4>1 DEF Grants
          <5>2. \A j \in Keys \ {k} : H(table')[j] = H(mid)[j]
            BY Zenon, <3>5 DEF Grants, SameHold
          <5> DEFINE grant == [owner |-> o, token |-> table'.nextFence - 1]
          <5> HIDE DEF grant, S
          <5>3. H(table') = [H(mid) EXCEPT ![k] = grant]
            BY Zenon, <5>1, <5>2 DEF grant
          <5> HIDE DEF H
          <5> QED BY Zenon, <5>3, <3>2 DEF grant
        <4>3. Mutex!Grant(S, k, o)
          BY <3>3, <4>1, <4>2 DEF Mutex!Grant
        <4> QED BY Zenon, <4>3 DEF Mutex!Next
      <3> QED BY Zenon, <3>1, <3>4, <3>5
    <2> QED BY <2>t, <2>1, <2>2, StepShape, SMTT(30) DEF Moves, vars
  <1> QED
    BY <1>1, <1>2, LockInvInit, LockInvStep, PTL DEF Spec, IsFencedMutex, Mutex!Spec

-----------------------------------------------------------------------------
(* Leases.                                                                *)

\* The ways in which a live hold may end.
Excused(k) ==
    \/ \E at \in CallTimes :
          \/ Unlock(k, table.locks[k].owner, table.locks[k].fence, at)
          \/ ForceUnlock(k, at)
          \/ SweepLostSessions(at)
          \/ \E o \in Owners, lease \in Leases : ForceAcquireLock(k, o, lease, at)
    \/ Reset

\* What a step may do to a key that is held.
LeaseKept(k) ==
    /\ table.locks[k].deadline > now' /\ table'.locks[k].fence # table.locks[k].fence
         => Excused(k)
    /\ surface = "service" /\ now' > now /\ table.locks[k].deadline <= now'
         => table'.locks[k].fence # table.locks[k].fence

\* A method leaves the fences of the other keys alone.
LEMMA OtherFences ==
    ASSUME NEW tb \in Tables, NEW k \in Keys, NEW j \in Keys, j # k, NEW o \in Owners,
           NEW lease \in Nat, NEW at \in Nat, NEW token, NEW deadline \in Nat
    PROVE  /\ TryAcquireLock(tb, k, o, lease, at).table.locks[j].fence = tb.locks[j].fence
           /\ GrantTo(tb, k, o, lease, at).locks[j].fence = tb.locks[j].fence
           /\ RenewLease(tb, k, o, token, deadline).locks[j].fence = tb.locks[j].fence
           /\ ReleaseLock(tb, k, o, token).locks[j].fence = tb.locks[j].fence
           /\ ForceUnlockKey(tb, k).locks[j].fence = tb.locks[j].fence
  <1>1. GrantTo(tb, k, o, lease, at).locks[j].fence = tb.locks[j].fence
    <2>1. Grants(tb, GrantTo(tb, k, o, lease, at), k, o)
      BY Zenon, GrantToGrants
    <2> QED BY Zenon, <2>1 DEF Grants, SameHold
  <1>2. ASSUME NEW n \in Nat PROVE EndHolds(tb, {k}, n).locks[j] = tb.locks[j]
    <2>1. {k} \in SUBSET Keys /\ j \notin {k}
      BY Zenon
    <2>2. EndHolds(tb, {k}, n).locks[j] = IF j \in {k} THEN Free ELSE tb.locks[j]
      BY <2>1, EndHoldsShrinks
    <2> QED BY Zenon, <2>1, <2>2
  <1>3. tb.locks \in [Keys -> Holds \union {Free}]
    BY Zenon DEF Tables
  <1>4. Reentry(tb, k, o, lease, at).table.locks[j].fence = tb.locks[j].fence
    BY Zenon, <1>3 DEF Reentry, Tables
  <1>5. TryAcquireLock(tb, k, o, lease, at).table.locks[j].fence = tb.locks[j].fence
    BY Zenon, <1>1, <1>4 DEF TryAcquireLock
  <1>6. RenewLease(tb, k, o, token, deadline).locks[j].fence = tb.locks[j].fence
    BY Zenon, <1>3 DEF RenewLease, Tables
  <1>7. ReleaseLock(tb, k, o, token).locks[j].fence = tb.locks[j].fence
    <2>1. [tb EXCEPT !.locks[k].holds = @ - 1].locks[j] = tb.locks[j]
      BY Zenon, <1>3 DEF Tables
    <2>2. EndHolds(tb, {k}, 0).locks[j] = tb.locks[j]
      BY Zenon, <1>2
    <2> QED BY Zenon, <2>1, <2>2 DEF ReleaseLock
  <1>8. ForceUnlockKey(tb, k).locks[j].fence = tb.locks[j].fence
    BY Zenon, <1>2 DEF ForceUnlockKey
  <1> QED BY Zenon, <1>1, <1>5, <1>6, <1>7, <1>8

\* What a method does to the fence of its own key.
LEMMA TryFence ==
    ASSUME NEW tb \in Tables, NEW k \in Keys, NEW o \in Owners, NEW lease \in Nat,
           NEW at \in Nat
    PROVE  /\ Held(tb, k) /\ ~Expired(tb, k, at) =>
                TryAcquireLock(tb, k, o, lease, at).table.locks[k].fence = tb.locks[k].fence
           /\ ~Held(tb, k) =>
                TryAcquireLock(tb, k, o, lease, at).table.locks[k].fence = tb.nextFence
  <1>1. tb.locks \in [Keys -> Holds \union {Free}]
    BY Zenon DEF Tables
  <1>2. Reentry(tb, k, o, lease, at).table.locks[k].fence = tb.locks[k].fence
    BY Zenon, <1>1 DEF Reentry, Tables
  <1>3. GrantTo(tb, k, o, lease, at).locks[k].fence = tb.nextFence
    <2>1. Grants(tb, GrantTo(tb, k, o, lease, at), k, o)
      BY Zenon, GrantToGrants
    <2> QED BY Zenon, <2>1 DEF Grants
  <1>4. Held(tb, k) /\ ~Expired(tb, k, at) =>
          TryAcquireLock(tb, k, o, lease, at).table.locks[k].fence = tb.locks[k].fence
    BY Zenon, <1>2 DEF TryAcquireLock
  <1>5. ~Held(tb, k) =>
          TryAcquireLock(tb, k, o, lease, at).table.locks[k].fence = tb.nextFence
    BY Zenon, <1>3 DEF TryAcquireLock
  <1> QED BY Zenon, <1>4, <1>5

LEMMA RenewFence ==
    ASSUME NEW tb \in Tables, NEW k \in Keys, NEW o \in Owners, NEW token,
           NEW deadline \in Nat
    PROVE  RenewLease(tb, k, o, token, deadline).locks[k].fence = tb.locks[k].fence
  <1>1. CASE Current(tb, k, o, token)
    <2>1. tb.locks[k] \in Holds
      BY Zenon, <1>1, HoldTypes DEF Current
    <2>2. tb.locks \in [Keys -> Holds \union {Free}]
      BY Zenon DEF Tables
    <2>3. RenewLease(tb, k, o, token, deadline).locks[k] = [tb.locks[k] EXCEPT !.deadline = deadline]
      BY Zenon, <1>1, <2>2 DEF RenewLease, Tables
    <2> QED BY Zenon, <2>1, <2>3 DEF Holds
  <1>2. CASE ~Current(tb, k, o, token)
    BY Zenon, <1>2 DEF RenewLease
  <1> QED BY Zenon, <1>1, <1>2

\* The sweep before a command ends the lapsed leases and no others.
LEMMA SweptHold ==
    ASSUME TypeOK, NEW at \in Nat, NEW k \in Keys, Held(table, k)
    PROVE  /\ table.locks[k].deadline > at =>
                /\ ExpireDue(table, at).locks[k] = table.locks[k]
                /\ Swept(at).locks[k] = table.locks[k]
           /\ surface = "service" /\ table.locks[k].deadline <= at =>
                Swept(at).locks[k] = Free
  <1> DEFINE K == {j \in Keys : Expired(table, j, at)}
  <1>1. table \in Tables /\ K \in SUBSET Keys
    BY Zenon DEF TypeOK
  <1>2. ExpireDue(table, at) = ExpireKeys(table, K)
    BY Zenon DEF ExpireDue
  <1>3. table.locks[k].deadline \in Nat
    <2>1. table.locks[k] \in Holds
      BY Zenon, <1>1, HoldTypes
    <2> QED BY Zenon, <2>1 DEF Holds
  <1>4. k \in K <=> table.locks[k].deadline <= at
    BY Zenon DEF Expired
  <1> HIDE DEF K
  <1>5. ExpireDue(table, at).locks[k] = IF k \in K THEN Free ELSE table.locks[k]
    BY <1>1, <1>2, ExpireKeysShrinks
  <1>6. table.locks[k].deadline > at => k \notin K
    BY <1>3, <1>4
  <1> QED BY Zenon, <1>4, <1>5, <1>6 DEF Swept

\* A method after the sweep keeps the lease of a key if it leaves a live hold alone,
\* unless it may end it, and gives a free key a fresh fence or none.
LEMMA CommandKeepsLease ==
    ASSUME LockInv, NEW at \in Nat, now' = at, NEW k \in Keys, Held(table, k),
           /\ Held(Swept(at), k) /\ Swept(at).locks[k] = table.locks[k]
           /\ ~Expired(Swept(at), k, at)
           => table'.locks[k].fence = Swept(at).locks[k].fence \/ Excused(k),
           ~Held(Swept(at), k) =>
              \/ table'.locks[k].fence = Swept(at).locks[k].fence
              \/ table'.locks[k].fence = Swept(at).nextFence
    PROVE  LeaseKept(k)
  <1>1. TypeOK /\ table \in Tables
    BY Zenon DEF LockInv, TypeOK
  <1>2. Swept(at) \in Tables /\ Shrinks(table, Swept(at))
    BY Zenon, <1>1, SweptShrinks
  <1>3. /\ table.locks[k].deadline > at => Swept(at).locks[k] = table.locks[k]
        /\ surface = "service" /\ table.locks[k].deadline <= at => Swept(at).locks[k] = Free
    BY Zenon, <1>1, SweptHold
  <1>4. table.locks[k].deadline \in Nat /\ table.locks[k].fence \in Nat \ {0}
    <2>1. table.locks[k] \in Holds
      BY Zenon, <1>1, HoldTypes
    <2> QED BY Zenon, <2>1 DEF Holds
  <1>5. ASSUME table.locks[k].deadline > at, table'.locks[k].fence # table.locks[k].fence
        PROVE  Excused(k)
    <2>1. Swept(at).locks[k] = table.locks[k]
      BY Zenon, <1>3, <1>5
    <2>2. Held(Swept(at), k)
      BY Zenon, <2>1 DEF Held
    <2>3. ~Expired(Swept(at), k, at)
      BY <1>4, <1>5, <2>1 DEF Expired
    <2> QED BY <1>5, <2>1, <2>2, <2>3
  <1>6. ASSUME surface = "service", table.locks[k].deadline <= at
        PROVE  table'.locks[k].fence # table.locks[k].fence
    <2>1. Swept(at).locks[k].fence = 0
      BY <1>3, <1>6 DEF Free
    <2>2. \/ table'.locks[k].fence = 0
          \/ table'.locks[k].fence = Swept(at).nextFence
      BY Zenon, <2>1 DEF Held
    <2>3. /\ Swept(at).nextFence \in Nat /\ table.nextFence \in Nat
          /\ Swept(at).nextFence >= table.nextFence /\ table.locks[k].fence < table.nextFence
      BY Zenon, <1>1, <1>2 DEF Shrinks, Tables, LockInv
    <2> QED BY <1>4, <2>2, <2>3
  <1> QED BY Zenon, <1>5, <1>6 DEF LeaseKept


\* A step of an embedder, or one that does not move the clock, keeps the lease of a
\* key if it keeps its live hold or may end it.
LEMMA CallKeepsLease ==
    ASSUME NEW k \in Keys, surface # "service" \/ now' = now, now \in Nat,
           \/ Excused(k)
           \/ table.locks[k].deadline > now' => table'.locks[k].fence = table.locks[k].fence
    PROVE  LeaseKept(k)
  <1>1. surface = "service" => ~(now' > now)
    BY SMT
  <1> QED BY Zenon, <1>1 DEF LeaseKept

\* Every step keeps the lease of every held key.
LEMMA LeaseStep ==
    ASSUME LockInv, Next, NEW k \in Keys, Held(table, k)
    PROVE  LeaseKept(k)
  <1>t. /\ TypeOK /\ table \in Tables /\ now \in Nat /\ now + 1 \in Nat
        /\ Times \subseteq Nat /\ CallTimes \subseteq Nat /\ Leases \subseteq Nat
    BY LockAssumption DEF LockInv, TypeOK, Times, CallTimes
  <1>s. ASSUME NEW at \in Nat PROVE Swept(at) \in Tables
    BY Zenon, <1>t, SweptShrinks
  <1>e. Embedded => CallTimes = Times /\ surface # "service"
    BY Zenon DEF Embedded, CallTimes
  <1>1. ASSUME NEW j \in Keys, NEW o \in Owners, NEW lease \in Leases, NEW at \in Nat,
               TryLock(j, o, lease, at)
        PROVE  LeaseKept(k)
    <2>1. now' = at /\ table' = TryAcquireLock(Swept(at), j, o, lease, at).table
      BY Zenon, <1>1 DEF TryLock, Clock
    <2>2. lease \in Nat /\ Swept(at) \in Tables
      BY Zenon, <1>t, <1>s
    <2>3. CASE j # k
      <3>1. table'.locks[k].fence = Swept(at).locks[k].fence
        BY <2>1, <2>2, <2>3, OtherFences
      <3> QED BY Zenon, <2>1, <3>1, CommandKeepsLease
    <2>4. CASE j = k
      <3>1. /\ Held(Swept(at), k) /\ ~Expired(Swept(at), k, at) =>
                 table'.locks[k].fence = Swept(at).locks[k].fence
            /\ ~Held(Swept(at), k) => table'.locks[k].fence = Swept(at).nextFence
        BY <2>1, <2>2, <2>4, TryFence
      <3> QED BY Zenon, <2>1, <3>1, CommandKeepsLease
    <2> QED BY Zenon, <2>3, <2>4
  <1>2. ASSUME NEW lease \in Leases, Retry(lease) PROVE LeaseKept(k)
    BY Zenon, <1>t, <1>1, <1>2, LockAssumption DEF Retry
  <1>3. CASE Reset
    <2>1. now' = now /\ Excused(k)
      BY Zenon, <1>3 DEF Reset, Excused
    <2> QED BY Zenon, <1>t, <2>1, CallKeepsLease
  <1>4. ASSUME NEW at \in Times \union {now}, Sweep(at) PROVE LeaseKept(k)
    <2>1. at \in Nat /\ (surface # "service" \/ now' = now) /\ now' = at
      BY Zenon, <1>t, <1>4 DEF Sweep, Embedded, Clock
    <2>2. table' = ExpireDue(table, at)
      BY Zenon, <1>4 DEF Sweep
    <2>3. table.locks[k].deadline > at => table'.locks[k].fence = table.locks[k].fence
      BY Zenon, <1>t, <2>1, <2>2, SweptHold
    <2> QED BY Zenon, <1>t, <2>1, <2>3, CallKeepsLease
  <1>5. ASSUME NEW at \in Times, NEW s \in Sessions, RecordSessionHeartbeat(s, at)
        PROVE  LeaseKept(k)
    <2>1. Embedded /\ table' = [table EXCEPT !.beats[s] = at]
      BY Zenon, <1>5 DEF RecordSessionHeartbeat
    <2>2. table'.locks = table.locks
      BY Zenon, <1>t, <2>1 DEF Tables
    <2> QED BY Zenon, <1>t, <1>e, <2>1, <2>2, CallKeepsLease
  <1>6. ASSUME NEW at \in Times, SweepLostSessions(at) PROVE LeaseKept(k)
    <2>1. Embedded
      BY Zenon, <1>6 DEF SweepLostSessions
    <2>2. Excused(k)
      BY Zenon, <1>e, <1>6, <2>1 DEF Excused
    <2> QED BY Zenon, <1>t, <1>e, <2>1, <2>2, CallKeepsLease
  <1>7. ASSUME NEW j \in Keys, NEW at \in CallTimes, ForceUnlock(j, at) PROVE LeaseKept(k)
    <2>1. at \in Nat /\ now' = at /\ table' = ForceUnlockKey(Swept(at), j)
      BY Zenon, <1>t, <1>7 DEF ForceUnlock, Clock
    <2>2. Swept(at) \in Tables
      BY Zenon, <1>s, <2>1
    <2>3. CASE j # k
      <3>1. table'.locks[k].fence = Swept(at).locks[k].fence
        <4>1. 0 \in Nat /\ Waiter \in Owners
          BY Zenon, LockAssumption
        <4> QED BY Zenon, <2>1, <2>2, <2>3, <4>1, OtherFences
      <3> QED BY Zenon, <2>1, <3>1, CommandKeepsLease
    <2>4. CASE j = k
      <3>1. Excused(k)
        BY Zenon, <1>7, <2>4 DEF Excused
      <3>2. ~Held(Swept(at), k) => table'.locks[k].fence = Swept(at).locks[k].fence
        BY Zenon, <2>1, <2>4 DEF ForceUnlockKey
      <3> QED BY Zenon, <2>1, <3>1, <3>2, CommandKeepsLease
    <2> QED BY Zenon, <2>3, <2>4
  <1>8. ASSUME NEW j \in Keys, NEW o \in Owners, NEW lease \in Leases, NEW at \in CallTimes,
               ForceAcquireLock(j, o, lease, at)
        PROVE  LeaseKept(k)
    <2>1. Embedded /\ table' = GrantTo(table, j, o, lease, at)
      BY Zenon, <1>8 DEF ForceAcquireLock
    <2>2. CASE j # k
      <3>1. table'.locks[k].fence = table.locks[k].fence
        <4>1. lease \in Nat /\ at \in Nat
          BY Zenon, <1>t
        <4> QED BY <1>t, <2>1, <2>2, <4>1, OtherFences
      <3> QED BY Zenon, <1>t, <1>e, <2>1, <3>1, CallKeepsLease
    <2>3. CASE j = k
      <3>1. Excused(k)
        BY Zenon, <1>8, <2>3 DEF Excused
      <3> QED BY Zenon, <1>t, <1>e, <2>1, <3>1, CallKeepsLease
    <2> QED BY Zenon, <2>2, <2>3
  <1>9. ASSUME NEW j \in Keys, NEW token \in presented, ValidateFenceToken(j, token)
        PROVE  LeaseKept(k)
    <2>1. table' = table /\ now' = now
      BY Zenon, <1>9 DEF ValidateFenceToken
    <2> QED BY Zenon, <1>t, <2>1, CallKeepsLease
  <1>10. ASSUME NEW j \in Keys, NEW o \in Owners, NEW token \in presented,
                NEW at \in CallTimes, Unlock(j, o, token, at)
         PROVE  LeaseKept(k)
    <2>1. at \in Nat /\ now' = at /\ table' = ReleaseLock(Swept(at), j, o, token)
      BY Zenon, <1>t, <1>10 DEF Unlock, Clock
    <2>2. Swept(at) \in Tables /\ 0 \in Nat
      BY Zenon, <1>s, <2>1
    <2>3. CASE j # k
      <3>1. table'.locks[k].fence = Swept(at).locks[k].fence
        BY <2>1, <2>2, <2>3, OtherFences
      <3> QED BY Zenon, <2>1, <3>1, CommandKeepsLease
    <2>4. CASE j = k
      <3>1. \/ table' = Swept(at)
            \/ Current(Swept(at), k, o, token)
        BY Zenon, <2>1, <2>4 DEF ReleaseLock
      <3>2. ASSUME Swept(at).locks[k] = table.locks[k], Current(Swept(at), k, o, token)
            PROVE  Excused(k)
        <4>1. o = table.locks[k].owner /\ token = table.locks[k].fence
          BY Zenon, <3>2 DEF Current
        <4> QED BY Zenon, <1>10, <2>4, <4>1 DEF Excused
      <3>3. ~Held(Swept(at), k) => table' = Swept(at)
        BY Zenon, <3>1 DEF Current
      <3> QED BY Zenon, <2>1, <3>1, <3>2, <3>3, CommandKeepsLease
    <2> QED BY Zenon, <2>3, <2>4
  <1>11. ASSUME NEW j \in Keys, NEW o \in Owners, NEW token \in presented,
                NEW at \in CallTimes,
                NEW deadline \in Times \union {at + lease : lease \in Leases},
                Renew(j, o, token, deadline, at)
         PROVE  LeaseKept(k)
    <2>1. at \in Nat /\ now' = at /\ table' = RenewLease(Swept(at), j, o, token, deadline)
      BY Zenon, <1>t, <1>11 DEF Renew, Clock
    <2>2. Swept(at) \in Tables /\ 0 \in Nat
      BY Zenon, <1>s, <2>1
    <2>3. deadline \in Nat
      BY <1>t, <2>1
    <2>4. table'.locks[k].fence = Swept(at).locks[k].fence
      BY <2>1, <2>2, <2>3, OtherFences, RenewFence
    <2> QED BY Zenon, <2>1, <2>4, CommandKeepsLease
  <1>12. ASSUME NEW j \in Keys, NEW o \in Owners, NEW lease \in Leases, NEW at \in CallTimes,
                TryLock(j, o, lease, at)
         PROVE  LeaseKept(k)
    BY Zenon, <1>t, <1>1, <1>12
  <1> QED BY Zenon, <1>2, <1>3, <1>4, <1>5, <1>6, <1>7, <1>8, <1>9, <1>10, <1>11, <1>12
          DEF Next

\* No hold ends before its deadline but by its owner, by force, by session loss or by
\* a reset, and through the service none outlives it, for every number of keys,
\* sessions, leases and calls and every sequence of times.
THEOREM LeasesAreKept == Spec => LeaseIsKept
  <1>1. LockInv /\ [Next]_vars =>
          [\A k \in Keys : Held(table, k) => LeaseKept(k)]_vars
    BY Zenon, LeaseStep
  <1>2. (\A k \in Keys : Held(table, k) => LeaseKept(k)) <=>
        (\A k \in Keys :
          LET hold == table.locks[k]
              same == table'.locks[k].fence = hold.fence IN
          Held(table, k) =>
              /\ hold.deadline > now' /\ ~same =>
                    \/ \E at \in CallTimes :
                          \/ Unlock(k, hold.owner, hold.fence, at) \/ ForceUnlock(k, at)
                          \/ SweepLostSessions(at)
                          \/ \E o \in Owners, lease \in Leases : ForceAcquireLock(k, o, lease, at)
                    \/ Reset
              /\ surface = "service" /\ now' > now /\ hold.deadline <= now' => ~same)
    BY Zenon DEF LeaseKept, Excused
  <1> QED BY <1>1, <1>2, LockInvInit, LockInvStep, PTL DEF Spec, LeaseIsKept
=============================================================================
