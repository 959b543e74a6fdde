----------------------------- MODULE FencedLock -----------------------------
(***************************************************************************)
(* The fenced locks of SingleKeyConditionalStore (grid/conditional.rs) and *)
(* their session heartbeats (grid/lock_session.rs), called in one of two   *)
(* ways: by an embedder, who passes the time of every call and sweeps      *)
(* expired leases when it likes, or by the client surface's                *)
(* ClientLockService (hydracache-client-transport-axum), whose logical     *)
(* clock moves by one in every command and which sweeps before it applies  *)
(* the command.  A call is atomic (&mut self, or the service's mutex).     *)
(*                                                                         *)
(* The operations are operators on the lock table, as the store's methods  *)
(* are on the store, so that a command is the sweep followed by its        *)
(* operation.  Metrics are left out; the consistency level is checked      *)
(* before anything changes, so a call at a weak level is a stutter.        *)
(***************************************************************************)
EXTENDS Integers, FiniteSets

CONSTANTS Keys, Sessions, Endpoints,
          Leases,        \* lease durations a caller asks for
          MaxTime,       \* bound on the times an embedder passes
          MaxSilence,    \* the silence that loses a session
          AcquireLimit,  \* lock_acquire_limit, 0 for None
          MaxCalls,      \* bound on the calls, the waiter's retries apart
          Surfaces,      \* subset of {"embedded", "service"}
          Waiter, WaitKey  \* the client that retries try_lock, and its key

Owners == [session : Sessions, endpoint : Endpoints]
Times == 0 .. MaxTime
Never == -1
NoOwner == [session |-> "none", endpoint |-> "none"]

ASSUME LockAssumption ==
    /\ IsFiniteSet(Keys) /\ Leases \subseteq Nat \ {0}
    /\ MaxTime \in Nat /\ MaxSilence \in Nat /\ AcquireLimit \in Nat /\ MaxCalls \in Nat
    /\ Surfaces \subseteq {"embedded", "service"}
    /\ Waiter \in Owners /\ WaitKey \in Keys

VARIABLES
    surface,    \* who drives the store, fixed at the start
    table,      \* locks, session_heartbeats and next_fence
    now,        \* the time of the last call; the service's logical_now_ms
    written,    \* history: [Keys -> the last token that passed validation]
    presented,  \* history: the tokens handed out, which callers may present
    waiting,    \* does the waiter still retry
    calls       \* calls made, for the bound

vars == <<surface, table, now, written, presented, waiting, calls>>

-----------------------------------------------------------------------------
(* The lock table.  A key without a hold has the hold Free.                *)

Free == [owner |-> NoOwner, fence |-> 0, holds |-> 0, deadline |-> 0]
Holds == [owner : Owners, fence : Nat \ {0}, holds : Nat \ {0}, deadline : Nat]
Tables == [locks : [Keys -> Holds \union {Free}],
           beats : [Sessions -> Nat \union {Never}],
           nextFence : Nat \ {0}]

EmptyTable == [locks |-> [k \in Keys |-> Free],
               beats |-> [s \in Sessions |-> Never],
               nextFence |-> 1]

Held(tb, k) == tb.locks[k].fence # 0
\* A bug: a lease outlives its deadline by one.
ExpiredLate(tb, k, at) == Held(tb, k) /\ tb.locks[k].deadline < at
Expired(tb, k, at) == Held(tb, k) /\ tb.locks[k].deadline <= at
HeldBy(tb, k, s) == Held(tb, k) /\ tb.locks[k].owner.session = s
SessionsOf(tb, K) == {s \in Sessions : \E k \in K : HeldBy(tb, k, s)}

\* A bug: the heartbeat goes with the first hold the session loses.
ForgetAlways(tb, S) ==
    [tb EXCEPT !.beats = [s \in Sessions |-> IF s \in S THEN Never ELSE tb.beats[s]]]

\* remove_heartbeat_if_unused for the sessions of S.
ForgetUnused(tb, S) ==
    [tb EXCEPT !.beats = [s \in Sessions |->
        IF s \in S \ SessionsOf(tb, Keys) THEN Never ELSE tb.beats[s]]]

\* A bug: the fence sequence does not move.
GrantSameFence(tb, k, o, lease, at) ==
    ForgetUnused(
        [locks |-> [tb.locks EXCEPT ![k] = [owner |-> o, fence |-> tb.nextFence,
                                            holds |-> 1, deadline |-> at + lease]],
         beats |-> [tb.beats EXCEPT ![o.session] = at],
         nextFence |-> tb.nextFence],
        SessionsOf(tb, {k}) \ {o.session})

\* The hold of k replaced by a first hold of o with a fresh fence.
GrantTo(tb, k, o, lease, at) ==
    ForgetUnused(
        [locks |-> [tb.locks EXCEPT ![k] = [owner |-> o, fence |-> tb.nextFence,
                                            holds |-> 1, deadline |-> at + lease]],
         beats |-> [tb.beats EXCEPT ![o.session] = at],
         nextFence |-> tb.nextFence + 1],
        SessionsOf(tb, {k}) \ {o.session})

\* What becomes of a table when o asks for k, and the token o gets (0 if none).
Reentry(tb, k, o, lease, at) ==
    LET hold == tb.locks[k] IN
    IF AcquireLimit # 0 /\ hold.holds + 1 > AcquireLimit
    THEN [table |-> tb, token |-> 0]
    ELSE [table |-> [tb EXCEPT
              !.locks[k] = [owner |-> o, fence |-> hold.fence, holds |-> hold.holds + 1,
                            deadline |-> IF hold.deadline > at + lease THEN hold.deadline
                                                                       ELSE at + lease],
              !.beats[o.session] = at],
          token |-> hold.fence]

TryAcquireLock(tb, k, o, lease, at) ==
    IF Held(tb, k) /\ ~Expired(tb, k, at)
    THEN IF tb.locks[k].owner = o THEN Reentry(tb, k, o, lease, at)
                                  ELSE [table |-> tb, token |-> 0]
    ELSE [table |-> GrantTo(tb, k, o, lease, at), token |-> tb.nextFence]

\* The checks renew_lease and release_lock share: the caller owns the hold and
\* presents its fence.
Current(tb, k, o, token) == Held(tb, k) /\ tb.locks[k].owner = o /\ tb.locks[k].fence = token

RenewLease(tb, k, o, token, deadline) ==
    IF Current(tb, k, o, token)
    THEN [tb EXCEPT !.locks[k].deadline = deadline, !.beats[o.session] = deadline]
    ELSE tb

\* The holds of K end, the fence sequence skips n, and a session that is left
\* without a hold is forgotten.
EndHolds(tb, K, n) ==
    ForgetUnused(
        [locks |-> [k \in Keys |-> IF k \in K THEN Free ELSE tb.locks[k]],
         beats |-> tb.beats,
         nextFence |-> tb.nextFence + n],
        SessionsOf(tb, K))

\* Every key that expires takes a fence with it.
ExpireKeys(tb, K) == EndHolds(tb, K, Cardinality(K))

ExpireDue(tb, at) == ExpireKeys(tb, {k \in Keys : Expired(tb, k, at)})

\* expire_lost_sessions: the locks of the sessions silent for too long, then
\* their heartbeats, whether or not they held a lock.
LostSessions(tb, at, silence) ==
    {s \in Sessions : tb.beats[s] # Never /\ at - tb.beats[s] > silence}
ExpireLostSessions(tb, at, silence) ==
    LET lost == LostSessions(tb, at, silence)
        left == ExpireKeys(tb, {k \in Keys : \E s \in lost : HeldBy(tb, k, s)})
    IN  [left EXCEPT !.beats = [s \in Sessions |-> IF s \in lost THEN Never ELSE left.beats[s]]]

\* A bug: the last release only counts down.
ReleaseCounting(tb, k, o, token) ==
    IF ~Current(tb, k, o, token) THEN tb ELSE [tb EXCEPT !.locks[k].holds = @ - 1]

ReleaseLock(tb, k, o, token) ==
    IF ~Current(tb, k, o, token) THEN tb
    ELSE IF tb.locks[k].holds > 1 THEN [tb EXCEPT !.locks[k].holds = @ - 1]
    ELSE EndHolds(tb, {k}, 0)

ForceUnlockKey(tb, k) == IF Held(tb, k) THEN EndHolds(tb, {k}, 1) ELSE tb

ClearForDiagnosticReset(tb) == [EmptyTable EXCEPT !.nextFence = tb.nextFence + 1]

-----------------------------------------------------------------------------
TypeOK ==
    /\ surface \in {"embedded", "service"}
    /\ table \in Tables
    /\ now \in Nat /\ calls \in Nat /\ waiting \in BOOLEAN
    /\ written \in [Keys -> Nat] /\ presented \in SUBSET Nat

Init ==
    /\ surface \in Surfaces
    /\ table = EmptyTable /\ now = 0
    /\ written = [k \in Keys |-> 0] /\ presented = {}
    /\ waiting = (surface = "service") /\ calls = 0

\* A call at time `at` starts from this table: apply_lock_command sweeps first.
Swept(at) == IF surface = "service" THEN ExpireDue(table, at) ELSE table

\* A bug: the service's clock stands still.
ClockStuck(at) ==
    \/ surface = "embedded" /\ at \in Times /\ now' = at
    \/ surface = "service" /\ at = now + 1 /\ now' = now

\* apply_lock_command's clock, or the time an embedder passes.
Clock(at) ==
    /\ \/ surface = "embedded" /\ at \in Times
       \/ surface = "service" /\ at = now + 1
    /\ now' = at

Counted == calls < MaxCalls /\ calls' = calls + 1
Embedded == surface = "embedded"

\* try_acquire_lock by an embedder, handle_try_lock by a client.
TryLock(k, o, lease, at) ==
    /\ Clock(at)
    /\ LET outcome == TryAcquireLock(Swept(at), k, o, lease, at) IN
       /\ table' = outcome.table
       /\ presented' = presented \union ({outcome.token} \ {0})
       /\ waiting' = (waiting /\ ~(<<o, k>> = <<Waiter, WaitKey>> /\ outcome.token # 0))
    /\ UNCHANGED <<surface, written>>

\* The waiter tries again until it gets its key; its retries are not bounded.
Retry(lease) ==
    /\ surface = "service" /\ waiting
    /\ TryLock(WaitKey, Waiter, lease, now + 1)
    /\ UNCHANGED calls

ForceAcquireLock(k, o, lease, at) ==
    /\ Embedded /\ Clock(at) /\ Counted
    /\ table' = GrantTo(table, k, o, lease, at)
    /\ presented' = presented \union {table.nextFence}
    /\ UNCHANGED <<surface, written, waiting>>

\* An embedder names the new deadline; the service adds the lease to its clock.
Renew(k, o, token, deadline, at) ==
    /\ Clock(at) /\ Counted
    /\ surface = "service" => \E lease \in Leases : deadline = at + lease
    /\ table' = RenewLease(Swept(at), k, o, token, deadline)
    /\ UNCHANGED <<surface, written, presented, waiting>>

Unlock(k, o, token, at) ==
    /\ Clock(at) /\ Counted
    /\ table' = ReleaseLock(Swept(at), k, o, token)
    /\ UNCHANGED <<surface, written, presented, waiting>>

ForceUnlock(k, at) ==
    /\ Clock(at) /\ Counted
    /\ table' = ForceUnlockKey(Swept(at), k)
    /\ UNCHANGED <<surface, written, presented, waiting>>

\* expire_due by an embedder; current_ownership sweeps at the present time.
Sweep(at) ==
    /\ \/ Embedded /\ Clock(at)
       \/ surface = "service" /\ at = now /\ now' = now
    /\ Counted
    /\ table' = ExpireDue(table, at)
    /\ UNCHANGED <<surface, written, presented, waiting>>

RecordSessionHeartbeat(s, at) ==
    /\ Embedded /\ Clock(at) /\ Counted
    /\ table' = [table EXCEPT !.beats[s] = at]
    /\ UNCHANGED <<surface, written, presented, waiting>>

SweepLostSessions(at) ==
    /\ Embedded /\ Clock(at) /\ Counted
    /\ table' = ExpireLostSessions(table, at, MaxSilence)
    /\ UNCHANGED <<surface, written, presented, waiting>>

\* A bug: any token of a held key passes.
ValidateHeldOnly(k, token) ==
    /\ Embedded /\ Counted
    /\ Held(table, k)
    /\ written' = [written EXCEPT ![k] = token]
    /\ UNCHANGED <<surface, table, now, presented, waiting>>

\* validate_fence_token by the guarded resource, which accepts the write if it
\* passes.
ValidateFenceToken(k, token) ==
    /\ Embedded /\ Counted
    /\ Held(table, k) /\ table.locks[k].fence = token
    /\ written' = [written EXCEPT ![k] = token]
    /\ UNCHANGED <<surface, table, now, presented, waiting>>

Reset ==
    /\ Counted
    /\ table' = ClearForDiagnosticReset(table)
    /\ UNCHANGED <<surface, now, written, presented, waiting>>

\* The times a call of this surface may carry.
CallTimes == IF Embedded THEN Times ELSE {now + 1}

Next ==
    \/ \E lease \in Leases : Retry(lease)
    \/ Reset
    \/ \E at \in Times \union {now} : Sweep(at)
    \/ \E at \in Times, s \in Sessions : RecordSessionHeartbeat(s, at)
    \/ \E at \in Times : SweepLostSessions(at)
    \/ \E k \in Keys, at \in CallTimes : ForceUnlock(k, at)
    \/ \E k \in Keys, o \in Owners, lease \in Leases, at \in CallTimes :
          \/ TryLock(k, o, lease, at) /\ Counted
          \/ ForceAcquireLock(k, o, lease, at)
    \/ \E k \in Keys, token \in presented : ValidateFenceToken(k, token)
    \/ \E k \in Keys, o \in Owners, token \in presented, at \in CallTimes :
          \/ Unlock(k, o, token, at)
          \/ \E deadline \in Times \union {at + lease : lease \in Leases} :
                Renew(k, o, token, deadline, at)

Spec == Init /\ [][Next]_vars

\* The waiter keeps retrying, and the mutex of the service lets it in.
FairSpec == Spec /\ WF_vars(\E lease \in Leases : Retry(lease))

-----------------------------------------------------------------------------
(* Properties.                                                             *)

\* The lock is a fenced mutex: whatever the lease, session, re-entrancy and reset
\* paths do, a grant carries a token above all earlier ones and a key has one
\* holder (the promise of the fenced lock design).
Mutex == INSTANCE FencedMutex WITH
    holder <- [k \in Keys |-> [owner |-> table.locks[k].owner,
                               token |-> table.locks[k].fence]],
    last <- table.nextFence - 1
IsFencedMutex == Mutex!Spec

\* Writes that validate_fence_token lets through carry tokens that never go back:
\* a paused holder cannot write over its successor, whichever way it lost the key
\* (lease, session, force, reset).
WritesAreFenced == [][\A k \in Keys : written'[k] >= written[k]]_vars

\* A held key's session has a heartbeat record.  lost_sessions walks the records,
\* so a hold without one would survive every session sweep.
HoldersAreReclaimable ==
    \A k \in Keys : Held(table, k) => table.beats[table.locks[k].owner.session] # Never

\* A lease is kept until its deadline, and through the service not beyond: a live
\* hold changes hands only by its owner's release, by force, by session loss or by
\* a reset, and no command renews, re-enters or releases a lapsed one.
LeaseIsKept ==
    [][\A k \in Keys :
        LET hold == table.locks[k]
            same == table'.locks[k].fence = hold.fence IN
        Held(table, k) =>
            /\ hold.deadline > now' /\ ~same =>
                  \/ \E at \in CallTimes :
                        \/ Unlock(k, hold.owner, hold.fence, at) \/ ForceUnlock(k, at)
                        \/ SweepLostSessions(at)
                        \/ \E o \in Owners, lease \in Leases : ForceAcquireLock(k, o, lease, at)
                  \/ Reset
            /\ surface = "service" /\ now' > now /\ hold.deadline <= now' => ~same
      ]_vars

\* A holder that stops calling loses the key to a client that keeps retrying: the
\* retries move the service's clock past the lease.
RetryingClientIsServed == waiting ~> ~waiting
=============================================================================
