------------------------------- MODULE Outbox -------------------------------
(***************************************************************************)
(* The transactional invalidation outbox (hydracache-db/src/outbox.rs and  *)
(* its SQL form sqlx_outbox.rs): rows written in the transaction that      *)
(* changes the data, workers that claim, apply and mark them, the          *)
(* operator's reset of dead letters, and a writer's wait for its commit.   *)
(*                                                                         *)
(* A claim, a mark, a reset and a status read are one statement (or one    *)
(* locked section) each; the application of an intent is a step of its own *)
(* between the claim and the mark, and a worker may stop anywhere, by a    *)
(* crash or because a mark returned an error.  Neither mark looks at the   *)
(* row's state or claim, so claim_owner, which nothing reads, is left out. *)
(* Times are kept as what remains of them: a claim of 0 is absent or       *)
(* expired, which claim_is_available does not tell apart.  The order of    *)
(* the rows in a batch is left open.                                       *)
(***************************************************************************)
EXTENDS Integers, FiniteSets

CONSTANTS Commits, Targets,
          Batch,        \* [Commits -> the targets its transaction invalidates]
          Workers,
          BatchSize, ClaimTtl, Backoff,
          MaxAttempts,  \* [Workers -> the worker's bound on a row's attempts]
          MaxStops,     \* bound on the workers' crashes and failed marks
          MaxResets     \* bound on the operator's resets

ASSUME OutboxAssumption ==
    /\ Batch \in [Commits -> SUBSET Targets]
    /\ MaxAttempts \in [Workers -> Nat \ {0}]
    /\ BatchSize \in Nat \ {0} /\ ClaimTtl \in Nat \ {0} /\ Backoff \in Nat
    /\ MaxStops \in Nat /\ MaxResets \in Nat

\* A row's id hashes its commit and its target.
Ids == {id \in Commits \X Targets : id[2] \in Batch[id[1]]}
RowsOf(c) == {id \in Ids : id[1] = c}

VARIABLES
    row,      \* [Ids -> row]
    work,     \* [Workers -> the batch it holds and its step]
    applied,  \* history: the ids whose invalidation was applied
    wait,     \* [Commits -> the outcome of the writer's wait for its commit]
    stops, resets

vars == <<row, work, applied, wait, stops, resets>>

Rows == [state : {"absent", "pending", "published", "dead"},
         delay : 0 .. Backoff, claim : 0 .. ClaimTtl, attempts : Nat]
NewRow == [state |-> "pending", delay |-> 0, claim |-> 0, attempts |-> 0]
NoRow == [NewRow EXCEPT !.state = "absent"]

\* A worker's rows are copies taken at the claim; of a copy only the id and the
\* attempts are used.
Copies == [id : Ids, attempts : Nat]
Steps == {"next", "publish", "fail"}
NoCopy == [id |-> <<>>, attempts |-> 0]
Outcomes == {"none", "satisfied", "degraded"}

TypeOK ==
    /\ row \in [Ids -> Rows]
    /\ work \in [Workers -> [rows : SUBSET Copies, step : Steps, copy : Copies \union {NoCopy}]]
    /\ applied \in SUBSET Ids
    /\ wait \in [Commits -> Outcomes]
    /\ stops \in 0 .. MaxStops /\ resets \in 0 .. MaxResets

Rest == [rows |-> {}, step |-> "next", copy |-> NoCopy]

Init ==
    /\ row = [id \in Ids |-> NoRow]
    /\ work = [w \in Workers |-> Rest]
    /\ applied = {}
    /\ wait = [c \in Commits |-> "none"]
    /\ stops = 0 /\ resets = 0

-----------------------------------------------------------------------------
\* enqueue in the transaction of c; a second run of it inserts nothing.
Enqueue(c) ==
    /\ row' = [id \in Ids |->
                  IF id \in RowsOf(c) /\ row[id].state = "absent" THEN NewRow ELSE row[id]]
    /\ UNCHANGED <<work, applied, wait, stops, resets>>

Claimable == {id \in Ids : row[id].state = "pending" /\ row[id].delay = 0 /\ row[id].claim = 0}

\* The first step of run_once; an empty claim ends it.
Claim(w) ==
    /\ work[w] = Rest
    /\ \E S \in SUBSET Claimable :
          /\ S # {}
          /\ \/ Cardinality(S) = BatchSize
             \/ S = Claimable /\ Cardinality(S) < BatchSize
          /\ row' = [id \in Ids |-> IF id \in S THEN [row[id] EXCEPT !.claim = ClaimTtl]
                                                ELSE row[id]]
          /\ work' = [work EXCEPT ![w].rows =
                         {[id |-> id, attempts |-> row[id].attempts] : id \in S}]
    /\ UNCHANGED <<applied, wait, stops, resets>>

\* apply_invalidation of the next row, and its answer.
Apply(w) ==
    /\ work[w].step = "next"
    /\ \E copy \in work[w].rows, step \in {"publish", "fail"} :
          /\ work' = [work EXCEPT ![w] = [rows |-> @.rows \ {copy}, step |-> step, copy |-> copy]]
          /\ applied' = IF step = "publish" THEN applied \union {copy.id} ELSE applied
    /\ UNCHANGED <<row, wait, stops, resets>>

NextRow(w) ==
    work' = [work EXCEPT ![w] = [rows |-> work[w].rows, step |-> "next", copy |-> NoCopy]]

Published(r) == [r EXCEPT !.state = "published", !.claim = 0]

MarkPublished(w) ==
    /\ work[w].step = "publish"
    /\ row' = [row EXCEPT ![work[w].copy.id] = Published(@)]
    /\ NextRow(w)
    /\ UNCHANGED <<applied, wait, stops, resets>>

\* The worker's copy decides whether the row is dead.
Exhausted(w) == work[w].copy.attempts + 1 >= MaxAttempts[w]
\* A bug: the delay is added to the claim.
FailedClaimed(r, dead) ==
    [state |-> IF dead THEN "dead" ELSE "pending", delay |-> r.delay,
     claim |-> r.claim + Backoff, attempts |-> r.attempts + 1]

Failed(r, dead) ==
    [state |-> IF dead THEN "dead" ELSE "pending", delay |-> IF dead THEN r.delay ELSE Backoff,
     claim |-> 0, attempts |-> r.attempts + 1]

MarkFailed(w) ==
    /\ work[w].step = "fail"
    /\ row' = [row EXCEPT ![work[w].copy.id] = Failed(@, Exhausted(w))]
    /\ NextRow(w)
    /\ UNCHANGED <<applied, wait, stops, resets>>

\* A crash, or a mark that returns an error: the rest of the batch is dropped.
Stop(w) ==
    /\ work[w] # Rest /\ stops < MaxStops
    /\ work' = [work EXCEPT ![w] = Rest]
    /\ stops' = stops + 1
    /\ UNCHANGED <<row, applied, wait, resets>>

\* Time passes: claims run out and delayed rows become available.
Less(n) == IF n > 0 THEN n - 1 ELSE 0
\* A bug: claims do not run out.
TickKeepsClaims ==
    /\ \E id \in Ids : row[id].delay > 0 \/ row[id].claim > 0
    /\ row' = [id \in Ids |-> [row[id] EXCEPT !.delay = Less(@)]]
    /\ UNCHANGED <<work, applied, wait, stops, resets>>

Tick ==
    /\ \E id \in Ids : row[id].delay > 0 \/ row[id].claim > 0
    /\ row' = [id \in Ids |-> [row[id] EXCEPT !.delay = Less(@), !.claim = Less(@)]]
    /\ UNCHANGED <<work, applied, wait, stops, resets>>

ResetDeadLetters ==
    /\ resets < MaxResets
    /\ LET dead == {id \in Ids : row[id].state = "dead"} IN
       /\ dead # {}
       /\ row' = [id \in Ids |-> IF id \in dead THEN NewRow ELSE row[id]]
    /\ resets' = resets + 1
    /\ UNCHANGED <<work, applied, wait, stops>>

\* A bug: a dead row no longer holds up the wait.
WaitForPending(c) ==
    LET open == \E id \in RowsOf(c) : row[id].state = "pending" IN
    /\ wait[c] = "none" /\ \A id \in RowsOf(c) : row[id].state # "absent"
    /\ wait' = [wait EXCEPT ![c] = IF open THEN "degraded" ELSE "satisfied"]
    /\ UNCHANGED <<row, work, applied, stops, resets>>

\* InvalidationWait::wait for the receipt of a committed transaction.  A turn of its
\* loop that finds a row pending sleeps, or ends degraded when the time is up.
Wait(c) ==
    LET open == \E id \in RowsOf(c) : row[id].state \in {"pending", "dead"} IN
    /\ wait[c] = "none" /\ \A id \in RowsOf(c) : row[id].state # "absent"
    /\ wait' = [wait EXCEPT ![c] = IF open THEN "degraded" ELSE "satisfied"]
    /\ UNCHANGED <<row, work, applied, stops, resets>>

Next ==
    \/ Tick \/ ResetDeadLetters
    \/ \E c \in Commits : Enqueue(c) \/ Wait(c)
    \/ \E w \in Workers : Claim(w) \/ Apply(w) \/ MarkPublished(w) \/ MarkFailed(w) \/ Stop(w)

Spec == Init /\ [][Next]_vars

\* Time passes, and a worker that is not stopped runs on and runs again.
FairSpec ==
    /\ Spec /\ WF_vars(Tick)
    /\ \A w \in Workers :
          /\ WF_vars(Claim(w))
          /\ WF_vars(Apply(w) \/ MarkPublished(w) \/ MarkFailed(w))

-----------------------------------------------------------------------------
(* Properties.                                                             *)

\* A satisfied wait means that the invalidation of every row of the commit has been
\* applied, whatever workers crashed, overlapped or were reset before it.
SatisfiedMeansApplied ==
    \A c \in Commits : wait[c] = "satisfied" => RowsOf(c) \subseteq applied

\* No crash, failed mark or lost claim strands a row: a pending row is published or
\* dead-lettered in the end.
RowsDrain == \A id \in Ids : row[id].state = "pending" ~> row[id].state \in {"published", "dead"}
=============================================================================
