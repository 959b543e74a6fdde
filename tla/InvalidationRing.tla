---------------------------- MODULE InvalidationRing ----------------------------
(***************************************************************************)
(* grid/invalidation_ring.rs: the bounded, replayable window of the recent *)
(* invalidations of one partition, as the operators a relay applies to it. *)
(* Metrics are left out; sequences are far from u64::MAX.                  *)
(***************************************************************************)
EXTENDS Integers, Sequences, FiniteSets

CONSTANT RingCapacity   \* normalised to at least 1 by InvalidationRing::new

ASSUME RingAssumption == RingCapacity \in Nat \ {0}

\* A ring whose events carry the payloads of set P.
Rings(P) ==
    [head : Nat, next : Nat, events : Seq([sequence : Nat, payload : P])]

EmptyRing == [head |-> 0, next |-> 0, events |-> <<>>]

\* A bug: the head stays behind when an event is overwritten.
RingPublishStaleHead(r, p) ==
    LET event == [sequence |-> r.next, payload |-> p]
        kept == IF Len(r.events) = RingCapacity THEN Tail(r.events) ELSE r.events
    IN [head |-> r.head, next |-> r.next + 1, events |-> Append(kept, event)]

\* publish_with_generation: a full ring loses its oldest event first, and the
\* head is the sequence of the oldest event that is left.
RingPublish(r, p) ==
    LET event == [sequence |-> r.next, payload |-> p]
        kept == IF Len(r.events) = RingCapacity THEN Tail(r.events) ELSE r.events
        events == Append(kept, event)
    IN [head |-> events[1].sequence, next |-> r.next + 1, events |-> events]

\* replay_from falls back to clearing the partition when the first event the
\* subscriber misses has been overwritten; an empty ring never does.
FellBehind(r, last_seen) == r.events /= <<>> /\ last_seen + 1 < r.head

\* The events replay_from returns when the subscriber is within retention.
\* They are in the order of their sequences, so that filtering out those up to
\* `last_seen' leaves the events behind them.
ReplayFrom(r, last_seen) ==
    LET seen == {k \in DOMAIN r.events : r.events[k].sequence <= last_seen}
    IN SubSeq(r.events, Cardinality(seen) + 1, Len(r.events))

-----------------------------------------------------------------------------
\* replay_from never hides a gap: it falls back to clearing the partition
\* exactly when an event after `last_seen' is no longer retained, and otherwise
\* it returns exactly the events after `last_seen'.
ReplayIsExact(r) ==
    \A last_seen \in 0..r.next :
        LET missed == (last_seen + 1)..(r.next - 1)
            retained == {r.events[i].sequence : i \in DOMAIN r.events}
            replay == ReplayFrom(r, last_seen)
        IN /\ FellBehind(r, last_seen) <=> ~(missed \subseteq retained)
           /\ ~FellBehind(r, last_seen) =>
                {replay[i].sequence : i \in DOMAIN replay} = missed
=============================================================================
