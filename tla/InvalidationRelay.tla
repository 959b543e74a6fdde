--------------------------- MODULE InvalidationRelay ---------------------------
(***************************************************************************)
(* invalidation_transport.rs, with the in-process bus of                   *)
(* invalidation_bus.rs, the cache's bus listener in cache.rs and the replay *)
(* ring: an invalidation goes from a cache to its node's bus, through the  *)
(* relay's bounded outbound queue to the external transport, through the   *)
(* bounded inbound queue of every other node to that node's bus, and from  *)
(* there to its cache.  The five loops of a relay and the listener run     *)
(* concurrently; each action is what one loop does between two awaits.     *)
(*                                                                         *)
(* An invalidation is its index in `issued', so `applied' says which ones  *)
(* a cache has been told of.  The external transport fans a frame out to   *)
(* the other nodes, may return it to its sender, may deliver in any order  *)
(* and twice, and reports what it loses as an error of next_inbound.  The  *)
(* ring of a node is fed by its embedder: here it mirrors, without delay,  *)
(* every invalidation the other nodes publish.                             *)
(***************************************************************************)
EXTENDS InvalidationRing, Functions

CONSTANTS
    Nodes,              \* relays, one per process
    Publishers,         \* the nodes whose caches invalidate
    ResumeSource,       \* source id "transport-resume"
    ClearSource,        \* source id "transport-resume-partition-N"
    NoFrame,            \* a publisher task that holds no frame
    BusCapacity,        \* slots of the broadcast channel
    OutboundCapacity,   \* outbound_capacity
    InboundCapacity,    \* inbound_capacity
    DedupCapacity,      \* dedup_window
    RateLimit,          \* inbound_rate_limit_per_source, 0 for None
    MaxIssued,          \* bound: invalidations published by caches
    MaxFaults           \* bound: transport faults, echoes and respawns

Invalidations == 1..MaxIssued

Flush == 0      \* CacheInvalidation::Flush

Sources == Nodes \cup {ResumeSource, ClearSource}

Messages == [source : Sources, generation : Nat, invalidation : Invalidations \cup {Flush}]

Frames == [message : Messages, id : Nat]

\* The sources of a replay are no node's id.
ASSUME RelayAssumption ==
    /\ IsFiniteSet(Nodes) /\ Publishers \subseteq Nodes
    /\ ResumeSource \notin Nodes /\ ClearSource \notin Nodes
    /\ NoFrame \notin Frames
    /\ BusCapacity \in Nat \ {0} /\ OutboundCapacity \in Nat \ {0}
    /\ InboundCapacity \in Nat \ {0}
    /\ DedupCapacity \in Nat /\ RateLimit \in Nat
    /\ MaxIssued \in Nat /\ MaxFaults \in Nat

VARIABLES
    generation,   \* [Nodes -> Nat]: the cluster generation of each process
    issued,       \* the invalidations published so far, by source
    since,        \* [Nodes -> Nat]: Len(issued) when the relay was spawned
    bus,          \* [Nodes -> unread messages of the relay and the listener]
    relay,        \* [Nodes -> the state of the relay's loops]
    wire,         \* [Nodes -> frames the transport has yet to deliver]
    ring,         \* [Nodes -> the shared invalidation ring]
    applied,      \* [Nodes -> invalidations the cache has been told of]
    counted,      \* [Nodes -> frames the node's metrics count as not applied]
    errors,       \* [Nodes -> errors next_inbound reported]
    faults        \* faults so far

vars == <<generation, issued, since, bus, relay, wire, ring, applied, counted,
          errors, faults>>

-----------------------------------------------------------------------------
Message(s, g, i) == [source |-> s, generation |-> g, invalidation |-> i]

\* A bug: a full queue grows.
PushUnbounded(q, f, capacity) == Append(q, f)

\* BoundedFrameQueue::push_drop_oldest.
PushDropOldest(q, f, capacity) ==
    Append(IF Len(q) = capacity THEN Tail(q) ELSE q, f)

\* The frames push_drop_oldest gives up to make room.
Dropped(q, capacity) == IF Len(q) = capacity THEN <<Head(q)>> ELSE <<>>

\* The resume request for a dropped frame: a replay from just before it.
ResumePoints(frames) == [k \in DOMAIN frames |-> frames[k].id - 1]

\* DedupWindow::remember, for a key that is not in the window yet.
Remember(window, key) ==
    LET grown == Append(window, key)
    IN IF DedupCapacity = 0 THEN window
       ELSE IF Len(grown) > DedupCapacity THEN Tail(grown) ELSE grown

\* The state of the loops that spawn_with_metrics starts.
NewRelay ==
    [next_message_id |-> 1,
     outbound |-> <<>>, sending |-> NoFrame,
     last_seen |-> 0, inbound |-> <<>>,
     dedup |-> <<>>, highest |-> [s \in Sources |-> 0],
     accepted |-> [s \in Sources |-> 0],
     resume |-> <<>>]

\* An external tokio broadcast channel, seen by one receiver: the messages it
\* has yet to read, and how many it missed because the channel was full.
NewReceiver == [unread |-> <<>>, missed |-> 0]

Offered(r, m) ==
    [unread |-> PushDropOldest(r.unread, m, BusCapacity),
     missed |-> r.missed + Len(Dropped(r.unread, BusCapacity))]

\* sender.send: both subscribers of the bus are offered the message.
Sent(b, m) == [relay |-> Offered(b.relay, m), listener |-> Offered(b.listener, m)]

Taken(r) == [r EXCEPT !.unread = Tail(@)]

CaughtUp(r) == [r EXCEPT !.missed = 0]

\* The invalidations a message tells a cache of.
Told(m) ==
    IF m.invalidation = Flush THEN 1..Len(issued) ELSE {m.invalidation}

Init ==
    /\ generation = [n \in Nodes |-> 1]
    /\ issued = <<>>
    /\ since = [n \in Nodes |-> 0]
    /\ bus = [n \in Nodes |-> [relay |-> NewReceiver, listener |-> NewReceiver]]
    /\ relay = [n \in Nodes |-> NewRelay]
    /\ wire = [n \in Nodes |-> <<>>]
    /\ ring = [n \in Nodes |-> EmptyRing]
    /\ applied = [n \in Nodes |-> {}]
    /\ counted = [n \in Nodes |-> 0]
    /\ errors = [n \in Nodes |-> 0]
    /\ faults = 0

-----------------------------------------------------------------------------
\* A cache removes its own entries and publishes to its node's bus; the
\* embedders of the other nodes append the invalidation to their rings.
Publish(n) ==
    /\ n \in Publishers
    /\ Len(issued) < MaxIssued
    /\ LET i == Len(issued) + 1
       IN /\ issued' = Append(issued, n)
          /\ applied' = [applied EXCEPT ![n] = @ \cup {i}]
          /\ bus' = [bus EXCEPT ![n] = Sent(@, Message(n, generation[n], i))]
          /\ ring' = [m \in Nodes |->
                        IF m = n THEN ring[m] ELSE RingPublish(ring[m], i)]
    /\ UNCHANGED <<generation, since, relay, wire, counted, errors, faults>>

\* A bug: messages of other nodes are sent on.
ReadBusForwarding(n) ==
    LET r == bus[n].relay
        s == relay[n]
        frame == [message |-> Head(r.unread), id |-> s.next_message_id]
        dropped == Dropped(s.outbound, OutboundCapacity)
    IN /\ r.missed = 0
       /\ r.unread /= <<>>
       /\ bus' = [bus EXCEPT ![n].relay = Taken(@)]
       /\ relay' = [relay EXCEPT ![n] =
             [s EXCEPT !.next_message_id = @ + 1,
                       !.outbound = PushDropOldest(@, frame, OutboundCapacity),
                       !.resume = @ \o ResumePoints(dropped)]]
       /\ counted' = [counted EXCEPT ![n] = @ + Len(dropped)]
       /\ UNCHANGED <<generation, issued, since, wire, ring, applied, errors, faults>>

\* run_outbound_bus_loop and enqueue_outbound_frame: only messages of the local
\* node are numbered and queued; a frame dropped to make room asks for a replay
\* of the ring from just before it.
ReadBus(n) ==
    LET r == bus[n].relay
        m == Head(r.unread)
        s == relay[n]
        frame == [message |-> m, id |-> s.next_message_id]
        dropped == Dropped(s.outbound, OutboundCapacity)
    IN /\ r.missed = 0
       /\ r.unread /= <<>>
       /\ bus' = [bus EXCEPT ![n].relay = Taken(@)]
       /\ \/ /\ m.source /= n
             /\ UNCHANGED <<relay, counted>>
          \/ /\ m.source = n
             /\ relay' = [relay EXCEPT ![n] =
                   [s EXCEPT !.next_message_id = @ + 1,
                             !.outbound = PushDropOldest(@, frame, OutboundCapacity),
                             !.resume = @ \o ResumePoints(dropped)]]
             /\ counted' = [counted EXCEPT ![n] = @ + Len(dropped)]
       /\ UNCHANGED <<generation, issued, since, wire, ring, applied, errors, faults>>

\* The relay's receiver reports how many messages it missed, and only counts.
ReadBusLagged(n) ==
    /\ bus[n].relay.missed > 0
    /\ bus' = [bus EXCEPT ![n].relay = CaughtUp(@)]
    /\ counted' = [counted EXCEPT ![n] = @ + bus[n].relay.missed]
    /\ UNCHANGED <<generation, issued, since, relay, wire, ring, applied, errors, faults>>

\* run_outbound_transport_loop takes a frame from the queue ...
TakeOutbound(n) ==
    /\ relay[n].sending = NoFrame
    /\ relay[n].outbound /= <<>>
    /\ relay' = [relay EXCEPT ![n].sending = Head(relay[n].outbound),
                              ![n].outbound = Tail(@)]
    /\ UNCHANGED <<generation, issued, since, bus, wire, ring, applied, counted, errors, faults>>

\* ... and awaits transport.publish, which fans it out, perhaps with an echo to
\* the sender, or fails; a failure is counted and the frame is gone.
PublishFrame(n) ==
    LET frame == relay[n].sending
        FanOut(receivers) ==
            wire' = [m \in Nodes |->
                       IF m \in receivers THEN Append(wire[m], frame) ELSE wire[m]]
    IN /\ frame /= NoFrame
       /\ relay' = [relay EXCEPT ![n].sending = NoFrame]
       /\ \/ /\ FanOut(Nodes \ {n})
             /\ UNCHANGED <<counted, faults>>
          \/ /\ faults < MaxFaults
             /\ faults' = faults + 1
             /\ FanOut(Nodes)
             /\ UNCHANGED counted
          \/ /\ faults < MaxFaults
             /\ faults' = faults + 1
             /\ counted' = [counted EXCEPT ![n] = @ + 1]
             /\ UNCHANGED wire
       /\ UNCHANGED <<generation, issued, since, bus, ring, applied, errors>>

\* A frame of the transport reaches run_inbound_transport_loop: the k-th of the
\* frames on the wire, which a transport that delivers twice keeps.
Receive(n, k) ==
    LET frame == wire[n][k]
        s == relay[n]
    IN /\ relay' = [relay EXCEPT ![n] =
             [s EXCEPT !.last_seen = IF frame.id > @ THEN frame.id ELSE @,
                       !.inbound = PushDropOldest(@, frame, InboundCapacity)]]
       /\ counted' = [counted EXCEPT ![n] =
             @ + Len(Dropped(s.inbound, InboundCapacity))]
       /\ \/ /\ wire' = [wire EXCEPT ![n] = SubSeq(@, 1, k - 1) \o SubSeq(@, k + 1, Len(@))]
             /\ UNCHANGED faults
          \/ /\ faults < MaxFaults
             /\ faults' = faults + 1
             /\ UNCHANGED wire
       /\ UNCHANGED <<generation, issued, since, bus, ring, applied, errors>>

\* next_inbound reports a Backend or Backpressure error: what was on the wire
\* is lost, and the loop asks for a replay after the highest id it has seen.
ReceiveError(n) ==
    /\ faults < MaxFaults
    /\ faults' = faults + 1
    /\ wire' = [wire EXCEPT ![n] = <<>>]
    /\ errors' = [errors EXCEPT ![n] = @ + 1]
    /\ relay' = [relay EXCEPT ![n].resume = Append(@, relay[n].last_seen)]
    /\ UNCHANGED <<generation, issued, since, bus, ring, applied, counted>>

\* next_inbound reports a Decode or UnknownFrameVersion error: one frame is
\* counted as undecodable and no replay is asked for.
ReceiveGarbled(n) ==
    /\ faults < MaxFaults
    /\ wire[n] /= <<>>
    /\ faults' = faults + 1
    /\ wire' = [wire EXCEPT ![n] = Tail(@)]
    /\ counted' = [counted EXCEPT ![n] = @ + 1]
    /\ UNCHANGED <<generation, issued, since, bus, relay, ring, applied, errors>>

\* should_drop, in the order of its tests; frames of another cluster or frame
\* version are never on this wire.
Verdict(n, s, frame) ==
    LET m == frame.message
    IN CASE m.source = n -> "own"
         [] m.generation > 0 /\ m.generation < s.highest[m.source] -> "fenced"
         [] <<m.source, frame.id>> \in Range(s.dedup) -> "duplicate"
         [] RateLimit > 0 /\ s.accepted[m.source] >= RateLimit -> "limited"
         [] OTHER -> "apply"

\* What should_drop leaves behind: the fence rises before the window is asked,
\* and the window remembers a frame before the rate limit is asked.
Inspected(s, frame, verdict) ==
    LET m == frame.message
        raised == IF m.generation > s.highest[m.source] THEN m.generation
                  ELSE s.highest[m.source]
        passed == verdict \in {"limited", "apply"}
    IN [s EXCEPT
          !.inbound = Tail(@),
          !.highest[m.source] = IF verdict \in {"own", "fenced"} THEN @ ELSE raised,
          !.dedup = IF passed THEN Remember(@, <<m.source, frame.id>>) ELSE @,
          !.accepted[m.source] =
              IF RateLimit > 0 /\ verdict = "apply" THEN @ + 1 ELSE @]

\* A bug: a frame over the rate limit stays at the head of the queue.
ApplyInboundHolding(n) ==
    LET s == relay[n]
        frame == Head(s.inbound)
        verdict == Verdict(n, s, frame)
    IN /\ s.inbound /= <<>> /\ verdict /= "limited"
       /\ relay' = [relay EXCEPT ![n] = Inspected(s, frame, verdict)]
       /\ bus' = IF verdict = "apply"
                 THEN [bus EXCEPT ![n] = Sent(@, frame.message)] ELSE bus
       /\ counted' = [counted EXCEPT ![n] =
             @ + IF verdict \in {"own", "apply"} THEN 0 ELSE 1]
       /\ UNCHANGED <<generation, issued, since, wire, ring, applied, errors, faults>>

\* run_inbound_apply_loop: the next frame is dropped, or published to the local
\* bus, where the relay itself and the cache's listener will read it.
ApplyInbound(n) ==
    LET s == relay[n]
        frame == Head(s.inbound)
        verdict == Verdict(n, s, frame)
    IN /\ s.inbound /= <<>>
       /\ relay' = [relay EXCEPT ![n] = Inspected(s, frame, verdict)]
       /\ bus' = IF verdict = "apply"
                 THEN [bus EXCEPT ![n] = Sent(@, frame.message)] ELSE bus
       /\ counted' = [counted EXCEPT ![n] =
             @ + IF verdict \in {"own", "apply"} THEN 0 ELSE 1]
       /\ UNCHANGED <<generation, issued, since, wire, ring, applied, errors, faults>>

\* The frames of frame_from_replay_event and clear_partition_frame.
ReplayFrames(r, last_seen) ==
    IF FellBehind(r, last_seen)
    THEN << [message |-> Message(ClearSource, 0, Flush), id |-> last_seen + 1] >>
    ELSE LET events == ReplayFrom(r, last_seen)
         IN [k \in DOMAIN events |->
               [message |-> Message(ResumeSource, 0, events[k].payload),
                id |-> events[k].sequence]]

\* run_resume_loop and replay_from_ring: each frame of the replay is pushed to
\* the inbound queue, which drops its oldest frames when it is full.
Resume(n) ==
    LET s == relay[n]
        frames == s.inbound \o ReplayFrames(ring[n], Head(s.resume))
        excess == IF Len(frames) > InboundCapacity
                  THEN Len(frames) - InboundCapacity ELSE 0
    IN /\ s.resume /= <<>>
       /\ relay' = [relay EXCEPT ![n] =
             [s EXCEPT !.resume = Tail(@),
                       !.inbound = SubSeq(frames, excess + 1, Len(frames))]]
       /\ counted' = [counted EXCEPT ![n] = @ + excess]
       /\ UNCHANGED <<generation, issued, since, bus, wire, ring, applied, errors, faults>>

\* spawn_invalidation_listener and apply_remote_invalidation: the cache skips
\* its own messages, and rejects without a trace those whose source is not
\* admitted with that generation.
Listen(n) ==
    LET r == bus[n].listener
        m == Head(r.unread)
        valid == \/ m.generation = 0
                 \/ m.source \in Nodes /\ m.generation = generation[m.source]
    IN /\ r.missed = 0
       /\ r.unread /= <<>>
       /\ bus' = [bus EXCEPT ![n].listener = Taken(@)]
       /\ applied' = [applied EXCEPT ![n] =
             @ \cup IF m.source /= n /\ valid THEN Told(m) ELSE {}]
       /\ UNCHANGED <<generation, issued, since, relay, wire, ring, counted, errors, faults>>

\* A bug: the listener skips what it missed without counting.
ListenLaggedSilent(n) ==
    /\ bus[n].listener.missed > 0
    /\ bus' = [bus EXCEPT ![n].listener = CaughtUp(@)]
    /\ UNCHANGED <<generation, issued, since, relay, wire, ring, applied, counted, errors,
                   faults>>

\* The listener missed messages: it counts them and goes on.
ListenLagged(n) ==
    /\ bus[n].listener.missed > 0
    /\ bus' = [bus EXCEPT ![n].listener = CaughtUp(@)]
    /\ counted' = [counted EXCEPT ![n] = @ + bus[n].listener.missed]
    /\ UNCHANGED <<generation, issued, since, relay, wire, ring, applied, errors, faults>>

\* The transport's stream ends: one loop returns, the supervisor aborts the
\* others and their queues are gone.  The embedder spawns a new relay in the
\* same process, or the process restarts with a new generation, an empty cache
\* and a ring restored from its snapshot.
Respawn(n) ==
    /\ faults < MaxFaults
    /\ faults' = faults + 1
    /\ since' = [since EXCEPT ![n] = Len(issued)]
    /\ relay' = [relay EXCEPT ![n] = NewRelay]
    /\ wire' = [wire EXCEPT ![n] = <<>>]
    /\ counted' = [counted EXCEPT ![n] = 0]
    /\ errors' = [errors EXCEPT ![n] = 0]
    /\ \/ /\ bus' = [bus EXCEPT ![n].relay = NewReceiver]
          /\ UNCHANGED <<generation, applied>>
       \/ /\ bus' = [bus EXCEPT ![n] = [relay |-> NewReceiver, listener |-> NewReceiver]]
          /\ generation' = [generation EXCEPT ![n] = @ + 1]
          /\ applied' = [applied EXCEPT ![n] = 1..Len(issued)]
    /\ UNCHANGED <<issued, ring>>

\* A step of one of the relay's loops or of the cache's listener.
LoopStep(n) ==
    \/ ReadBus(n) \/ ReadBusLagged(n)
    \/ TakeOutbound(n) \/ PublishFrame(n)
    \/ \E k \in DOMAIN wire[n] : Receive(n, k)
    \/ ApplyInbound(n) \/ Resume(n)
    \/ Listen(n) \/ ListenLagged(n)

Next ==
    \E n \in Nodes :
        \/ Publish(n) \/ LoopStep(n)
        \/ ReceiveError(n) \/ ReceiveGarbled(n) \/ Respawn(n)

Spec == Init /\ [][Next]_vars

\* Every loop is a task of a runtime that never idles while one is ready; that
\* some ready loop runs is all that is assumed.
FairSpec == Spec /\ WF_vars(\E n \in Nodes : LoopStep(n))

-----------------------------------------------------------------------------
Receivers == [unread : Seq(Messages), missed : Nat]

Relays ==
    [next_message_id : Nat \ {0},
     outbound : Seq(Frames), sending : Frames \cup {NoFrame},
     last_seen : Nat, inbound : Seq(Frames),
     dedup : Seq(Sources \X Nat), highest : [Sources -> Nat],
     accepted : [Sources -> Nat],
     resume : Seq(Nat)]

\* Types, and the bounds of the relay's queues: a backlog never outgrows its
\* channel, so a slow transport never holds memory without limit.
TypeOK ==
    /\ generation \in [Nodes -> Nat \ {0}]
    /\ issued \in Seq(Publishers) /\ Len(issued) <= MaxIssued
    /\ since \in [Nodes -> 0..MaxIssued]
    /\ bus \in [Nodes -> [relay : Receivers, listener : Receivers]]
    /\ relay \in [Nodes -> Relays]
    /\ wire \in [Nodes -> Seq(Frames)]
    /\ ring \in [Nodes -> Rings(Invalidations)]
    /\ applied \in [Nodes -> SUBSET Invalidations]
    /\ counted \in [Nodes -> Nat] /\ errors \in [Nodes -> Nat]
    /\ faults \in 0..MaxFaults
    /\ \A n \in Nodes :
         /\ Len(bus[n].relay.unread) <= BusCapacity
         /\ Len(bus[n].listener.unread) <= BusCapacity
         /\ Len(relay[n].outbound) <= OutboundCapacity
         /\ Len(relay[n].inbound) <= InboundCapacity
         /\ Len(relay[n].dedup) <= DedupCapacity

\* The invalidations of the relays that are running now.
Current == {i \in 1..Len(issued) : \A n \in Nodes : i > since[n]}

CarriedBy(messages) == {m.invalidation : m \in messages}

\* The invalidations that the relay of node m has yet to send: it sends its
\* node's own messages only.
Outward(m) ==
    CarriedBy({x \in Range(bus[m].relay.unread) : x.source = m}
              \cup {f.message : f \in Range(relay[m].outbound)
                                       \cup ({relay[m].sending} \ {NoFrame})})

\* The invalidations that the cache of node n has yet to be told of.
Inward(n) ==
    CarriedBy({f.message : f \in Range(wire[n]) \cup Range(relay[n].inbound)}
              \cup Range(bus[n].listener.unread))

\* The invalidations still on their way to the cache of node n.
OnTheWay(n) == (UNION {Outward(m) : m \in Nodes \ {n}}) \cup Inward(n)

\* What the metrics and pending lag reports of all nodes admit to.
Admitted(n) ==
    bus[n].listener.missed
      + SumFunction([m \in Nodes |-> counted[m] + bus[m].relay.missed])

\* "All failure modes are loud + counted": an invalidation that another node's
\* cache will never hear of is one the metrics count, whichever of the queues,
\* receivers, filters or publishes gave it up, as long as the node's transport
\* reported no error (one error may stand for many frames).
LossIsCounted ==
    \A n \in Nodes :
        errors[n] = 0 =>
            Cardinality({i \in Current : issued[i] /= n
                                      /\ i \notin applied[n] \cup OnTheWay(n)})
              <= Admitted(n)

\* Inbound applies locally and never re-enters the outbound path: a relay never
\* numbers more frames than its own cache has published since it was spawned,
\* so one invalidation is not amplified by the nodes that receive it.
NoAmplification ==
    \A n \in Nodes :
        relay[n].next_message_id
          <= 1 + Cardinality({i \in (since[n] + 1)..Len(issued) : issued[i] = n})

\* A replay of any node's ring is exact or falls back to clearing.
RingReplayIsExact == \A n \in Nodes : ReplayIsExact(ring[n])

Quiet ==
    \A n \in Nodes :
        /\ wire[n] = <<>>
        /\ bus[n] = [relay |-> NewReceiver, listener |-> NewReceiver]
        /\ relay[n].outbound = <<>> /\ relay[n].sending = NoFrame
        /\ relay[n].inbound = <<>> /\ relay[n].resume = <<>>

\* Neither replays nor returning frames keep the loops busy: once the caches
\* stop publishing, every queue drains for good.  With LossIsCounted, an
\* invalidation is then either applied by every other cache or counted.
ComesToRest == <>[]Quiet
=============================================================================
