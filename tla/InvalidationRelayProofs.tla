------------------------- MODULE InvalidationRelayProofs -------------------------
(***************************************************************************)
(* Proofs about InvalidationRelay, for all capacities and any number of    *)
(* nodes, invalidations and faults: no queue outgrows its capacity, a      *)
(* replay of a relay's ring is exact or falls back to clearing, and no     *)
(* relay sends on what it received.  First, for the ring alone, what       *)
(* publish_with_generation keeps of its shape, and that a ring of that     *)
(* shape replays exactly.                                                  *)
(***************************************************************************)
EXTENDS InvalidationRelay, FiniteSetTheorems, TLAPS

\* A ring holds the events of an unbroken run of sequences that ends just
\* before the next one, with payloads of P.
RingShape(r, P) ==
    /\ r \in Rings(P)
    /\ Len(r.events) <= r.next
    /\ \A i \in 1..Len(r.events) :
          r.events[i].sequence = r.next - Len(r.events) + i - 1
    /\ r.events /= <<>> => r.head = r.next - Len(r.events)
    /\ r.events = <<>> => r.next = 0

\* publish_with_generation keeps the run unbroken, whether or not the ring was
\* full.
LEMMA PublishKeepsShape ==
    ASSUME NEW P, NEW r, RingShape(r, P), NEW p \in P
    PROVE  RingShape(RingPublish(r, p), P)
  \* Arithmetic: without its first event, a ring's positions move down by one.
<1>ShiftedPosition.
      ASSUME NEW a \in Nat, NEW b \in Nat, NEW k \in Nat, NEW i \in Nat, k = b - 1
      PROVE  a - b + (i + 1) - 1 = a - k + i - 1
  BY <1>ShiftedPosition
  \* Arithmetic: with one more event and one more sequence, positions stay.
<1>SamePosition.
      ASSUME NEW a \in Nat, NEW b \in Nat, NEW k \in Nat, NEW i \in Nat, b = k + 1
      PROVE  a - k + i - 1 = (a + 1) - b + i - 1
  BY <1>SamePosition
<1> DEFINE event == [sequence |-> r.next, payload |-> p]
           kept == IF Len(r.events) = RingCapacity THEN Tail(r.events) ELSE r.events
           events == Append(kept, event)
           E == [sequence : Nat, payload : P]
<1>1. /\ r.next \in Nat /\ r.events \in Seq(E) /\ Len(r.events) \in Nat
      /\ event \in E /\ RingCapacity \in Nat \ {0}
  BY RingAssumption DEF RingShape, Rings
<1>2. /\ kept \in Seq(E) /\ Len(kept) \in Nat /\ Len(kept) <= r.next
      /\ \A i \in 1..Len(kept) : kept[i].sequence = r.next - Len(kept) + i - 1
  <2>1. CASE Len(r.events) = RingCapacity
    <3>1. r.events /= <<>> /\ kept = Tail(r.events)
      BY Zenon, <1>1, <2>1
    <3>2. /\ Tail(r.events) \in Seq(E) /\ Len(Tail(r.events)) = Len(r.events) - 1
          /\ \A i \in 1..(Len(r.events) - 1) : Tail(r.events)[i] = r.events[i + 1]
      BY <1>1, <3>1
    <3>3. \A i \in 1..(Len(r.events) - 1) :
             r.events[i + 1].sequence = r.next - Len(r.events) + (i + 1) - 1
      BY <1>1 DEF RingShape, Rings
    <3>4. Len(kept) = Len(r.events) - 1 /\ kept \in Seq(E) /\ Len(r.events) <= r.next
      BY Zenon, <3>1, <3>2 DEF RingShape, Rings
    <3>5. ASSUME NEW i \in 1..Len(kept)
          PROVE  kept[i].sequence = r.next - Len(kept) + i - 1
      <4>1. i \in 1..(Len(r.events) - 1)
        BY Zenon, <3>4
      <4>2. kept[i].sequence = r.next - Len(r.events) + (i + 1) - 1
        BY <3>1, <3>2, <3>3, <4>1, Zenon
      <4> HIDE DEF kept
      <4>3. /\ Len(kept) = Len(r.events) - 1 /\ Len(kept) \in Nat
            /\ Len(r.events) \in Nat /\ r.next \in Nat
        BY <1>1, <3>4
      <4>4. i \in Nat
        BY <1>1, <4>1
      <4>5. r.next - Len(r.events) + (i + 1) - 1 = r.next - Len(kept) + i - 1
        BY <4>3, <4>4, <1>ShiftedPosition, SMTT(30)
      <4> QED BY <4>2, <4>5, Zenon
    <3> HIDE DEF kept
    <3> QED BY <1>1, <3>4, <3>5
  <2>2. CASE Len(r.events) /= RingCapacity
    BY Zenon, <1>1, <2>2 DEF RingShape, Rings
  <2> QED BY Zenon, <2>1, <2>2
<1> HIDE DEF event, kept
<1>3. /\ events \in Seq(E) /\ Len(events) = Len(kept) + 1
      /\ events[Len(kept) + 1] = event
      /\ \A i \in 1..Len(kept) : events[i] = kept[i]
  BY <1>1, <1>2
<1>4. event.sequence = r.next
  BY Zenon DEF event
<1>7. RingPublish(r, p) =
         [head |-> events[1].sequence, next |-> r.next + 1, events |-> events]
  BY Zenon DEF RingPublish, event, kept
<1> HIDE DEF events
<1>4a. Len(events) = Len(kept) + 1 /\ Len(kept) \in Nat /\ r.next \in Nat
  BY Zenon, <1>1, <1>2, <1>3
<1>5. ASSUME NEW i \in 1..Len(events)
      PROVE  events[i].sequence = (r.next + 1) - Len(events) + i - 1
  <2>1. CASE i = Len(kept) + 1
    <3>1. events[i].sequence = r.next
      BY Zenon, <1>3, <1>4, <2>1
    <3>2. r.next = (r.next + 1) - Len(events) + i - 1
      BY <1>4a, <2>1
    <3> QED BY Zenon, <3>1, <3>2
  <2>2. CASE i \in 1..Len(kept)
    <3>1. events[i].sequence = r.next - Len(kept) + i - 1
      BY <1>2, <1>3, <2>2, Zenon
    <3>2. r.next - Len(kept) + i - 1 = (r.next + 1) - Len(events) + i - 1
      <4>1. i \in Nat /\ Len(events) \in Nat
        BY <1>4a, <2>2
      <4> QED BY <4>1, <1>4a, <1>SamePosition, SMTT(30)
    <3> QED BY Zenon, <3>1, <3>2
  <2> QED BY <1>2, <1>3, <2>1, <2>2
<1>6. events[1].sequence = (r.next + 1) - Len(events) /\ events[1] \in E
  <2>1. 1 \in 1..Len(events)
    BY <1>2, <1>3
  <2>2. events[1].sequence = (r.next + 1) - Len(events) + 1 - 1
    BY Zenon, <1>5, <2>1
  <2> HIDE DEF E
  <2>3. events[1] \in E
    BY <1>3, <2>1
  <2>4. (r.next + 1) - Len(events) + 1 - 1 = (r.next + 1) - Len(events)
    BY <1>1, <1>2, <1>3
  <2> QED BY Zenon, <2>2, <2>3, <2>4
<1> DEFINE after == [head |-> events[1].sequence, next |-> r.next + 1, events |-> events]
<1>8. /\ after.head = events[1].sequence /\ after.next = r.next + 1 /\ after.events = events
      /\ after = [head |-> after.head, next |-> after.next, events |-> after.events]
  BY Zenon
<1>9. after.head \in Nat /\ after.next \in Nat /\ after.events \in Seq(E)
  <2>1. events[1].sequence \in Nat
    BY Zenon, <1>6
  <2> QED BY <1>1, <1>3, <1>8, <2>1
<1> HIDE DEF after
<1>10. after \in [head : Nat, next : Nat, events : Seq(E)]
  <2> HIDE DEF E
  <2> QED BY Zenon, <1>8, <1>9
<1>11. Len(events) <= r.next + 1 /\ events /= <<>>
  BY <1>2, <1>3, <1>4a
<1>12. RingShape(after, P)
  <2>1. \A i \in 1..Len(after.events) :
           after.events[i].sequence = after.next - Len(after.events) + i - 1
    BY Zenon, <1>5, <1>8
  <2>2. after.head = after.next - Len(after.events)
    BY Zenon, <1>6, <1>8
  <2>3. Len(after.events) <= after.next /\ after.events /= <<>>
    BY Zenon, <1>8, <1>11
  <2>4. after \in Rings(P)
    BY Zenon, <1>10 DEF Rings
  <2> QED BY <2>1, <2>2, <2>3, <2>4, Zenon DEF RingShape
<1> QED BY Zenon, <1>7, <1>12 DEF after

\* replay_from on a ring of that shape: the oldest retained sequence is the
\* head, so the comparison with the head decides whether an event is missing.
LEMMA GapsAreNoticed ==
    ASSUME NEW P, NEW r, RingShape(r, P), NEW last_seen \in 0..r.next
    PROVE  FellBehind(r, last_seen) <=>
             ~((last_seen + 1)..(r.next - 1)
                 \subseteq {r.events[i].sequence : i \in DOMAIN r.events})
  \* The i-th of the l events of a ring has the sequence n - l + i - 1.
<1>Positions.
      ASSUME NEW n \in Nat, NEW l \in Nat, NEW h \in Nat, h = n - l
      PROVE  /\ \A q \in h..(n - 1) : q - h + 1 \in 1..l /\ n - l + (q - h + 1) - 1 = q
             /\ \A i \in 1..l : n - l + i - 1 \in h..(n - 1)
  BY <1>Positions
<1> DEFINE retained == {r.events[i].sequence : i \in DOMAIN r.events}
<1>1. /\ r.next \in Nat /\ r.head \in Nat /\ last_seen \in Nat
      /\ Len(r.events) \in Nat /\ DOMAIN r.events = 1..Len(r.events)
      /\ Len(r.events) <= r.next
  BY DEF RingShape, Rings
<1>2. CASE r.events = <<>>
  BY <1>1, <1>2 DEF RingShape, Rings, FellBehind
<1>3. CASE r.events /= <<>>
  <2>1. r.head = r.next - Len(r.events) /\ Len(r.events) > 0
    BY <1>1, <1>3 DEF RingShape, Rings
  <2>2. retained = r.head..(r.next - 1)
    <3>1. ASSUME NEW q \in r.head..(r.next - 1) PROVE q \in retained
      <4>1. q - r.head + 1 \in 1..Len(r.events)
        BY <1>1, <2>1, <1>Positions, Zenon
      <4>2. r.events[q - r.head + 1].sequence = q
        <5>1. r.events[q - r.head + 1].sequence
                = r.next - Len(r.events) + (q - r.head + 1) - 1
          BY <4>1, Zenon DEF RingShape, Rings
        <5>2. r.next - Len(r.events) + (q - r.head + 1) - 1 = q
          BY <1>1, <2>1, <1>Positions
        <5> QED BY Zenon, <5>1, <5>2
      <4>3. r.events[q - r.head + 1].sequence \in retained
        BY Zenon, <1>1, <4>1
      <4> HIDE DEF retained
      <4> QED BY Zenon, <4>2, <4>3
    <3>2. ASSUME NEW i \in 1..Len(r.events)
          PROVE r.events[i].sequence \in r.head..(r.next - 1)
      <4>1. r.events[i].sequence = r.next - Len(r.events) + i - 1
        BY Zenon DEF RingShape, Rings
      <4>2. r.next - Len(r.events) + i - 1 \in r.head..(r.next - 1)
        BY <1>1, <2>1, <1>Positions, Zenon
      <4> QED BY Zenon, <4>1, <4>2
    <3>3. r.head..(r.next - 1) \subseteq retained
      <4> HIDE DEF retained
      <4> QED BY Zenon, <3>1
    <3>4. ASSUME NEW q \in retained PROVE q \in r.head..(r.next - 1)
      <4>1. PICK i \in 1..Len(r.events) : q = r.events[i].sequence
        BY Zenon, <1>1
      <4> QED BY Zenon, <3>2, <4>1
    <3> HIDE DEF retained
    <3> QED BY <3>3, <3>4, Zenon
  <2>3. FellBehind(r, last_seen) <=> last_seen + 1 < r.head
    BY Zenon, <1>3 DEF FellBehind
  <2> HIDE DEF retained
  <2>4. ASSUME last_seen + 1 < r.head
        PROVE  ~((last_seen + 1)..(r.next - 1) \subseteq retained)
    <3>1. last_seen + 1 \in (last_seen + 1)..(r.next - 1)
      BY <1>1, <2>1, <2>4
    <3>2. last_seen + 1 \notin retained
      BY <1>1, <2>2, <2>4
    <3> QED BY Zenon, <3>1, <3>2
  <2>5. ASSUME ~(last_seen + 1 < r.head)
        PROVE  (last_seen + 1)..(r.next - 1) \subseteq retained
    BY <1>1, <2>2, <2>5
  <2> QED BY Zenon, <2>3, <2>4, <2>5 DEF retained
<1> QED BY Zenon, <1>2, <1>3

\* A sequence without its first m elements.
LEMMA Suffix ==
    ASSUME NEW S, NEW s \in Seq(S), NEW m \in 0..Len(s)
    PROVE  /\ SubSeq(s, m + 1, Len(s)) \in Seq(S)
           /\ DOMAIN SubSeq(s, m + 1, Len(s)) = 1..(Len(s) - m)
           /\ \A i \in 1..(Len(s) - m) : SubSeq(s, m + 1, Len(s))[i] = s[m + i]
<1>1. Len(s) \in Nat /\ m \in Nat /\ m <= Len(s)
  OBVIOUS
<1>2. Len(SubSeq(s, m + 1, Len(s))) = Len(s) - m
  BY <1>1
<1>3. SubSeq(s, m + 1, Len(s)) \in Seq(S)
  BY <1>1
<1>4. DOMAIN SubSeq(s, m + 1, Len(s)) = 1..(Len(s) - m)
  BY <1>2, <1>3
<1>5. ASSUME NEW i \in 1..(Len(s) - m) PROVE SubSeq(s, m + 1, Len(s))[i] = s[m + i]
  <2>1. m + 1 + i - 1 = m + i
    BY <1>1
  <2> QED BY <1>1, <2>1
<1> QED BY Zenon, <1>3, <1>4, <1>5

\* replay_from leaves out the events up to `last_seen': they come first.
LEMMA SeenComeFirst ==
    ASSUME NEW P, NEW r, RingShape(r, P), NEW last_seen \in 0..r.next,
           ~FellBehind(r, last_seen)
    PROVE  \E m \in 0..Len(r.events) :
             /\ ReplayFrom(r, last_seen) = SubSeq(r.events, m + 1, Len(r.events))
             /\ r.next - Len(r.events) + m - 1
                  = IF last_seen = r.next THEN r.next - 1
                    ELSE IF r.events = <<>> THEN r.next - 1 ELSE last_seen
  \* Arithmetic: of l positions that count up from h, those up to x come first.
<1>FirstPositions.
      ASSUME NEW h \in Nat, NEW l \in Nat, NEW x \in Nat, x + 1 >= h, x < h + l
      PROVE  {k \in 1..l : h + k - 1 <= x} = 1..(x - h + 1)
  BY <1>FirstPositions
<1> DEFINE L == Len(r.events)
           h == r.next - L
           seen == {k \in DOMAIN r.events : r.events[k].sequence <= last_seen}
           m == IF last_seen = r.next \/ r.events = <<>> THEN L ELSE last_seen - h + 1
<1>1. /\ r.next \in Nat /\ last_seen \in Nat /\ L \in Nat /\ L <= r.next
      /\ r.events \in Seq([sequence : Nat, payload : P])
      /\ DOMAIN r.events = 1..L
  BY DEF RingShape, Rings
<1>2. \A k \in 1..L : r.events[k].sequence = h + k - 1
  BY Zenon DEF RingShape
<1>3. r.events /= <<>> => last_seen + 1 >= h
  <2>1. ASSUME r.events /= <<>> PROVE last_seen + 1 >= h
    <3>1. r.head = h /\ ~(last_seen + 1 < r.head)
      BY Zenon, <2>1 DEF RingShape, FellBehind
    <3> QED BY <1>1, <3>1
  <2> QED BY Zenon, <2>1
<1>4. r.events = <<>> <=> L = 0
  BY <1>1
<1>5. m \in 0..L
  BY <1>1, <1>3, <1>4
<1>6. seen = 1..m
  <2>1. seen = {k \in 1..L : h + k - 1 <= last_seen}
    BY Zenon, <1>1, <1>2
  <2>2. h \in Nat /\ h + L = r.next /\ last_seen <= r.next
    BY <1>1
  <2>3. {k \in 1..L : h + k - 1 <= last_seen} = 1..m
    <3> HIDE DEF h, L
    <3>1. CASE last_seen = r.next \/ r.events = <<>>
      BY <1>1, <1>4, <2>2, <3>1
    <3>2. CASE last_seen /= r.next /\ r.events /= <<>>
      <4>1. last_seen + 1 >= h /\ last_seen < h + L
        BY <1>1, <1>3, <2>2, <3>2
      <4>2. m = last_seen - h + 1
        BY Zenon, <3>2
      <4> HIDE DEF m
      <4> QED BY Zenon, <1>1, <2>2, <4>1, <4>2, <1>FirstPositions
    <3> QED BY Zenon, <3>1, <3>2
  <2> HIDE DEF seen, m
  <2> QED BY Zenon, <2>1, <2>3
<1>7. Cardinality(seen) = m
  <2>1. m \in Nat /\ Cardinality(1..m) = m
    <3> HIDE DEF m
    <3>1. m \in Nat /\ m >= 0 /\ m - 1 + 1 = m
      BY <1>1, <1>5
    <3>2. Cardinality(1..m) = IF 1 > m THEN 0 ELSE m - 1 + 1
      BY <3>1, FS_Interval
    <3> QED BY <3>1, <3>2
  <2> HIDE DEF m, seen
  <2> QED BY Zenon, <1>6, <2>1
<1>8. ReplayFrom(r, last_seen) = SubSeq(r.events, m + 1, L)
  <2> HIDE DEF m
  <2> QED BY <1>7, Zenon DEF ReplayFrom
<1>9. h + m - 1 = IF last_seen = r.next THEN r.next - 1
                  ELSE IF r.events = <<>> THEN r.next - 1 ELSE last_seen
  <2>1. h \in Nat /\ L \in Nat /\ h + L = r.next
    BY <1>1
  <2> HIDE DEF h, L
  <2>2. CASE last_seen = r.next \/ r.events = <<>>
    BY <1>1, <2>1, <2>2
  <2>3. CASE last_seen /= r.next /\ r.events /= <<>>
    BY <1>1, <2>1, <2>3
  <2> QED BY Zenon, <2>2, <2>3
<1> HIDE DEF m
<1> QED BY Zenon, <1>5, <1>8, <1>9

\* replay_from on a ring of that shape, within retention: the events after
\* `last_seen' and no others.
LEMMA ReplayIsTheRest ==
    ASSUME NEW P, NEW r, RingShape(r, P), NEW last_seen \in 0..r.next,
           ~FellBehind(r, last_seen)
    PROVE  LET replay == ReplayFrom(r, last_seen)
           IN {replay[i].sequence : i \in DOMAIN replay} = (last_seen + 1)..(r.next - 1)
<1> DEFINE L == Len(r.events)
           h == r.next - L
           replay == ReplayFrom(r, last_seen)
           top == IF last_seen = r.next THEN r.next - 1
                  ELSE IF r.events = <<>> THEN r.next - 1 ELSE last_seen
<1>1. /\ r.next \in Nat /\ last_seen \in Nat /\ L \in Nat /\ L <= r.next
      /\ r.events \in Seq([sequence : Nat, payload : P])
      /\ last_seen <= r.next /\ (r.events = <<>> => r.next = 0)
  BY DEF RingShape, Rings
<1>2. PICK m \in 0..L : replay = SubSeq(r.events, m + 1, L) /\ h + m - 1 = top
  BY Zenon, SeenComeFirst
<1>3. h \in Nat /\ top \in Int /\ h + L = r.next /\ h + m - 1 = top /\ m \in 0..L
  <2>1. h \in Nat /\ top \in Int /\ h + L = r.next
    BY <1>1
  <2> HIDE DEF h, top, L
  <2> QED BY Zenon, <1>2, <2>1
<1>4. /\ DOMAIN replay = 1..(L - m)
      /\ \A i \in 1..(L - m) : replay[i] = r.events[m + i]
  <2>1. replay = SubSeq(r.events, m + 1, L)
    BY <1>2, Zenon
  <2> HIDE DEF replay
  <2> QED BY <1>1, <2>1, Suffix, Zenon
<1>5. \A i \in 1..(L - m) : replay[i].sequence = top + i
  <2>1. \A k \in 1..L : r.events[k].sequence = h + k - 1
    BY Zenon DEF RingShape
  <2> HIDE DEF replay, h, top, L
  <2> SUFFICES ASSUME NEW i \in 1..(L - m) PROVE replay[i].sequence = top + i
    BY Zenon
  <2>2. m + i \in 1..L /\ h + (m + i) - 1 = top + i
    BY <1>1, <1>3
  <2>3. replay[i] = r.events[m + i]
    BY Zenon, <1>4
  <2>4. r.events[m + i].sequence = h + (m + i) - 1
    BY <2>1, <2>2, Zenon
  <2> QED BY Zenon, <2>2, <2>3, <2>4
<1>6. top + (L - m) = r.next - 1
  <2> HIDE DEF h, top, L
  <2> QED BY <1>1, <1>3
<1>7. (last_seen + 1)..(r.next - 1) = (top + 1)..(r.next - 1)
  BY <1>1
<1>8. top \in Int
  BY <1>1
<1>9. {top + i : i \in 1..(L - m)} = (top + 1)..(r.next - 1)
  <2>0. L - m \in Nat
    BY <1>1
  <2> HIDE DEF top, h, L, replay
  <2>1. ASSUME NEW q \in (top + 1)..(r.next - 1)
        PROVE  q - top \in 1..(L - m) /\ q = top + (q - top)
    BY <1>1, <1>6, <1>8
  <2>2. ASSUME NEW i \in 1..(L - m) PROVE top + i \in (top + 1)..(r.next - 1)
    <3>1. i \in Nat /\ 1 <= i /\ i <= L - m
      BY <2>0
    <3>2. top + 1 <= top + i /\ top + i <= top + (L - m)
      BY <1>8, <2>0, <3>1
    <3> QED BY <1>1, <1>6, <1>8, <3>1, <3>2
  <2> QED BY Zenon, <2>1, <2>2
<1>10. {replay[i].sequence : i \in DOMAIN replay} = {top + i : i \in 1..(L - m)}
  <2> HIDE DEF replay, top
  <2> QED BY <1>4, <1>5, Zenon
<1>11. {replay[i].sequence : i \in DOMAIN replay} = (last_seen + 1)..(r.next - 1)
  <2> HIDE DEF top, replay
  <2> QED BY <1>7, <1>9, <1>10, Zenon
<1> QED BY <1>11, Zenon

LEMMA ShapeMakesReplayExact ==
    ASSUME NEW P, NEW r, RingShape(r, P)
    PROVE  ReplayIsExact(r)
  BY Zenon, GapsAreNoticed, ReplayIsTheRest DEF ReplayIsExact

-----------------------------------------------------------------------------
\* A message tells the truth: one that a node published is about an
\* invalidation of that node, with the node's generation unless the relay was
\* spawned since; the others belong to no generation.
TrueMessages ==
    {x \in Messages :
        /\ x.source \in Nodes =>
             /\ x.invalidation \in 1..Len(issued)
             /\ issued[x.invalidation] = x.source
             /\ x.invalidation > since[x.source] => x.generation = generation[x.source]
        /\ x.source \notin Nodes => x.generation = 0}

FramesOf(M) == [message : M, id : Nat]

\* The receivers of a bus with messages of M, within the channel's capacity.
ReceiversOf(M) ==
    {r \in [unread : Seq(M), missed : Nat] : Len(r.unread) <= BusCapacity}

\* The relays with frames of F.
RelayRecords(F) ==
    [next_message_id : Nat \ {0},
     outbound : Seq(F), sending : F \cup {NoFrame},
     last_seen : Nat, inbound : Seq(F),
     dedup : Seq(Sources \X Nat), highest : [Sources -> Nat],
     accepted : [Sources -> Nat],
     resume : Seq(Nat)]

\* The capacities of a relay's queues; frames on their way out are numbered
\* from 1.
WithinCapacity(s) ==
    /\ Len(s.outbound) <= OutboundCapacity
    /\ Len(s.inbound) <= InboundCapacity
    /\ Len(s.dedup) <= DedupCapacity
    /\ \A k \in 1..Len(s.outbound) : s.outbound[k].id >= 1

RelaysOf(M) == {s \in RelayRecords(FramesOf(M)) : WithinCapacity(s)}

\* Every element of p is f or one of q.
DrawnFrom(p, q, f) ==
    \A k \in 1..Len(p) : p[k] = f \/ \E j \in 1..Len(q) : p[k] = q[j]

\* What push_drop_oldest leaves in a queue.
LEMMA PushKeeps ==
    ASSUME NEW S, NEW q \in Seq(S), NEW f \in S, NEW c \in Nat \ {0}, Len(q) <= c
    PROVE  /\ PushDropOldest(q, f, c) \in Seq(S)
           /\ Len(PushDropOldest(q, f, c)) <= c
           /\ DrawnFrom(PushDropOldest(q, f, c), q, f)
<1> DEFINE t == IF Len(q) = c THEN Tail(q) ELSE q
           p == Append(t, f)
<1>1. /\ t \in Seq(S) /\ Len(t) \in Nat /\ Len(t) + 1 <= c
      /\ \A k \in 1..Len(t) : \E j \in 1..Len(q) : t[k] = q[j]
  <2>1. CASE Len(q) = c
    <3>1. q /= <<>> /\ t = Tail(q) /\ Len(t) = Len(q) - 1 /\ t \in Seq(S)
      BY <2>1
    <3>2. \A k \in 1..(Len(q) - 1) : k + 1 \in 1..Len(q) /\ Tail(q)[k] = q[k + 1]
      BY <3>1
    <3> QED BY <2>1, <3>1, <3>2
  <2>2. CASE Len(q) /= c
    BY <2>2
  <2> QED BY Zenon, <2>1, <2>2
<1> HIDE DEF t
<1>2. p \in Seq(S) /\ Len(p) = Len(t) + 1
  BY <1>1
<1>3. \A k \in 1..(Len(t) + 1) : p[k] = IF k <= Len(t) THEN t[k] ELSE f
  BY <1>1
<1>4. DrawnFrom(p, q, f)
  <2> HIDE DEF p
  <2> QED BY <1>1, <1>2, <1>3 DEF DrawnFrom
<1>5. PushDropOldest(q, f, c) = p
  BY Zenon DEF PushDropOldest, t
<1> HIDE DEF p
<1> QED BY Zenon, <1>1, <1>2, <1>4, <1>5

\* What push_drop_oldest gives up: nothing or the oldest element.
LEMMA DroppedIsOldest ==
    ASSUME NEW S, NEW q \in Seq(S), NEW c \in Nat \ {0}
    PROVE  /\ Dropped(q, c) \in Seq(S) /\ Len(Dropped(q, c)) \in {0, 1}
           /\ \A k \in 1..Len(Dropped(q, c)) : q /= <<>> /\ Dropped(q, c)[k] = q[1]
<1>1. CASE Len(q) = c
  <2>1. q /= <<>> /\ Head(q) = q[1] /\ q[1] \in S
    BY <1>1
  <2>2. Dropped(q, c) = <<Head(q)>>
    BY Zenon, <1>1 DEF Dropped
  <2> QED BY <2>1, <2>2
<1>2. CASE Len(q) /= c
  <2>1. Dropped(q, c) = <<>>
    BY Zenon, <1>2 DEF Dropped
  <2> QED BY <2>1
<1> QED BY Zenon, <1>1, <1>2

\* A bus that is sent a message stays within its capacity.
LEMMA OfferedKeeps ==
    ASSUME NEW M, NEW r \in ReceiversOf(M), NEW m \in M
    PROVE  /\ Offered(r, m) \in ReceiversOf(M)
           /\ Offered(r, m).unread = PushDropOldest(r.unread, m, BusCapacity)
           /\ Offered(r, m).missed = r.missed + Len(Dropped(r.unread, BusCapacity))
<1>1. /\ r.unread \in Seq(M) /\ r.missed \in Nat /\ Len(r.unread) <= BusCapacity
      /\ BusCapacity \in Nat \ {0}
  BY Zenon, RelayAssumption DEF ReceiversOf
<1>2. /\ PushDropOldest(r.unread, m, BusCapacity) \in Seq(M)
      /\ Len(PushDropOldest(r.unread, m, BusCapacity)) <= BusCapacity
  BY Zenon, <1>1, PushKeeps
<1>3. r.missed + Len(Dropped(r.unread, BusCapacity)) \in Nat
  BY <1>1, DroppedIsOldest
<1> QED BY Zenon, <1>2, <1>3 DEF Offered, ReceiversOf

LEMMA SentKeeps ==
    ASSUME NEW M, NEW b \in [relay : ReceiversOf(M), listener : ReceiversOf(M)], NEW m \in M
    PROVE  Sent(b, m) \in [relay : ReceiversOf(M), listener : ReceiversOf(M)]
  BY Zenon, OfferedKeeps DEF Sent

\* Reading a message, and reporting a lag.
LEMMA TakenKeeps ==
    ASSUME NEW M, NEW r \in ReceiversOf(M)
    PROVE  /\ CaughtUp(r) \in ReceiversOf(M)
           /\ CaughtUp(r).unread = r.unread /\ CaughtUp(r).missed = 0
           /\ r.unread /= <<>> =>
                /\ Taken(r) \in ReceiversOf(M) /\ Head(r.unread) \in M
                /\ Taken(r).unread = Tail(r.unread) /\ Taken(r).missed = r.missed
<1>1. r.unread \in Seq(M) /\ r.missed \in Nat /\ Len(r.unread) <= BusCapacity
  BY Zenon DEF ReceiversOf
<1>2. r.unread /= <<>> =>
        /\ Tail(r.unread) \in Seq(M) /\ Len(Tail(r.unread)) <= BusCapacity
        /\ Head(r.unread) \in M
  BY <1>1, RelayAssumption
<1> QED BY <1>1, <1>2, Zenon DEF Taken, CaughtUp, ReceiversOf

\* The fields of a relay.
LEMMA RelayFields ==
    ASSUME NEW M, NEW s \in RelaysOf(M)
    PROVE  /\ s.next_message_id \in Nat \ {0}
           /\ s.outbound \in Seq(FramesOf(M)) /\ Len(s.outbound) <= OutboundCapacity
           /\ \A k \in 1..Len(s.outbound) : s.outbound[k].id >= 1
           /\ s.sending \in FramesOf(M) \cup {NoFrame}
           /\ s.last_seen \in Nat
           /\ s.inbound \in Seq(FramesOf(M)) /\ Len(s.inbound) <= InboundCapacity
           /\ s.dedup \in Seq(Sources \X Nat) /\ Len(s.dedup) <= DedupCapacity
           /\ s.highest \in [Sources -> Nat] /\ s.accepted \in [Sources -> Nat]
           /\ s.resume \in Seq(Nat)
           /\ s \in RelayRecords(FramesOf(M)) /\ WithinCapacity(s)
  BY Zenon DEF RelaysOf, RelayRecords, WithinCapacity

LEMMA RelayMember ==
    ASSUME NEW M, NEW t \in RelayRecords(FramesOf(M)), WithinCapacity(t)
    PROVE  t \in RelaysOf(M)
  BY Zenon DEF RelaysOf

\* enqueue_outbound_frame.
LEMMA EnqueueKeeps ==
    ASSUME NEW M, NEW s \in RelaysOf(M), NEW m \in M, NEW frame,
           frame = [message |-> m, id |-> s.next_message_id]
    PROVE  [s EXCEPT !.next_message_id = @ + 1,
                     !.outbound = PushDropOldest(@, frame, OutboundCapacity),
                     !.resume = @ \o ResumePoints(Dropped(s.outbound, OutboundCapacity))]
             \in RelaysOf(M)
<1> DEFINE out == PushDropOldest(s.outbound, frame, OutboundCapacity)
           d == Dropped(s.outbound, OutboundCapacity)
           t == [s EXCEPT !.next_message_id = s.next_message_id + 1, !.outbound = out,
                          !.resume = s.resume \o ResumePoints(d)]
<1>1. OutboundCapacity \in Nat \ {0}
  BY Zenon, RelayAssumption
<1>2. frame \in FramesOf(M) /\ frame.id >= 1
  <2>1. s.next_message_id \in Nat \ {0}
    BY Zenon, RelayFields
  <2> QED BY <2>1 DEF FramesOf
<1>3. /\ out \in Seq(FramesOf(M)) /\ Len(out) <= OutboundCapacity
      /\ DrawnFrom(out, s.outbound, frame)
  <2>1. s.outbound \in Seq(FramesOf(M)) /\ Len(s.outbound) <= OutboundCapacity
    BY Zenon, RelayFields
  <2> QED BY Zenon, <1>1, <1>2, <2>1, PushKeeps
<1>4. \A k \in 1..Len(out) : out[k].id >= 1
  <2>1. \A j \in 1..Len(s.outbound) : s.outbound[j].id >= 1
    BY Zenon, RelayFields
  <2> HIDE DEF out
  <2> QED BY <1>2, <1>3, <2>1, Zenon DEF DrawnFrom
<1>5. /\ d \in Seq(FramesOf(M)) /\ Len(d) \in {0, 1}
      /\ \A k \in 1..Len(d) : s.outbound /= <<>> /\ d[k] = s.outbound[1]
  BY <1>1, RelayFields, DroppedIsOldest
<1>6. ResumePoints(d) \in Seq(Nat)
  <2> HIDE DEF d
  <2>1. \A k \in 1..Len(d) : d[k].id - 1 \in Nat
    <3> SUFFICES ASSUME NEW k \in 1..Len(d) PROVE d[k].id - 1 \in Nat
      BY Zenon
    <3>1. d[k] = s.outbound[1] /\ s.outbound /= <<>> /\ s.outbound \in Seq(FramesOf(M))
      BY Zenon, <1>5, RelayFields
    <3>2. 1 \in 1..Len(s.outbound) /\ s.outbound[1] \in FramesOf(M)
      BY <3>1
    <3>3. s.outbound[1].id >= 1 /\ s.outbound[1].id \in Nat
      BY <3>2, RelayFields, Zenon DEF FramesOf
    <3> QED BY <3>1, <3>3
  <2>2. ResumePoints(d) = [k \in 1..Len(d) |-> d[k].id - 1]
    BY <1>5 DEF ResumePoints
  <2> QED BY <1>5, <2>1, <2>2
<1>7. s.resume \o ResumePoints(d) \in Seq(Nat) /\ s.next_message_id + 1 \in Nat \ {0}
  BY <1>6, RelayFields
<1>8. s \in RelayRecords(FramesOf(M)) /\ WithinCapacity(s)
  BY Zenon, RelayFields
<1> HIDE DEF out, d
<1>9. t \in RelayRecords(FramesOf(M))
  BY <1>3, <1>7, <1>8, Zenon DEF RelayRecords
<1>10. t.outbound = out /\ t.inbound = s.inbound /\ t.dedup = s.dedup
  BY Zenon, <1>8 DEF RelayRecords
<1> HIDE DEF t
<1>11. WithinCapacity(t)
  BY Zenon, <1>3, <1>4, <1>8, <1>10 DEF WithinCapacity
<1>12. t \in RelaysOf(M)
  BY <1>9, <1>11, RelayMember, Zenon
<1> QED BY Zenon, <1>12 DEF t, out, d

\* The outbound publisher takes a frame, and is done with it.
LEMMA TakeOutboundKeeps ==
    ASSUME NEW M, NEW s \in RelaysOf(M)
    PROVE  /\ [s EXCEPT !.sending = NoFrame] \in RelaysOf(M)
           /\ s.outbound /= <<>> =>
                [s EXCEPT !.sending = Head(s.outbound), !.outbound = Tail(@)] \in RelaysOf(M)
<1>1. s \in RelayRecords(FramesOf(M)) /\ WithinCapacity(s)
  BY Zenon, RelayFields
<1>2. [s EXCEPT !.sending = NoFrame] \in RelaysOf(M)
  <2> DEFINE t == [s EXCEPT !.sending = NoFrame]
  <2>1. t \in RelayRecords(FramesOf(M))
    BY <1>1, Zenon DEF RelayRecords
  <2>2. t.outbound = s.outbound /\ t.inbound = s.inbound /\ t.dedup = s.dedup
    BY Zenon, <1>1 DEF RelayRecords
  <2> HIDE DEF t
  <2>3. WithinCapacity(t)
    BY Zenon, <1>1, <2>2 DEF WithinCapacity
  <2>4. t \in RelaysOf(M)
    BY <2>1, <2>3, RelayMember, Zenon
  <2> QED BY Zenon, <2>4 DEF t
<1>3. ASSUME s.outbound /= <<>>
      PROVE  [s EXCEPT !.sending = Head(s.outbound), !.outbound = Tail(@)] \in RelaysOf(M)
  <2> DEFINE q == Tail(s.outbound)
             f == Head(s.outbound)
             t == [s EXCEPT !.sending = f, !.outbound = q]
  <2>1. s.outbound \in Seq(FramesOf(M)) /\ Len(s.outbound) <= OutboundCapacity
    BY Zenon, RelayFields
  <2>2. q \in Seq(FramesOf(M)) /\ Len(q) = Len(s.outbound) - 1 /\ f \in FramesOf(M)
    BY <1>3, <2>1
  <2>3. Len(q) <= OutboundCapacity
    BY <2>1, <2>2, RelayAssumption
  <2>4. \A k \in 1..Len(q) : q[k].id >= 1
    <3>1. \A k \in 1..Len(q) : k + 1 \in 1..Len(s.outbound) /\ q[k] = s.outbound[k + 1]
      BY <1>3, <2>1, <2>2
    <3>2. \A j \in 1..Len(s.outbound) : s.outbound[j].id >= 1
      BY Zenon, RelayFields
    <3> HIDE DEF q
    <3> QED BY <3>1, <3>2, Zenon
  <2> HIDE DEF q, f
  <2>5. t \in RelayRecords(FramesOf(M))
    BY <1>1, <2>2, Zenon DEF RelayRecords
  <2>6. t.outbound = q /\ t.inbound = s.inbound /\ t.dedup = s.dedup
    BY Zenon, <1>1 DEF RelayRecords
  <2> HIDE DEF t
  <2>7. WithinCapacity(t)
    BY Zenon, <1>1, <2>3, <2>4, <2>6 DEF WithinCapacity
  <2>8. t \in RelaysOf(M)
    BY <2>5, <2>7, RelayMember, Zenon
  <2> QED BY Zenon, <2>8 DEF t, q, f
<1> QED BY Zenon, <1>2, <1>3

\* The inbound loop notes a lost stretch, or queues a frame of the transport.
LEMMA ReceiveKeeps ==
    ASSUME NEW M, NEW s \in RelaysOf(M)
    PROVE  /\ [s EXCEPT !.resume = Append(@, s.last_seen)] \in RelaysOf(M)
           /\ \A f \in FramesOf(M) :
                [s EXCEPT !.last_seen = IF f.id > @ THEN f.id ELSE @,
                          !.inbound = PushDropOldest(@, f, InboundCapacity)] \in RelaysOf(M)
<1>1. s \in RelayRecords(FramesOf(M)) /\ WithinCapacity(s)
  BY Zenon, RelayFields
<1>2. [s EXCEPT !.resume = Append(@, s.last_seen)] \in RelaysOf(M)
  <2> DEFINE p == Append(s.resume, s.last_seen)
             t == [s EXCEPT !.resume = p]
  <2>1. p \in Seq(Nat)
    BY RelayFields
  <2> HIDE DEF p
  <2>2. t \in RelayRecords(FramesOf(M))
    BY <1>1, <2>1, Zenon DEF RelayRecords
  <2>3. t.outbound = s.outbound /\ t.inbound = s.inbound /\ t.dedup = s.dedup
    BY Zenon, <1>1 DEF RelayRecords
  <2> HIDE DEF t
  <2>4. WithinCapacity(t)
    BY Zenon, <1>1, <2>3 DEF WithinCapacity
  <2>5. t \in RelaysOf(M)
    BY <2>2, <2>4, RelayMember, Zenon
  <2> QED BY Zenon, <2>5 DEF t, p
<1>3. ASSUME NEW f \in FramesOf(M)
      PROVE  [s EXCEPT !.last_seen = IF f.id > @ THEN f.id ELSE @,
                       !.inbound = PushDropOldest(@, f, InboundCapacity)] \in RelaysOf(M)
  <2> DEFINE q == PushDropOldest(s.inbound, f, InboundCapacity)
             l == IF f.id > s.last_seen THEN f.id ELSE s.last_seen
             t == [s EXCEPT !.last_seen = l, !.inbound = q]
  <2>1. s.inbound \in Seq(FramesOf(M)) /\ Len(s.inbound) <= InboundCapacity
    BY Zenon, RelayFields
  <2>2. q \in Seq(FramesOf(M)) /\ Len(q) <= InboundCapacity
    BY Zenon, <2>1, RelayAssumption, PushKeeps
  <2>3. l \in Nat
    <3>1. f.id \in Nat /\ s.last_seen \in Nat
      BY RelayFields, Zenon DEF FramesOf
    <3> QED BY Zenon, <3>1
  <2> HIDE DEF q, l
  <2>4. t \in RelayRecords(FramesOf(M))
    BY <1>1, <2>2, <2>3, Zenon DEF RelayRecords
  <2>5. t.outbound = s.outbound /\ t.inbound = q /\ t.dedup = s.dedup
    BY Zenon, <1>1 DEF RelayRecords
  <2> HIDE DEF t
  <2>6. WithinCapacity(t)
    BY Zenon, <1>1, <2>2, <2>5 DEF WithinCapacity
  <2>7. t \in RelaysOf(M)
    BY <2>4, <2>6, RelayMember, Zenon
  <2> QED BY Zenon, <2>7 DEF t, q, l
<1> QED BY <1>2, <1>3, Zenon

\* should_drop takes the frame from the queue whatever its verdict.
LEMMA InspectedKeeps ==
    ASSUME NEW M, M \subseteq Messages, NEW s \in RelaysOf(M), s.inbound /= <<>>, NEW v
    PROVE  /\ Inspected(s, Head(s.inbound), v) \in RelaysOf(M)
           /\ Inspected(s, Head(s.inbound), v).inbound = Tail(s.inbound)
           /\ Inspected(s, Head(s.inbound), v).outbound = s.outbound
           /\ Inspected(s, Head(s.inbound), v).sending = s.sending
           /\ Inspected(s, Head(s.inbound), v).next_message_id = s.next_message_id
<1>RememberKeeps.
      ASSUME NEW w \in Seq(Sources \X Nat), Len(w) <= DedupCapacity, NEW k \in Sources \X Nat
      PROVE  /\ Remember(w, k) \in Seq(Sources \X Nat)
             /\ Len(Remember(w, k)) <= DedupCapacity
  <2> USE <1>RememberKeeps
  <2>1. DedupCapacity \in Nat
    BY Zenon, RelayAssumption
  <2> DEFINE g == Append(w, k)
  <2>2. g \in Seq(Sources \X Nat) /\ Len(g) = Len(w) + 1 /\ g /= <<>>
    OBVIOUS
  <2>3. Tail(g) \in Seq(Sources \X Nat) /\ Len(Tail(g)) = Len(w)
    BY <2>2
  <2> HIDE DEF g
  <2> QED BY <2>1, <2>2, <2>3 DEF Remember, g
<1> DEFINE frame == Head(s.inbound)
           m == frame.message
           raised == IF m.generation > s.highest[m.source] THEN m.generation
                     ELSE s.highest[m.source]
           passed == v \in {"limited", "apply"}
           q == Tail(s.inbound)
           h == [s.highest EXCEPT ![m.source] = IF v \in {"own", "fenced"} THEN @ ELSE raised]
           d == IF passed THEN Remember(s.dedup, <<m.source, frame.id>>) ELSE s.dedup
           a == [s.accepted EXCEPT ![m.source] =
                    IF RateLimit > 0 /\ v = "apply" THEN @ + 1 ELSE @]
           t == [s EXCEPT !.inbound = q, !.highest = h, !.dedup = d, !.accepted = a]
<1>1. s \in RelayRecords(FramesOf(M)) /\ WithinCapacity(s)
  BY Zenon, RelayFields
<1>2. s.inbound \in Seq(FramesOf(M)) /\ Len(s.inbound) <= InboundCapacity
  BY Zenon, RelayFields
<1>3. q \in Seq(FramesOf(M)) /\ Len(q) = Len(s.inbound) - 1 /\ frame \in FramesOf(M)
  BY <1>2
<1>4. Len(q) <= InboundCapacity
  BY <1>2, <1>3, RelayAssumption
<1>5. m.source \in Sources /\ m.generation \in Nat /\ frame.id \in Nat
  <2>1. m \in Messages /\ frame.id \in Nat
    BY Zenon, <1>3 DEF FramesOf
  <2> QED BY Zenon, <2>1 DEF Messages
<1> HIDE DEF frame, m, q
<1>6. s.highest \in [Sources -> Nat] /\ s.accepted \in [Sources -> Nat]
  BY Zenon, RelayFields
<1>7. h \in [Sources -> Nat]
  <2>1. raised \in Nat
    BY Zenon, <1>5, <1>6
  <2> HIDE DEF raised
  <2> QED BY Zenon, <1>5, <1>6, <2>1
<1>8. a \in [Sources -> Nat]
  BY <1>5, <1>6
<1>9. d \in Seq(Sources \X Nat) /\ Len(d) <= DedupCapacity
  <2>1. s.dedup \in Seq(Sources \X Nat) /\ Len(s.dedup) <= DedupCapacity
    BY Zenon, RelayFields
  <2>2. <<m.source, frame.id>> \in Sources \X Nat
    BY Zenon, <1>5
  <2> QED BY <2>1, <2>2, <1>RememberKeeps, Zenon
<1>10. Inspected(s, Head(s.inbound), v) = t
  BY Zenon DEF Inspected, frame, m, q
<1> HIDE DEF h, a, d
<1>11. t \in RelayRecords(FramesOf(M))
  BY <1>1, <1>3, <1>7, <1>8, <1>9, Zenon DEF RelayRecords
<1>12. /\ t.outbound = s.outbound /\ t.inbound = q /\ t.dedup = d
       /\ t.sending = s.sending /\ t.next_message_id = s.next_message_id
  BY Zenon, <1>1 DEF RelayRecords
<1> HIDE DEF t
<1>13. WithinCapacity(t)
  BY Zenon, <1>1, <1>4, <1>9, <1>12 DEF WithinCapacity
<1>14. t \in RelaysOf(M)
  BY <1>11, <1>13, RelayMember, Zenon
<1> QED BY Zenon, <1>10, <1>12, <1>14 DEF q

\* The frames of a replay.
LEMMA ReplayKeeps ==
    ASSUME NEW r, RingShape(r, Invalidations), NEW last_seen \in Nat,
           NEW M, [source : {ResumeSource}, generation : {0}, invalidation : Invalidations]
                    \cup {Message(ClearSource, 0, Flush)} \subseteq M
    PROVE  ReplayFrames(r, last_seen) \in Seq(FramesOf(M))
<1> DEFINE E == [sequence : Nat, payload : Invalidations]
           events == ReplayFrom(r, last_seen)
           seen == {k \in DOMAIN r.events : r.events[k].sequence <= last_seen}
<1>1. r.events \in Seq(E) /\ DOMAIN r.events = 1..Len(r.events) /\ Len(r.events) \in Nat
  BY DEF RingShape, Rings
<1>2. Cardinality(seen) \in 0..Len(r.events)
  <2>1. IsFiniteSet(1..Len(r.events)) /\ Cardinality(1..Len(r.events)) = Len(r.events)
    BY <1>1, FS_Interval
  <2>2. seen \subseteq 1..Len(r.events)
    BY Zenon, <1>1
  <2> HIDE DEF seen
  <2>3. IsFiniteSet(seen) /\ Cardinality(seen) <= Cardinality(1..Len(r.events))
    BY <2>1, <2>2, FS_Subset, Zenon
  <2>4. Cardinality(seen) \in Nat
    BY <2>3, FS_CardinalityType, Zenon
  <2> QED BY <1>1, <2>1, <2>3, <2>4
<1>3. events = SubSeq(r.events, Cardinality(seen) + 1, Len(r.events))
  BY Zenon DEF ReplayFrom
<1> HIDE DEF seen, events
<1>4. events \in Seq(E)
  BY <1>1, <1>2, <1>3, Suffix, Zenon
<1>5. CASE FellBehind(r, last_seen)
  <2>1. [message |-> Message(ClearSource, 0, Flush), id |-> last_seen + 1] \in FramesOf(M)
    BY DEF FramesOf
  <2>2. ReplayFrames(r, last_seen)
          = << [message |-> Message(ClearSource, 0, Flush), id |-> last_seen + 1] >>
    BY Zenon, <1>5 DEF ReplayFrames
  <2> QED BY <2>1, <2>2
<1>6. CASE ~FellBehind(r, last_seen)
  <2> DEFINE frame(k) == [message |-> Message(ResumeSource, 0, events[k].payload),
                          id |-> events[k].sequence]
  <2>1. ReplayFrames(r, last_seen) = [k \in DOMAIN events |-> frame(k)]
    BY Zenon, <1>6 DEF ReplayFrames, events
  <2>2. DOMAIN events = 1..Len(events) /\ Len(events) \in Nat
    BY <1>4
  <2>3. ASSUME NEW k \in 1..Len(events) PROVE frame(k) \in FramesOf(M)
    <3>1. events[k] \in E
      <4> HIDE DEF E
      <4> QED BY <1>4
    <3>2. events[k].sequence \in Nat /\ events[k].payload \in Invalidations
      BY Zenon, <3>1
    <3>3. Message(ResumeSource, 0, events[k].payload) \in M
      BY Zenon, <3>2 DEF Message
    <3> QED BY Zenon, <3>2, <3>3 DEF FramesOf
  <2> HIDE DEF frame
  <2> QED BY <2>1, <2>2, <2>3
<1> QED BY Zenon, <1>5, <1>6

\* run_resume_loop.
LEMMA ResumeKeeps ==
    ASSUME NEW M, NEW s \in RelaysOf(M), s.resume /= <<>>, NEW p \in Seq(FramesOf(M)),
           NEW frames, frames = s.inbound \o p, NEW excess,
           excess = IF Len(frames) > InboundCapacity THEN Len(frames) - InboundCapacity ELSE 0
    PROVE  /\ [s EXCEPT !.resume = Tail(@),
                        !.inbound = SubSeq(frames, excess + 1, Len(frames))] \in RelaysOf(M)
           /\ excess \in 0..Len(frames) /\ frames \in Seq(FramesOf(M))
<1> DEFINE q == SubSeq(frames, excess + 1, Len(frames))
           w == Tail(s.resume)
           t == [s EXCEPT !.resume = w, !.inbound = q]
<1>1. s \in RelayRecords(FramesOf(M)) /\ WithinCapacity(s)
  BY Zenon, RelayFields
<1>2. frames \in Seq(FramesOf(M)) /\ Len(frames) \in Nat
  BY RelayFields
<1>3. InboundCapacity \in Nat \ {0}
  BY Zenon, RelayAssumption
<1>4. excess \in 0..Len(frames) /\ Len(frames) - excess <= InboundCapacity
  BY <1>2, <1>3
<1>5. q \in Seq(FramesOf(M)) /\ DOMAIN q = 1..(Len(frames) - excess)
  BY <1>2, <1>4, Suffix
<1> HIDE DEF q
<1>6. Len(q) <= InboundCapacity
  <2>1. Len(q) = Len(frames) - excess
    BY <1>2, <1>4, <1>5
  <2> QED BY Zenon, <1>4, <2>1
<1>7. w \in Seq(Nat)
  BY RelayFields
<1> HIDE DEF w
<1>8. t \in RelayRecords(FramesOf(M))
  BY <1>1, <1>5, <1>7, Zenon DEF RelayRecords
<1>9. t.outbound = s.outbound /\ t.inbound = q /\ t.dedup = s.dedup
  BY Zenon, <1>1 DEF RelayRecords
<1> HIDE DEF t
<1>10. WithinCapacity(t)
  BY Zenon, <1>1, <1>6, <1>9 DEF WithinCapacity
<1>11. t \in RelaysOf(M)
  BY <1>8, <1>10, RelayMember, Zenon
<1> QED BY <1>2, <1>4, <1>11, Zenon DEF t, q, w

LEMMA NewRelayIsOne ==
    ASSUME NEW M
    PROVE  NewRelay \in RelaysOf(M) /\ NewReceiver \in ReceiversOf(M)
<1>1. NewRelay \in RelayRecords(FramesOf(M))
  <2>1. /\ 1 \in Nat \ {0} /\ 0 \in Nat /\ <<>> \in Seq(FramesOf(M)) /\ <<>> \in Seq(Nat)
        /\ <<>> \in Seq(Sources \X Nat) /\ [x \in Sources |-> 0] \in [Sources -> Nat]
    OBVIOUS
  <2> QED BY <2>1, Zenon DEF NewRelay, RelayRecords
<1>2. WithinCapacity(NewRelay)
  BY RelayAssumption DEF NewRelay, WithinCapacity
<1>3. NewReceiver \in ReceiversOf(M)
  BY RelayAssumption DEF NewReceiver, ReceiversOf
<1> QED BY Zenon, <1>1, <1>2, <1>3, RelayMember

\* More messages, more receivers and relays.
LEMMA Widening ==
    ASSUME NEW M, NEW N, M \subseteq N
    PROVE  /\ Seq(M) \subseteq Seq(N) /\ FramesOf(M) \subseteq FramesOf(N)
           /\ Seq(FramesOf(M)) \subseteq Seq(FramesOf(N))
           /\ ReceiversOf(M) \subseteq ReceiversOf(N)
           /\ RelaysOf(M) \subseteq RelaysOf(N)
<1>1. Seq(M) \subseteq Seq(N) /\ FramesOf(M) \subseteq FramesOf(N)
  BY DEF FramesOf
<1>2. Seq(FramesOf(M)) \subseteq Seq(FramesOf(N))
  BY <1>1
<1>3. ReceiversOf(M) \subseteq ReceiversOf(N)
  BY Zenon, <1>1 DEF ReceiversOf
<1>4. RelayRecords(FramesOf(M)) \subseteq RelayRecords(FramesOf(N))
  BY <1>1, <1>2, Zenon DEF RelayRecords
<1>5. RelaysOf(M) \subseteq RelaysOf(N)
  BY Zenon, <1>4 DEF RelaysOf
<1> QED BY Zenon, <1>1, <1>2, <1>3, <1>5

-----------------------------------------------------------------------------
\* The invariant of the relays: types, bounds, true messages, rings of
\* unbroken runs.
Buses(M) == [Nodes -> [relay : ReceiversOf(M), listener : ReceiversOf(M)]]

Scalars ==
    /\ generation \in [Nodes -> Nat \ {0}]
    /\ issued \in Seq(Publishers) /\ Len(issued) <= MaxIssued
    /\ since \in [Nodes -> 0..MaxIssued]
    /\ applied \in [Nodes -> SUBSET Invalidations]
    /\ counted \in [Nodes -> Nat] /\ errors \in [Nodes -> Nat]
    /\ faults \in 0..MaxFaults

RingsAreShaped ==
    /\ ring \in [Nodes -> Rings(Invalidations)]
    /\ \A n \in Nodes : RingShape(ring[n], Invalidations)

RelayInv ==
    /\ Scalars
    /\ bus \in Buses(TrueMessages)
    /\ relay \in [Nodes -> RelaysOf(TrueMessages)]
    /\ wire \in [Nodes -> Seq(FramesOf(TrueMessages))]
    /\ RingsAreShaped

\* What is true stays true while no relay is spawned and nothing is published.
LEMMA SameTruth ==
    ASSUME UNCHANGED <<generation, issued, since>>
    PROVE  TrueMessages' = TrueMessages
  BY Zenon DEF TrueMessages

\* A step that only moves messages between queues.
LEMMA LoopInv ==
    ASSUME RelayInv, UNCHANGED <<generation, issued, since, ring>>,
           bus' \in Buses(TrueMessages), relay' \in [Nodes -> RelaysOf(TrueMessages)],
           wire' \in [Nodes -> Seq(FramesOf(TrueMessages))],
           applied' \in [Nodes -> SUBSET Invalidations],
           counted' \in [Nodes -> Nat], errors' \in [Nodes -> Nat], faults' \in 0..MaxFaults
    PROVE  RelayInv'
<1>1. TrueMessages' = TrueMessages
  BY Zenon, SameTruth
<1> QED BY Zenon, <1>1 DEF RelayInv, Scalars, RingsAreShaped

\* A node's bus, and a change of it.
LEMMA BusUpdate ==
    ASSUME NEW M, NEW b \in Buses(M), NEW n \in Nodes
    PROVE  /\ b[n] \in [relay : ReceiversOf(M), listener : ReceiversOf(M)]
           /\ b[n].relay \in ReceiversOf(M) /\ b[n].listener \in ReceiversOf(M)
           /\ \A r \in ReceiversOf(M) :
                /\ [b EXCEPT ![n].relay = r] \in Buses(M)
                /\ [b EXCEPT ![n].listener = r] \in Buses(M)
           /\ \A c \in [relay : ReceiversOf(M), listener : ReceiversOf(M)] :
                [b EXCEPT ![n] = c] \in Buses(M)
  BY Zenon DEF Buses

\* The frames of a replay tell the truth.
LEMMA ReplayIsTrue ==
    ASSUME RelayInv, NEW n \in Nodes, relay[n].resume /= <<>>
    PROVE  ReplayFrames(ring[n], Head(relay[n].resume)) \in Seq(FramesOf(TrueMessages))
<1> DEFINE M == TrueMessages
<1>1. [source : {ResumeSource}, generation : {0}, invalidation : Invalidations]
         \cup {Message(ClearSource, 0, Flush)} \subseteq M
  <2>1. ASSUME NEW x \in Messages, x.source \notin Nodes, x.generation = 0
        PROVE  x \in M
    BY Zenon, <2>1 DEF TrueMessages
  <2>2. ASSUME NEW x \in [source : {ResumeSource}, generation : {0},
                          invalidation : Invalidations]
        PROVE  x \in M
    <3>1. x \in Messages /\ x.source = ResumeSource /\ x.generation = 0
      BY DEF Messages, Sources
    <3> QED BY Zenon, <2>1, <3>1, RelayAssumption
  <2>3. Message(ClearSource, 0, Flush) \in M
    <3>1. /\ Message(ClearSource, 0, Flush) \in Messages
          /\ Message(ClearSource, 0, Flush).source = ClearSource
          /\ Message(ClearSource, 0, Flush).generation = 0
      BY Zenon DEF Messages, Sources, Message, Flush
    <3> QED BY Zenon, <2>1, <3>1, RelayAssumption
  <2> HIDE DEF M
  <2> QED BY Zenon, <2>2, <2>3
<1>2. relay[n].resume \in Seq(Nat)
  <2>1. relay[n] \in RelaysOf(M)
    BY Zenon DEF RelayInv
  <2> HIDE DEF M
  <2> QED BY <2>1, RelayFields, Zenon
<1>3. Head(relay[n].resume) \in Nat
  BY <1>2
<1>4. RingShape(ring[n], Invalidations)
  BY Zenon DEF RelayInv, RingsAreShaped
<1> HIDE DEF M
<1>5. ReplayFrames(ring[n], Head(relay[n].resume)) \in Seq(FramesOf(M))
  BY <1>1, <1>3, <1>4, ReplayKeeps, Zenon
<1> QED BY <1>5, Zenon DEF M

\* A step that publishes or respawns takes no truth away.
LEMMA WiderInv ==
    ASSUME RelayInv, TrueMessages \subseteq TrueMessages', Scalars', RingsAreShaped',
           bus' \in Buses(TrueMessages'), relay' \in [Nodes -> RelaysOf(TrueMessages')],
           wire' \in [Nodes -> Seq(FramesOf(TrueMessages))]
    PROVE  RelayInv'
<1>1. Seq(FramesOf(TrueMessages)) \subseteq Seq(FramesOf(TrueMessages'))
  BY Widening, Zenon
<1>2. wire' \in [Nodes -> Seq(FramesOf(TrueMessages'))]
  BY <1>1, Zenon
<1> QED BY <1>2, Zenon DEF RelayInv

LEMMA WiderQueues ==
    ASSUME RelayInv, NEW N, TrueMessages \subseteq N
    PROVE  /\ bus \in Buses(N) /\ relay \in [Nodes -> RelaysOf(N)]
           /\ wire \in [Nodes -> Seq(FramesOf(N))]
<1>1. /\ ReceiversOf(TrueMessages) \subseteq ReceiversOf(N)
      /\ RelaysOf(TrueMessages) \subseteq RelaysOf(N)
      /\ Seq(FramesOf(TrueMessages)) \subseteq Seq(FramesOf(N))
  BY Widening, Zenon
<1> QED BY <1>1, Zenon DEF RelayInv, Buses

LEMMA RelayInit == Init => RelayInv
<1> SUFFICES ASSUME Init PROVE RelayInv
  BY Zenon
<1>1. Scalars
  BY RelayAssumption DEF Init, Scalars
<1>2. bus \in Buses(TrueMessages) /\ relay \in [Nodes -> RelaysOf(TrueMessages)]
  <2>1. NewRelay \in RelaysOf(TrueMessages) /\ NewReceiver \in ReceiversOf(TrueMessages)
    BY NewRelayIsOne, Zenon
  <2> QED BY <2>1, Zenon DEF Init, Buses
<1>3. wire \in [Nodes -> Seq(FramesOf(TrueMessages))]
  <2>1. <<>> \in Seq(FramesOf(TrueMessages))
    OBVIOUS
  <2> QED BY <2>1, Zenon DEF Init
<1>4. RingsAreShaped
  <2>1. EmptyRing \in Rings(Invalidations)
    BY DEF EmptyRing, Rings
  <2>2. RingShape(EmptyRing, Invalidations)
    BY <2>1 DEF RingShape, EmptyRing
  <2> QED BY Zenon, <2>1, <2>2 DEF Init, RingsAreShaped
<1> QED BY <1>1, <1>2, <1>3, <1>4, Zenon DEF RelayInv

LEMMA RelayStep == RelayInv /\ [Next]_vars => RelayInv'
<1>ReadBusInv.
      ASSUME RelayInv, NEW n \in Nodes, ReadBus(n)
      PROVE  RelayInv'
  <2> USE <1>ReadBusInv
  <2> DEFINE M == TrueMessages
             r == bus[n].relay
             s == relay[n]
             m == Head(r.unread)
             frame == [message |-> m, id |-> s.next_message_id]
             dropped == Dropped(s.outbound, OutboundCapacity)
             t == [s EXCEPT !.next_message_id = @ + 1,
                            !.outbound = PushDropOldest(@, frame, OutboundCapacity),
                            !.resume = @ \o ResumePoints(dropped)]
  <2>1. /\ r.unread /= <<>>
        /\ bus' = [bus EXCEPT ![n].relay = Taken(@)]
        /\ \/ UNCHANGED <<relay, counted>>
           \/ /\ relay' = [relay EXCEPT ![n] = t]
              /\ counted' = [counted EXCEPT ![n] = @ + Len(dropped)]
        /\ UNCHANGED <<generation, issued, since, wire, ring, applied, errors, faults>>
    BY Zenon DEF ReadBus
  <2> HIDE DEF M
  <2>2. bus \in Buses(M) /\ r \in ReceiversOf(M) /\ s \in RelaysOf(M)
    BY Zenon, BusUpdate DEF RelayInv, M
  <2>3. bus' \in Buses(M) /\ m \in M
    <3>1. Taken(r) \in ReceiversOf(M) /\ m \in M
      BY Zenon, <2>1, <2>2, TakenKeeps
    <3>2. bus' = [bus EXCEPT ![n].relay = Taken(r)]
      BY Zenon, <2>1, <2>2 DEF Buses
    <3> QED BY <2>2, <3>1, <3>2, BusUpdate, Zenon
  <2>4. t \in RelaysOf(M)
    BY <2>2, <2>3, EnqueueKeeps, Zenon
  <2>5. Len(dropped) \in Nat
    BY <2>2, RelayFields, RelayAssumption, DroppedIsOldest
  <2> HIDE DEF t, dropped, r, s, m
  <2>6. relay' \in [Nodes -> RelaysOf(M)] /\ counted' \in [Nodes -> Nat]
    <3>1. relay \in [Nodes -> RelaysOf(M)] /\ counted \in [Nodes -> Nat]
      BY Zenon DEF RelayInv, Scalars, M
    <3> QED BY <2>1, <2>4, <2>5, <3>1
  <2>7. /\ wire' \in [Nodes -> Seq(FramesOf(M))] /\ applied' \in [Nodes -> SUBSET Invalidations]
        /\ errors' \in [Nodes -> Nat] /\ faults' \in 0..MaxFaults
    BY Zenon, <2>1 DEF RelayInv, Scalars, M
  <2> QED BY <2>1, <2>3, <2>6, <2>7, LoopInv, Zenon DEF M
<1>ReadBusLaggedInv.
      ASSUME RelayInv, NEW n \in Nodes, ReadBusLagged(n)
      PROVE  RelayInv'
  <2> USE <1>ReadBusLaggedInv
  <2> DEFINE M == TrueMessages
             r == bus[n].relay
  <2>1. /\ bus' = [bus EXCEPT ![n].relay = CaughtUp(@)]
        /\ counted' = [counted EXCEPT ![n] = @ + r.missed]
        /\ UNCHANGED <<generation, issued, since, relay, wire, ring, applied, errors, faults>>
    BY Zenon DEF ReadBusLagged
  <2> HIDE DEF M
  <2>2. bus \in Buses(M) /\ r \in ReceiversOf(M)
    BY Zenon, BusUpdate DEF RelayInv, M
  <2>3. bus' \in Buses(M)
    <3>1. CaughtUp(r) \in ReceiversOf(M)
      BY Zenon, <2>2, TakenKeeps
    <3>2. bus' = [bus EXCEPT ![n].relay = CaughtUp(r)]
      BY Zenon, <2>1, <2>2 DEF Buses
    <3> QED BY <2>2, <3>1, <3>2, BusUpdate, Zenon
  <2>4. r.missed \in Nat
    BY Zenon, <2>2 DEF ReceiversOf
  <2> HIDE DEF r
  <2>5. counted' \in [Nodes -> Nat]
    BY <2>1, <2>4 DEF RelayInv, Scalars
  <2>6. /\ wire' \in [Nodes -> Seq(FramesOf(M))] /\ applied' \in [Nodes -> SUBSET Invalidations]
        /\ relay' \in [Nodes -> RelaysOf(M)]
        /\ errors' \in [Nodes -> Nat] /\ faults' \in 0..MaxFaults
    BY Zenon, <2>1 DEF RelayInv, Scalars, M
  <2> QED BY <2>1, <2>3, <2>5, <2>6, LoopInv, Zenon DEF M
<1>TakeOutboundInv.
      ASSUME RelayInv, NEW n \in Nodes, TakeOutbound(n)
      PROVE  RelayInv'
  <2> USE <1>TakeOutboundInv
  <2> DEFINE M == TrueMessages
             s == relay[n]
             t == [s EXCEPT !.sending = Head(s.outbound), !.outbound = Tail(@)]
  <2>1. relay \in [Nodes -> RelaysOf(M)] /\ s \in RelaysOf(M)
    BY Zenon DEF RelayInv
  <2> HIDE DEF M
  <2>2. /\ s.outbound /= <<>>
        /\ UNCHANGED <<generation, issued, since, bus, wire, ring, applied, counted, errors, faults>>
    BY Zenon DEF TakeOutbound
  <2>3. relay' = [relay EXCEPT ![n] = t]
    BY <2>1, Zenon DEF TakeOutbound
  <2>4. t \in RelaysOf(M)
    BY <2>1, <2>2, TakeOutboundKeeps, Zenon
  <2> HIDE DEF t
  <2>5. relay' \in [Nodes -> RelaysOf(M)]
    BY Zenon, <2>1, <2>3, <2>4
  <2>6. /\ bus' \in Buses(M)
        /\ wire' \in [Nodes -> Seq(FramesOf(M))] /\ applied' \in [Nodes -> SUBSET Invalidations]
        /\ counted' \in [Nodes -> Nat] /\ errors' \in [Nodes -> Nat] /\ faults' \in 0..MaxFaults
    BY <2>2, Zenon DEF RelayInv, Scalars, M
  <2> QED BY <2>2, <2>5, <2>6, LoopInv, Zenon DEF M
<1>PublishFrameInv.
      ASSUME RelayInv, NEW n \in Nodes, PublishFrame(n)
      PROVE  RelayInv'
  <2> USE <1>PublishFrameInv
  <2> DEFINE M == TrueMessages
             s == relay[n]
             frame == s.sending
             t == [s EXCEPT !.sending = NoFrame]
  <2>1. /\ relay \in [Nodes -> RelaysOf(M)] /\ s \in RelaysOf(M)
        /\ wire \in [Nodes -> Seq(FramesOf(M))]
    BY Zenon DEF RelayInv
  <2> HIDE DEF M
  <2>2. /\ frame /= NoFrame
        /\ UNCHANGED <<generation, issued, since, bus, ring, applied, errors>>
    BY Zenon DEF PublishFrame
  <2>3. relay' = [relay EXCEPT ![n] = t]
    BY <2>1, Zenon DEF PublishFrame
  <2>4. t \in RelaysOf(M) /\ frame \in FramesOf(M)
    BY <2>1, <2>2, TakeOutboundKeeps, RelayFields, Zenon
  <2> HIDE DEF t, frame
  <2>5. relay' \in [Nodes -> RelaysOf(M)]
    BY Zenon, <2>1, <2>3, <2>4
  <2>6. wire' \in [Nodes -> Seq(FramesOf(M))]
    <3>1. ASSUME NEW receivers,
                 wire' = [m \in Nodes |->
                            IF m \in receivers THEN Append(wire[m], frame) ELSE wire[m]]
          PROVE  wire' \in [Nodes -> Seq(FramesOf(M))]
      BY <2>1, <2>4, <3>1
    <3>2. CASE UNCHANGED wire
      BY Zenon, <2>1, <3>2
    <3>3. \/ UNCHANGED wire
          \/ wire' = [m \in Nodes |->
                        IF m \in Nodes \ {n} THEN Append(wire[m], frame) ELSE wire[m]]
          \/ wire' = [m \in Nodes |->
                        IF m \in Nodes THEN Append(wire[m], frame) ELSE wire[m]]
      BY Zenon DEF PublishFrame, frame
    <3> QED BY <3>1, <3>2, <3>3, Zenon
  <2>7. counted' \in [Nodes -> Nat] /\ faults' \in 0..MaxFaults
    <3>1. counted \in [Nodes -> Nat] /\ faults \in 0..MaxFaults /\ MaxFaults \in Nat
      BY Zenon, RelayAssumption DEF RelayInv, Scalars
    <3>2. /\ UNCHANGED counted \/ counted' = [counted EXCEPT ![n] = @ + 1]
          /\ UNCHANGED faults \/ (faults < MaxFaults /\ faults' = faults + 1)
      BY Zenon DEF PublishFrame
    <3> QED BY <3>1, <3>2
  <2>8. /\ bus' \in Buses(M) /\ applied' \in [Nodes -> SUBSET Invalidations]
        /\ errors' \in [Nodes -> Nat]
    BY <2>2, Zenon DEF RelayInv, Scalars, M
  <2> QED BY <2>2, <2>5, <2>6, <2>7, <2>8, LoopInv, Zenon DEF M
<1>ReceiveInv.
      ASSUME RelayInv, NEW n \in Nodes, NEW k \in DOMAIN wire[n], Receive(n, k)
      PROVE  RelayInv'
  <2> USE <1>ReceiveInv
  <2> DEFINE M == TrueMessages
             s == relay[n]
             w == wire[n]
             frame == w[k]
             t == [s EXCEPT !.last_seen = IF frame.id > @ THEN frame.id ELSE @,
                            !.inbound = PushDropOldest(@, frame, InboundCapacity)]
             lost == Len(Dropped(s.inbound, InboundCapacity))
             rest == SubSeq(w, 1, k - 1) \o SubSeq(w, k + 1, Len(w))
  <2>1. /\ relay \in [Nodes -> RelaysOf(M)] /\ s \in RelaysOf(M)
        /\ wire \in [Nodes -> Seq(FramesOf(M))] /\ w \in Seq(FramesOf(M))
    BY Zenon DEF RelayInv
  <2> HIDE DEF M
  <2>2. /\ relay' = [relay EXCEPT ![n] = t]
        /\ counted' = [counted EXCEPT ![n] = @ + lost]
        /\ \/ wire' = [wire EXCEPT ![n] = rest] /\ UNCHANGED faults
           \/ faults < MaxFaults /\ faults' = faults + 1 /\ UNCHANGED wire
        /\ UNCHANGED <<generation, issued, since, bus, ring, applied, errors>>
    BY <2>1, Zenon DEF Receive
  <2>3. frame \in FramesOf(M) /\ rest \in Seq(FramesOf(M))
    <3> HIDE DEF w
    <3>1. k \in 1..Len(w) /\ Len(w) \in Nat
      BY <2>1 DEF w
    <3>2. SubSeq(w, 1, k - 1) \in Seq(FramesOf(M)) /\ SubSeq(w, k + 1, Len(w)) \in Seq(FramesOf(M))
      BY <2>1, <3>1
    <3>3. rest \in Seq(FramesOf(M))
      BY <3>2
    <3> QED BY <2>1, <3>1, <3>3
  <2>4. t \in RelaysOf(M)
    <3> HIDE DEF frame
    <3> QED BY <2>1, <2>3, ReceiveKeeps, Zenon
  <2>5. lost \in Nat
    BY <2>1, RelayFields, RelayAssumption, DroppedIsOldest
  <2> HIDE DEF t, rest, lost
  <2>6. relay' \in [Nodes -> RelaysOf(M)] /\ wire' \in [Nodes -> Seq(FramesOf(M))]
    BY <2>1, <2>2, <2>3, <2>4, Zenon
  <2>7. counted' \in [Nodes -> Nat] /\ faults' \in 0..MaxFaults
    <3>1. counted \in [Nodes -> Nat] /\ faults \in 0..MaxFaults /\ MaxFaults \in Nat
      BY Zenon, RelayAssumption DEF RelayInv, Scalars
    <3> QED BY <2>2, <2>5, <3>1
  <2>8. /\ bus' \in Buses(M) /\ applied' \in [Nodes -> SUBSET Invalidations]
        /\ errors' \in [Nodes -> Nat]
    BY <2>2, Zenon DEF RelayInv, Scalars, M
  <2> QED BY <2>2, <2>6, <2>7, <2>8, LoopInv, Zenon DEF M
<1>ReceiveErrorInv.
      ASSUME RelayInv, NEW n \in Nodes, ReceiveError(n)
      PROVE  RelayInv'
  <2> USE <1>ReceiveErrorInv
  <2> DEFINE M == TrueMessages
             s == relay[n]
             t == [s EXCEPT !.resume = Append(@, s.last_seen)]
  <2>1. /\ relay \in [Nodes -> RelaysOf(M)] /\ s \in RelaysOf(M)
        /\ wire \in [Nodes -> Seq(FramesOf(M))]
    BY Zenon DEF RelayInv
  <2> HIDE DEF M
  <2>2. relay' = [relay EXCEPT ![n] = t]
    BY <2>1, Zenon DEF ReceiveError
  <2>3. /\ faults < MaxFaults /\ faults' = faults + 1
        /\ wire' = [wire EXCEPT ![n] = <<>>]
        /\ errors' = [errors EXCEPT ![n] = @ + 1]
        /\ UNCHANGED <<generation, issued, since, bus, ring, applied, counted>>
    BY Zenon DEF ReceiveError
  <2>4. t \in RelaysOf(M)
    BY <2>1, ReceiveKeeps, Zenon
  <2> HIDE DEF t
  <2>5. relay' \in [Nodes -> RelaysOf(M)] /\ wire' \in [Nodes -> Seq(FramesOf(M))]
    <3>1. <<>> \in Seq(FramesOf(M))
      OBVIOUS
    <3> QED BY <2>1, <2>2, <2>3, <2>4, <3>1, Zenon
  <2>6. errors' \in [Nodes -> Nat] /\ faults' \in 0..MaxFaults
    <3>1. errors \in [Nodes -> Nat] /\ faults \in 0..MaxFaults /\ MaxFaults \in Nat
      BY Zenon, RelayAssumption DEF RelayInv, Scalars
    <3> QED BY <2>3, <3>1
  <2>7. /\ bus' \in Buses(M) /\ applied' \in [Nodes -> SUBSET Invalidations]
        /\ counted' \in [Nodes -> Nat]
    BY <2>3, Zenon DEF RelayInv, Scalars, M
  <2> QED BY <2>3, <2>5, <2>6, <2>7, LoopInv, Zenon DEF M
<1>ReceiveGarbledInv.
      ASSUME RelayInv, NEW n \in Nodes, ReceiveGarbled(n)
      PROVE  RelayInv'
  <2> USE <1>ReceiveGarbledInv
  <2> DEFINE M == TrueMessages
             w == wire[n]
  <2>1. wire \in [Nodes -> Seq(FramesOf(M))] /\ w \in Seq(FramesOf(M))
    BY Zenon DEF RelayInv
  <2> HIDE DEF M
  <2>2. /\ faults < MaxFaults /\ faults' = faults + 1 /\ w /= <<>>
        /\ wire' = [wire EXCEPT ![n] = Tail(w)]
        /\ counted' = [counted EXCEPT ![n] = @ + 1]
        /\ UNCHANGED <<generation, issued, since, bus, relay, ring, applied, errors>>
    BY Zenon, <2>1 DEF ReceiveGarbled
  <2>3. Tail(w) \in Seq(FramesOf(M))
    BY <2>1, <2>2
  <2> HIDE DEF w
  <2>4. wire' \in [Nodes -> Seq(FramesOf(M))]
    BY <2>1, <2>2, <2>3, Zenon
  <2>5. counted' \in [Nodes -> Nat] /\ faults' \in 0..MaxFaults
    <3>1. counted \in [Nodes -> Nat] /\ faults \in 0..MaxFaults /\ MaxFaults \in Nat
      BY Zenon, RelayAssumption DEF RelayInv, Scalars
    <3> QED BY <2>2, <3>1
  <2>6. /\ bus' \in Buses(M) /\ applied' \in [Nodes -> SUBSET Invalidations]
        /\ relay' \in [Nodes -> RelaysOf(M)] /\ errors' \in [Nodes -> Nat]
    BY <2>2, Zenon DEF RelayInv, Scalars, M
  <2> QED BY <2>2, <2>4, <2>5, <2>6, LoopInv, Zenon DEF M
<1>ApplyInboundInv.
      ASSUME RelayInv, NEW n \in Nodes, ApplyInbound(n)
      PROVE  RelayInv'
  <2> USE <1>ApplyInboundInv
  <2> DEFINE M == TrueMessages
             s == relay[n]
             frame == Head(s.inbound)
             v == Verdict(n, s, frame)
             t == Inspected(s, frame, v)
             lost == IF v \in {"own", "apply"} THEN 0 ELSE 1
  <2>1. relay \in [Nodes -> RelaysOf(M)] /\ s \in RelaysOf(M) /\ bus \in Buses(M)
    BY Zenon DEF RelayInv
  <2>2. M \subseteq Messages
    BY Zenon DEF TrueMessages
  <2> HIDE DEF M, v
  <2>3. /\ s.inbound /= <<>>
        /\ relay' = [relay EXCEPT ![n] = t]
        /\ bus' = IF v = "apply" THEN [bus EXCEPT ![n] = Sent(@, frame.message)] ELSE bus
        /\ counted' = [counted EXCEPT ![n] = @ + lost]
        /\ UNCHANGED <<generation, issued, since, wire, ring, applied, errors, faults>>
    BY Zenon DEF ApplyInbound, v
  <2>4. t \in RelaysOf(M)
    BY <2>1, <2>2, <2>3, InspectedKeeps, Zenon
  <2>5. frame.message \in M
    <3>1. s.inbound \in Seq(FramesOf(M))
      BY Zenon, <2>1, RelayFields
    <3>2. frame \in FramesOf(M)
      BY <2>3, <3>1
    <3> QED BY Zenon, <3>2 DEF FramesOf
  <2> HIDE DEF t, s, frame
  <2>6. relay' \in [Nodes -> RelaysOf(M)]
    BY <2>1, <2>3, <2>4, Zenon
  <2>7. bus' \in Buses(M)
    <3>1. bus[n] \in [relay : ReceiversOf(M), listener : ReceiversOf(M)]
      BY Zenon, <2>1, BusUpdate
    <3>2. Sent(bus[n], frame.message) \in [relay : ReceiversOf(M), listener : ReceiversOf(M)]
      BY <2>5, <3>1, SentKeeps, Zenon
    <3>3. [bus EXCEPT ![n] = Sent(bus[n], frame.message)] \in Buses(M)
      BY <2>1, <3>2, BusUpdate, Zenon
    <3> QED BY <2>1, <2>3, <3>3, Zenon
  <2>8. counted' \in [Nodes -> Nat]
    BY <2>3 DEF RelayInv, Scalars
  <2>9. /\ wire' \in [Nodes -> Seq(FramesOf(M))] /\ applied' \in [Nodes -> SUBSET Invalidations]
        /\ errors' \in [Nodes -> Nat] /\ faults' \in 0..MaxFaults
    BY <2>3, Zenon DEF RelayInv, Scalars, M
  <2> QED BY <2>3, <2>6, <2>7, <2>8, <2>9, LoopInv, Zenon DEF M
<1>ResumeInv.
      ASSUME RelayInv, NEW n \in Nodes, Resume(n)
      PROVE  RelayInv'
  <2> USE <1>ResumeInv
  <2> DEFINE M == TrueMessages
             s == relay[n]
             p == ReplayFrames(ring[n], Head(s.resume))
             frames == s.inbound \o p
             excess == IF Len(frames) > InboundCapacity
                       THEN Len(frames) - InboundCapacity ELSE 0
             t == [s EXCEPT !.resume = Tail(@),
                            !.inbound = SubSeq(frames, excess + 1, Len(frames))]
  <2>1. relay \in [Nodes -> RelaysOf(M)] /\ s \in RelaysOf(M)
    BY Zenon DEF RelayInv
  <2> HIDE DEF M, p
  <2>3. /\ s.resume /= <<>>
        /\ relay' = [relay EXCEPT ![n] = t]
        /\ counted' = [counted EXCEPT ![n] = @ + excess]
        /\ UNCHANGED <<generation, issued, since, bus, wire, ring, applied, errors, faults>>
    BY Zenon DEF Resume, p
  <2>4. p \in Seq(FramesOf(M))
    BY <2>3, ReplayIsTrue, Zenon DEF p, M
  <2>5. t \in RelaysOf(M) /\ excess \in 0..Len(frames) /\ frames \in Seq(FramesOf(M))
    BY <2>1, <2>3, <2>4, ResumeKeeps, Zenon
  <2>6. excess \in Nat
    BY <2>5
  <2> HIDE DEF t, excess, frames
  <2>7. relay' \in [Nodes -> RelaysOf(M)]
    BY <2>1, <2>3, <2>5, Zenon
  <2>8. counted' \in [Nodes -> Nat]
    BY <2>3, <2>6 DEF RelayInv, Scalars
  <2>9. /\ wire' \in [Nodes -> Seq(FramesOf(M))] /\ applied' \in [Nodes -> SUBSET Invalidations]
        /\ bus' \in Buses(M) /\ errors' \in [Nodes -> Nat] /\ faults' \in 0..MaxFaults
    BY <2>3, Zenon DEF RelayInv, Scalars, M
  <2> QED BY <2>3, <2>7, <2>8, <2>9, LoopInv, Zenon DEF M
<1>ListenInv.
      ASSUME RelayInv, NEW n \in Nodes, Listen(n) \/ ListenLagged(n)
      PROVE  RelayInv'
  <2> USE <1>ListenInv
  <2> DEFINE M == TrueMessages
             r == bus[n].listener
             m == Head(r.unread)
  <2>1. UNCHANGED <<generation, issued, since, relay, wire, ring, errors, faults>>
    BY Zenon DEF Listen, ListenLagged
  <2> HIDE DEF M
  <2>2. bus \in Buses(M) /\ r \in ReceiversOf(M)
    BY BusUpdate, Zenon DEF RelayInv, M
  <2>3. /\ relay' \in [Nodes -> RelaysOf(M)] /\ wire' \in [Nodes -> Seq(FramesOf(M))]
        /\ errors' \in [Nodes -> Nat] /\ faults' \in 0..MaxFaults
    BY <2>1, Zenon DEF RelayInv, Scalars, M
  <2>4. CASE Listen(n)
    <3>1. /\ r.unread /= <<>>
          /\ bus' = [bus EXCEPT ![n].listener = Taken(@)]
          /\ UNCHANGED counted
          /\ applied' = [applied EXCEPT ![n] = @ \cup Told(m)] \/ UNCHANGED applied
             \/ applied' = [applied EXCEPT ![n] = @ \cup {}]
      BY <2>4, Zenon DEF Listen
    <3>2. bus' \in Buses(M)
      <4>1. Taken(r) \in ReceiversOf(M)
        BY Zenon, <2>2, <3>1, TakenKeeps
      <4>2. bus' = [bus EXCEPT ![n].listener = Taken(r)]
        BY Zenon, <2>2, <3>1 DEF Buses
      <4> QED BY <2>2, <4>1, <4>2, BusUpdate, Zenon
    <3>3. m.invalidation \in Invalidations \cup {Flush}
      <4>1. m \in M
        BY Zenon, <2>2, <3>1, TakenKeeps
      <4> QED BY <4>1, Zenon DEF M, TrueMessages, Messages
    <3>4. Told(m) \subseteq Invalidations
      <4>1. 1..Len(issued) \subseteq Invalidations
        BY RelayAssumption DEF RelayInv, Scalars, Invalidations
      <4> QED BY Zenon, <3>3, <4>1 DEF Told
    <3>5. applied' \in [Nodes -> SUBSET Invalidations] /\ counted' \in [Nodes -> Nat]
      <4>1. applied \in [Nodes -> SUBSET Invalidations] /\ counted \in [Nodes -> Nat]
        BY Zenon DEF RelayInv, Scalars
      <4> HIDE DEF m
      <4> QED BY Zenon, <3>1, <3>4, <4>1
    <3> QED BY <2>1, <2>3, <3>2, <3>5, LoopInv, Zenon DEF M
  <2>5. CASE ListenLagged(n)
    <3>1. /\ bus' = [bus EXCEPT ![n].listener = CaughtUp(@)]
          /\ counted' = [counted EXCEPT ![n] = @ + r.missed]
          /\ UNCHANGED applied
      BY Zenon, <2>5 DEF ListenLagged
    <3>2. bus' \in Buses(M)
      <4>1. CaughtUp(r) \in ReceiversOf(M)
        BY Zenon, <2>2, TakenKeeps
      <4>2. bus' = [bus EXCEPT ![n].listener = CaughtUp(r)]
        BY Zenon, <2>2, <3>1 DEF Buses
      <4> QED BY <2>2, <4>1, <4>2, BusUpdate, Zenon
    <3>3. r.missed \in Nat
      BY Zenon, <2>2 DEF ReceiversOf
    <3>4. applied' \in [Nodes -> SUBSET Invalidations] /\ counted' \in [Nodes -> Nat]
      <4> HIDE DEF r
      <4> QED BY <3>1, <3>3 DEF RelayInv, Scalars
    <3> QED BY <2>1, <2>3, <3>2, <3>4, LoopInv, Zenon DEF M
  <2> QED BY Zenon, <2>4, <2>5
<1>PublishInv.
      ASSUME RelayInv, NEW n \in Nodes, Publish(n)
      PROVE  RelayInv'
  <2> USE <1>PublishInv
  <2> DEFINE N == TrueMessages'
             i == Len(issued) + 1
             m == Message(n, generation[n], i)
  <2>1. /\ n \in Publishers /\ Len(issued) < MaxIssued
        /\ issued' = Append(issued, n)
        /\ applied' = [applied EXCEPT ![n] = @ \cup {i}]
        /\ bus' = [bus EXCEPT ![n] = Sent(@, m)]
        /\ ring' = [k \in Nodes |-> IF k = n THEN ring[k] ELSE RingPublish(ring[k], i)]
        /\ UNCHANGED <<generation, since, relay, wire, counted, errors, faults>>
    BY Zenon DEF Publish
  <2>2. /\ issued \in Seq(Publishers) /\ Len(issued) \in Nat /\ i \in Invalidations
        /\ Len(issued') = i /\ issued' \in Seq(Publishers) /\ i \in 1..i /\ i <= MaxIssued
        /\ issued'[i] = n /\ \A k \in 1..Len(issued) : k \in 1..i /\ issued'[k] = issued[k]
    BY <2>1, RelayAssumption DEF RelayInv, Scalars, Invalidations
  <2> HIDE DEF i
  <2>3. TrueMessages \subseteq N
    <3> SUFFICES ASSUME NEW x \in TrueMessages PROVE x \in N
      BY Zenon
    <3>1. CASE x.source \in Nodes
      <4>1. /\ x \in Messages /\ x.invalidation \in 1..Len(issued)
            /\ issued[x.invalidation] = x.source
            /\ x.invalidation > since[x.source] => x.generation = generation[x.source]
        BY <3>1, Zenon DEF TrueMessages
      <4>2. x.invalidation \in 1..Len(issued') /\ issued'[x.invalidation] = x.source
        BY Zenon, <2>2, <4>1
      <4>3. x.invalidation > since'[x.source] => x.generation = generation'[x.source]
        BY <2>1, <4>1, Zenon
      <4> QED BY <3>1, <4>1, <4>2, <4>3, Zenon DEF TrueMessages
    <3>2. CASE x.source \notin Nodes
      BY <3>2, Zenon DEF TrueMessages
    <3> QED BY Zenon, <3>1, <3>2
  <2>4. m \in N
    <3>1. generation[n] \in Nat
      BY Zenon DEF RelayInv, Scalars
    <3>2. /\ m.source = n /\ m.generation = generation[n] /\ m.invalidation = i
          /\ m \in Messages
      BY Zenon, <2>2, <3>1 DEF Message, Messages, Sources
    <3>3. i \in 1..Len(issued')
      BY Zenon, <2>2
    <3> HIDE DEF m
    <3> QED BY <2>1, <2>2, <3>2, <3>3, Zenon DEF TrueMessages
  <2> HIDE DEF N, m
  <2>5. bus \in Buses(N) /\ relay \in [Nodes -> RelaysOf(N)]
    BY <2>3, WiderQueues, Zenon
  <2>6. bus' \in Buses(N)
    <3>1. bus[n] \in [relay : ReceiversOf(N), listener : ReceiversOf(N)]
      BY <2>5, BusUpdate, Zenon
    <3>2. Sent(bus[n], m) \in [relay : ReceiversOf(N), listener : ReceiversOf(N)]
      BY <2>4, <3>1, SentKeeps, Zenon
    <3> QED BY <2>1, <2>5, <3>2, BusUpdate, Zenon
  <2>7. Scalars'
    <3>1. applied' \in [Nodes -> SUBSET Invalidations]
      <4>1. applied \in [Nodes -> SUBSET Invalidations]
        BY Zenon DEF RelayInv, Scalars
      <4> QED BY Zenon, <2>1, <2>2, <4>1
    <3>2. Len(issued') <= MaxIssued /\ issued' \in Seq(Publishers)
      BY Zenon, <2>2
    <3> QED BY <2>1, <3>1, <3>2, Zenon DEF RelayInv, Scalars
  <2>8. RingsAreShaped'
    <3>1. ASSUME NEW k \in Nodes PROVE RingShape(ring'[k], Invalidations)
      <4>1. RingShape(ring[k], Invalidations)
        BY Zenon DEF RelayInv, RingsAreShaped
      <4>2. RingShape(RingPublish(ring[k], i), Invalidations)
        BY <2>2, <4>1, PublishKeepsShape, Zenon
      <4> QED BY Zenon, <2>1, <4>1, <4>2
    <3>2. ring' \in [Nodes -> Rings(Invalidations)]
      <4>1. \A k \in Nodes : ring'[k] \in Rings(Invalidations)
        BY <3>1, Zenon DEF RingShape
      <4> QED BY Zenon, <2>1, <4>1
    <3> QED BY <3>1, <3>2, Zenon DEF RingsAreShaped
  <2>9. relay' \in [Nodes -> RelaysOf(N)] /\ wire' \in [Nodes -> Seq(FramesOf(TrueMessages))]
    BY <2>1, <2>5, Zenon DEF RelayInv
  <2> QED BY <2>3, <2>6, <2>7, <2>8, <2>9, WiderInv, Zenon DEF N
<1>RespawnInv.
      ASSUME RelayInv, NEW n \in Nodes, Respawn(n)
      PROVE  RelayInv'
  <2> USE <1>RespawnInv
  <2> DEFINE N == TrueMessages'
  <2>1. /\ faults < MaxFaults /\ faults' = faults + 1
        /\ since' = [since EXCEPT ![n] = Len(issued)]
        /\ relay' = [relay EXCEPT ![n] = NewRelay]
        /\ wire' = [wire EXCEPT ![n] = <<>>]
        /\ counted' = [counted EXCEPT ![n] = 0]
        /\ errors' = [errors EXCEPT ![n] = 0]
        /\ UNCHANGED <<issued, ring>>
    BY Zenon DEF Respawn
  <2>2. /\ \/ bus' = [bus EXCEPT ![n].relay = NewReceiver]
           \/ bus' = [bus EXCEPT ![n] = [relay |-> NewReceiver, listener |-> NewReceiver]]
        /\ UNCHANGED generation \/ generation' = [generation EXCEPT ![n] = @ + 1]
        /\ UNCHANGED applied \/ applied' = [applied EXCEPT ![n] = 1..Len(issued)]
    BY Zenon DEF Respawn
  <2>3. /\ generation \in [Nodes -> Nat \ {0}] /\ since \in [Nodes -> 0..MaxIssued]
        /\ Len(issued) \in Nat /\ Len(issued) <= MaxIssued
        /\ faults \in 0..MaxFaults /\ MaxFaults \in Nat /\ MaxIssued \in Nat
        /\ counted \in [Nodes -> Nat] /\ errors \in [Nodes -> Nat]
        /\ applied \in [Nodes -> SUBSET Invalidations]
    BY RelayAssumption DEF RelayInv, Scalars
  <2>4. TrueMessages \subseteq N
    <3> SUFFICES ASSUME NEW x \in TrueMessages PROVE x \in N
      BY Zenon
    <3>1. CASE x.source \in Nodes
      <4>1. /\ x \in Messages /\ x.invalidation \in 1..Len(issued)
            /\ issued[x.invalidation] = x.source
            /\ x.invalidation > since[x.source] => x.generation = generation[x.source]
        BY <3>1, Zenon DEF TrueMessages
      <4>2. x.invalidation > since'[x.source] => x.generation = generation'[x.source]
        <5>1. CASE x.source = n
          <6>1. since'[x.source] = Len(issued)
            BY Zenon, <2>1, <2>3, <5>1
          <6>2. ~(x.invalidation > Len(issued))
            BY <2>3, <4>1
          <6> QED BY Zenon, <6>1, <6>2
        <5>2. CASE x.source /= n
          <6>1. since'[x.source] = since[x.source] /\ generation'[x.source] = generation[x.source]
            BY <2>1, <2>2, <2>3, <3>1, <5>2, Zenon
          <6> QED BY Zenon, <4>1, <6>1
        <5> QED BY Zenon, <5>1, <5>2
      <4> QED BY <2>1, <3>1, <4>1, <4>2, Zenon DEF TrueMessages
    <3>2. CASE x.source \notin Nodes
      BY <3>2, Zenon DEF TrueMessages
    <3> QED BY Zenon, <3>1, <3>2
  <2> HIDE DEF N
  <2>5. bus \in Buses(N) /\ relay \in [Nodes -> RelaysOf(N)]
    BY <2>4, WiderQueues, Zenon
  <2>6. NewRelay \in RelaysOf(N) /\ NewReceiver \in ReceiversOf(N)
    BY NewRelayIsOne, Zenon
  <2>7. bus' \in Buses(N)
    <3>1. [relay |-> NewReceiver, listener |-> NewReceiver]
            \in [relay : ReceiversOf(N), listener : ReceiversOf(N)]
      BY <2>6, Zenon
    <3>2. /\ [bus EXCEPT ![n].relay = NewReceiver] \in Buses(N)
          /\ [bus EXCEPT ![n] = [relay |-> NewReceiver, listener |-> NewReceiver]] \in Buses(N)
      BY <2>5, <2>6, <3>1, BusUpdate, Zenon
    <3> QED BY <2>2, <3>2, Zenon
  <2>8. relay' \in [Nodes -> RelaysOf(N)]
    BY <2>1, <2>5, <2>6, Zenon
  <2>9. wire' \in [Nodes -> Seq(FramesOf(TrueMessages))]
    <3>1. wire \in [Nodes -> Seq(FramesOf(TrueMessages))]
      BY Zenon DEF RelayInv
    <3>2. <<>> \in Seq(FramesOf(TrueMessages))
      OBVIOUS
    <3> QED BY <2>1, <3>1, <3>2, Zenon
  <2>10. Scalars'
    <3>1. generation' \in [Nodes -> Nat \ {0}]
      <4>1. generation[n] + 1 \in Nat \ {0}
        BY <2>3
      <4> QED BY <2>2, <2>3, <4>1, Zenon
    <3>2. since' \in [Nodes -> 0..MaxIssued] /\ faults' \in 0..MaxFaults
      BY <2>1, <2>3
    <3>3. counted' \in [Nodes -> Nat] /\ errors' \in [Nodes -> Nat]
      BY Zenon, <2>1, <2>3
    <3>4. applied' \in [Nodes -> SUBSET Invalidations]
      <4>1. 1..Len(issued) \subseteq Invalidations
        BY <2>3 DEF Invalidations
      <4> QED BY <2>2, <2>3, <4>1, Zenon
    <3>5. issued' \in Seq(Publishers) /\ Len(issued') <= MaxIssued
      BY Zenon, <2>1 DEF RelayInv, Scalars
    <3> QED BY <3>1, <3>2, <3>3, <3>4, <3>5, Zenon DEF Scalars
  <2>11. RingsAreShaped'
    BY <2>1, Zenon DEF RelayInv, RingsAreShaped
  <2> QED BY <2>4, <2>7, <2>8, <2>9, <2>10, <2>11, WiderInv, Zenon DEF N
<1> SUFFICES ASSUME RelayInv, [Next]_vars PROVE RelayInv'
  BY Zenon
<1>1. CASE UNCHANGED vars
  <2>1. UNCHANGED <<generation, issued, since>>
    BY <1>1, Zenon DEF vars
  <2>2. TrueMessages' = TrueMessages
    BY <2>1, SameTruth, Zenon
  <2> QED BY <1>1, <2>2, Zenon DEF vars, RelayInv, Scalars, RingsAreShaped
<1>2. ASSUME NEW n \in Nodes, LoopStep(n) PROVE RelayInv'
  BY <1>2, <1>ReadBusInv, <1>ReadBusLaggedInv, <1>TakeOutboundInv, <1>PublishFrameInv, <1>ReceiveInv,
     <1>ApplyInboundInv, <1>ResumeInv, <1>ListenInv, Zenon DEF LoopStep
<1>3. ASSUME NEW n \in Nodes, ReceiveError(n) \/ ReceiveGarbled(n) PROVE RelayInv'
  BY <1>3, <1>ReceiveErrorInv, <1>ReceiveGarbledInv, Zenon
<1>4. ASSUME NEW n \in Nodes, Publish(n) \/ Respawn(n) PROVE RelayInv'
  BY <1>4, <1>PublishInv, <1>RespawnInv, Zenon
<1> QED BY <1>1, <1>2, <1>3, <1>4, Zenon DEF Next

LEMMA RelayTyped == RelayInv => TypeOK
<1> SUFFICES ASSUME RelayInv PROVE TypeOK
  BY Zenon
<1>1. TrueMessages \subseteq Messages
  BY Zenon DEF TrueMessages
<1>2. bus \in Buses(Messages) /\ relay \in [Nodes -> RelaysOf(Messages)]
      /\ wire \in [Nodes -> Seq(FramesOf(Messages))]
  BY <1>1, WiderQueues, Zenon
<1>3. FramesOf(Messages) = Frames /\ RelayRecords(Frames) = Relays
  BY Zenon DEF FramesOf, Frames, RelayRecords, Relays
<1>4. /\ bus \in [Nodes -> [relay : Receivers, listener : Receivers]]
      /\ \A n \in Nodes : /\ Len(bus[n].relay.unread) <= BusCapacity
                          /\ Len(bus[n].listener.unread) <= BusCapacity
  BY Zenon, <1>2 DEF Buses, ReceiversOf, Receivers
<1>5. /\ relay \in [Nodes -> Relays]
      /\ \A n \in Nodes : WithinCapacity(relay[n])
  BY <1>2, <1>3, Zenon DEF RelaysOf
<1>6. wire \in [Nodes -> Seq(Frames)] /\ ring \in [Nodes -> Rings(Invalidations)]
  BY <1>2, <1>3, Zenon DEF RelayInv, RingsAreShaped
<1> QED BY <1>4, <1>5, <1>6, Zenon DEF RelayInv, Scalars, WithinCapacity, TypeOK

\* The relays, their queues, buses, rings and counters stay well typed, and no
\* queue outgrows its capacity (push_drop_oldest, remember, the broadcast
\* channel), for any number of nodes, invalidations and faults.
THEOREM RelayTypes == Spec => []TypeOK
  BY RelayTyped, RelayInit, RelayStep, PTL DEF Spec

\* A relay that asks its ring for what it missed is never told a range with a
\* hole in it: InvalidationRing falls back to clearing the partition exactly
\* when an event after the watermark has been overwritten, and returns exactly
\* the missed events otherwise.
THEOREM RingReplay == Spec => []RingReplayIsExact
<1>1. RelayInv => RingReplayIsExact
  BY ShapeMakesReplayExact, Zenon DEF RelayInv, RingsAreShaped, RingReplayIsExact
<1> QED BY <1>1, RelayInit, RelayStep, PTL DEF Spec


-----------------------------------------------------------------------------
\* The invalidations node n published after the first s, and whether one of
\* them waits for its number in the receiver of the relay.
OwnSince(s, history, n) == {i \in (s + 1)..Len(history) : history[i] = n}

Waits(q, n, i) == \E k \in 1..Len(q) : q[k].source = n /\ q[k].invalidation = i

OneEach(q, n) ==
    \A j, k \in 1..Len(q) :
        q[j].source = n /\ q[k].source = n /\ j /= k
          => q[j].invalidation /= q[k].invalidation

\* Every own invalidation waits once at most, and the ids up to `id' went to
\* own invalidations that wait no longer.
Numbered(q, n, own, id) ==
    /\ \A k \in 1..Len(q) : q[k].source = n => q[k].invalidation \in own
    /\ OneEach(q, n)
    /\ id <= 1 + Cardinality({i \in own : ~Waits(q, n, i)})

EachNumbered ==
    \A n \in Nodes :
        /\ since[n] <= Len(issued)
        /\ Numbered(bus[n].relay.unread, n, OwnSince(since[n], issued, n),
                    relay[n].next_message_id)

\* The rest of a queue.
LEMMA RestOf ==
    ASSUME NEW S, NEW q \in Seq(S), q /= <<>>
    PROVE  /\ Tail(q) \in Seq(S) /\ Len(Tail(q)) \in Nat /\ Len(q) \in Nat
           /\ 1 \in 1..Len(q) /\ Head(q) = q[1]
           /\ \A k \in 1..Len(Tail(q)) : k + 1 \in 1..Len(q) /\ Tail(q)[k] = q[k + 1]
           /\ \A k \in 1..Len(q) : k = 1 \/ (k - 1 \in 1..Len(Tail(q)) /\ q[k] = Tail(q)[k - 1])
  OBVIOUS

\* What is gone from the receiver, read or overwritten, has been waited for.
LEMMA TailNumbered ==
    ASSUME NEW q \in Seq(Messages), NEW n, NEW own, IsFiniteSet(own), NEW id \in Nat,
           Numbered(q, n, own, id), q /= <<>>
    PROVE  /\ Numbered(Tail(q), n, own, id)
           /\ Head(q).source = n => Numbered(Tail(q), n, own, id + 1)
<1> DEFINE t == Tail(q)
           A == {i \in own : ~Waits(q, n, i)}
           B == {i \in own : ~Waits(t, n, i)}
<1>1. /\ Len(t) \in Nat /\ Len(q) \in Nat /\ 1 \in 1..Len(q) /\ Head(q) = q[1]
      /\ \A k \in 1..Len(t) : k + 1 \in 1..Len(q) /\ t[k] = q[k + 1]
  BY Zenon, RestOf
<1> HIDE DEF t
<1>2. /\ \A k \in 1..Len(t) : t[k].source = n => t[k].invalidation \in own
      /\ \A i : Waits(t, n, i) => Waits(q, n, i)
  BY <1>1, Zenon DEF Numbered, Waits
<1>3. OneEach(t, n)
  <2> SUFFICES ASSUME NEW j \in 1..Len(t), NEW k \in 1..Len(t),
                      t[j].source = n, t[k].source = n, j /= k
               PROVE  t[j].invalidation /= t[k].invalidation
    BY Zenon DEF OneEach
  <2>1. j + 1 \in 1..Len(q) /\ k + 1 \in 1..Len(q) /\ t[j] = q[j + 1] /\ t[k] = q[k + 1]
    BY <1>1, Zenon
  <2>2. j + 1 /= k + 1
    BY <1>1
  <2> QED BY <2>1, <2>2, Zenon DEF Numbered, OneEach
<1>4. /\ IsFiniteSet(A) /\ IsFiniteSet(B) /\ A \subseteq B
      /\ Cardinality(A) \in Nat /\ Cardinality(B) \in Nat /\ Cardinality(A) <= Cardinality(B)
  <2>1. A \in SUBSET own /\ B \in SUBSET own /\ A \in SUBSET B
    BY <1>2, Zenon
  <2> HIDE DEF A, B
  <2>2. IsFiniteSet(A) /\ IsFiniteSet(B)
    BY <2>1, FS_Subset, Zenon
  <2> QED BY <2>1, <2>2, FS_Subset, FS_CardinalityType, Zenon
<1>5. id <= 1 + Cardinality(A)
  BY Zenon DEF Numbered
<1>6. Numbered(t, n, own, id)
  <2>1. id <= 1 + Cardinality(B)
    <3> HIDE DEF A, B
    <3> QED BY <1>4, <1>5
  <2> QED BY <1>2, <1>3, <2>1, Zenon DEF Numbered
<1>7. ASSUME Head(q).source = n PROVE Numbered(t, n, own, id + 1)
  <2> DEFINE i == q[1].invalidation
  <2>1. i \in own /\ Waits(q, n, i)
    BY <1>1, <1>7, Zenon DEF Numbered, Waits
  <2>2. ~Waits(t, n, i)
    <3> SUFFICES ASSUME NEW k \in 1..Len(t), t[k].source = n, t[k].invalidation = i
                 PROVE  FALSE
      BY Zenon DEF Waits
    <3>1. k + 1 \in 1..Len(q) /\ t[k] = q[k + 1]
      BY <1>1, Zenon
    <3>2. k + 1 /= 1
      BY <1>1
    <3> QED BY <1>1, <1>7, <3>1, <3>2, Zenon DEF Numbered, OneEach
  <2>3. i \notin A /\ A \cup {i} \in SUBSET B
    BY <1>4, <2>1, <2>2, Zenon
  <2> HIDE DEF A, B, i
  <2>4. Cardinality(A \cup {i}) = Cardinality(A) + 1
    BY <1>4, <2>3, FS_AddElement, Zenon
  <2>5. Cardinality(A \cup {i}) <= Cardinality(B)
    BY <1>4, <2>3, FS_Subset, Zenon
  <2>6. id + 1 <= 1 + Cardinality(B)
    BY <1>4, <1>5, <2>4, <2>5
  <2> QED BY <1>2, <1>3, <2>6, Zenon DEF Numbered, B
<1> QED BY <1>1, <1>6, <1>7, Zenon DEF t


\* A message behind the others: one of another source changes nothing, the
\* node's newest invalidation waits.
LEMMA AppendNumbered ==
    ASSUME NEW q \in Seq(Messages), NEW n, NEW own, NEW wider, IsFiniteSet(wider),
           NEW id \in Nat, Numbered(q, n, own, id), NEW x \in Messages,
           own \subseteq wider,
           x.source = n => x.invalidation \in wider \ own
    PROVE  Numbered(Append(q, x), n, wider, id)
<1> DEFINE p == Append(q, x)
           A == {i \in own : ~Waits(q, n, i)}
           B == {i \in wider : ~Waits(p, n, i)}
<1>1. /\ Len(q) \in Nat /\ Len(p) = Len(q) + 1
      /\ \A k \in 1..Len(p) : k \in 1..Len(q) \/ k = Len(q) + 1
      /\ \A k \in 1..Len(q) : p[k] = q[k]
      /\ p[Len(q) + 1] = x
  OBVIOUS
<1> HIDE DEF p
<1>2. \A k \in 1..Len(p) : p[k].source = n => p[k].invalidation \in wider
  BY <1>1, Zenon DEF Numbered
<1>3. \A k \in 1..Len(q) : q[k].source = n /\ x.source = n
                             => q[k].invalidation /= x.invalidation
  BY Zenon DEF Numbered
<1>4. OneEach(p, n)
  <2> SUFFICES ASSUME NEW j \in 1..Len(p), NEW k \in 1..Len(p),
                      p[j].source = n, p[k].source = n, j /= k
               PROVE  p[j].invalidation /= p[k].invalidation
    BY Zenon DEF OneEach
  <2>1. CASE j \in 1..Len(q) /\ k \in 1..Len(q)
    <3>1. p[j] = q[j] /\ p[k] = q[k] /\ OneEach(q, n)
      BY <1>1, <2>1, Zenon DEF Numbered
    <3> QED BY <2>1, <3>1, Zenon DEF OneEach
  <2>2. CASE j = Len(q) + 1 /\ k \in 1..Len(q)
    BY <1>1, <1>3, <2>2, Zenon
  <2>3. CASE j \in 1..Len(q) /\ k = Len(q) + 1
    BY <1>1, <1>3, <2>3, Zenon
  <2> QED BY <1>1, <2>1, <2>2, <2>3, Zenon
<1>5. A \subseteq B
  BY <1>1, Zenon DEF Waits
<1>6. id <= 1 + Cardinality(B)
  <2>1. id <= 1 + Cardinality(A)
    BY Zenon DEF Numbered
  <2>2. B \in SUBSET wider
    BY Zenon
  <2> HIDE DEF A, B
  <2>3. IsFiniteSet(B)
    BY <2>2, FS_Subset, Zenon
  <2>4. IsFiniteSet(A) /\ Cardinality(A) <= Cardinality(B)
    BY <1>5, <2>3, FS_Subset, Zenon
  <2>5. Cardinality(A) \in Nat /\ Cardinality(B) \in Nat
    BY <2>3, <2>4, FS_CardinalityType, Zenon
  <2> QED BY <2>1, <2>4, <2>5
<1> QED BY <1>2, <1>4, <1>6, Zenon DEF Numbered, p

LEMMA PushNumbered ==
    ASSUME NEW q \in Seq(Messages), NEW n, NEW own, NEW wider, IsFiniteSet(wider),
           NEW id \in Nat, Numbered(q, n, own, id), NEW x \in Messages,
           own \subseteq wider,
           x.source = n => x.invalidation \in wider \ own,
           NEW c \in Nat \ {0}
    PROVE  Numbered(PushDropOldest(q, x, c), n, wider, id)
<1>1. IsFiniteSet(own)
  BY FS_Subset, Zenon
<1>2. CASE Len(q) = c
  <2>1. q /= <<>>
    BY Zenon, <1>2
  <2>2. Tail(q) \in Seq(Messages) /\ Numbered(Tail(q), n, own, id)
    BY <1>1, <2>1, RestOf, TailNumbered, Zenon
  <2>3. Numbered(Append(Tail(q), x), n, wider, id)
    BY <2>2, AppendNumbered, Zenon
  <2> QED BY <1>2, <2>3, Zenon DEF PushDropOldest
<1>3. CASE Len(q) /= c
  <2>1. Numbered(Append(q, x), n, wider, id)
    BY AppendNumbered, Zenon
  <2> QED BY <1>3, <2>1, Zenon DEF PushDropOldest
<1> QED BY Zenon, <1>2, <1>3

\* There are finitely many invalidations.
LEMMA OwnIsFinite ==
    ASSUME NEW s \in Nat, NEW history \in Seq(Publishers), NEW n
    PROVE  IsFiniteSet(OwnSince(s, history, n))
<1>1. IsFiniteSet((s + 1)..Len(history))
  BY FS_Interval
<1>2. OwnSince(s, history, n) \in SUBSET ((s + 1)..Len(history))
  BY Zenon DEF OwnSince
<1> QED BY <1>1, <1>2, FS_Subset, Zenon

\* What a step may do to the receiver and the ids of the relay of node n,
\* unless something is published or the relay is spawned.
Inboxed(n) == bus[n].relay.unread

NextId(n) == relay[n].next_message_id

ReaderStep(n) ==
    \/ Inboxed(n)' = Inboxed(n) /\ NextId(n)' = NextId(n)
    \/ /\ Inboxed(n) /= <<>> /\ Inboxed(n)' = Tail(Inboxed(n))
       /\ \/ NextId(n)' = NextId(n)
          \/ Head(Inboxed(n)).source = n /\ NextId(n)' = NextId(n) + 1
    \/ /\ NextId(n)' = NextId(n)
       /\ \E x \in Messages :
            x.source /= n /\ Inboxed(n)' = PushDropOldest(Inboxed(n), x, BusCapacity)

\* What RelayInv says of them.
LEMMA InboxTypes ==
    ASSUME RelayInv, NEW n \in Nodes
    PROVE  /\ Inboxed(n) \in Seq(Messages) /\ NextId(n) \in Nat
           /\ since[n] \in Nat /\ issued \in Seq(Publishers)
           /\ IsFiniteSet(OwnSince(since[n], issued, n))
<1>1. TrueMessages \subseteq Messages
  BY Zenon DEF TrueMessages
<1>2. bus \in Buses(Messages) /\ relay \in [Nodes -> RelaysOf(Messages)]
  BY <1>1, WiderQueues, Zenon
<1>3. Inboxed(n) \in Seq(Messages)
  <2>1. bus[n].relay \in ReceiversOf(Messages)
    BY <1>2, BusUpdate, Zenon
  <2> QED BY Zenon, <2>1 DEF ReceiversOf, Inboxed
<1>4. NextId(n) \in Nat
  <2>1. relay[n] \in RelaysOf(Messages)
    BY <1>2, Zenon
  <2>2. relay[n].next_message_id \in Nat \ {0}
    BY <2>1, RelayFields, Zenon
  <2> QED BY Zenon, <2>2 DEF NextId
<1>5. since[n] \in Nat /\ issued \in Seq(Publishers)
  BY DEF RelayInv, Scalars
<1> QED BY <1>3, <1>4, <1>5, OwnIsFinite, Zenon

LEMMA NumberedInit == Init => EachNumbered
<1> SUFFICES ASSUME Init, NEW n \in Nodes
             PROVE  /\ since[n] <= Len(issued)
                    /\ Numbered(bus[n].relay.unread, n, OwnSince(since[n], issued, n),
                                relay[n].next_message_id)
  BY Zenon DEF EachNumbered
<1>1. /\ bus[n].relay.unread = <<>> /\ relay[n].next_message_id = 1
      /\ since[n] = 0 /\ issued = <<>>
  BY Zenon DEF Init, NewRelay, NewReceiver
<1>2. OwnSince(0, <<>>, n) = {} /\ 0 <= Len(<<>>)
  BY DEF OwnSince
<1>3. Numbered(<<>>, n, {}, 1)
  <2>1. {i \in {} : ~Waits(<<>>, n, i)} = {} /\ Cardinality({}) = 0
    BY Zenon, FS_EmptySet
  <2> QED BY <2>1 DEF Numbered, OneEach
<1> QED BY <1>1, <1>2, <1>3, Zenon

LEMMA NumberedStep == RelayInv /\ EachNumbered /\ [Next]_vars => EachNumbered'
<1>ReaderStepNumbered.
      ASSUME RelayInv, EachNumbered, UNCHANGED <<issued, since>>,
             \A n \in Nodes : ReaderStep(n)
      PROVE  EachNumbered'
  <2> USE <1>ReaderStepNumbered
  <2> SUFFICES ASSUME NEW n \in Nodes
               PROVE  Numbered(Inboxed(n)', n, OwnSince(since[n], issued, n), NextId(n)')
    BY Zenon DEF EachNumbered, Inboxed, NextId
  <2> DEFINE own == OwnSince(since[n], issued, n)
  <2>1. /\ Inboxed(n) \in Seq(Messages) /\ NextId(n) \in Nat /\ IsFiniteSet(own)
        /\ Numbered(Inboxed(n), n, own, NextId(n)) /\ ReaderStep(n)
    BY InboxTypes, Zenon DEF EachNumbered, Inboxed, NextId
  <2>2. BusCapacity \in Nat \ {0}
    BY Zenon, RelayAssumption
  <2> HIDE DEF own
  <2>3. CASE Inboxed(n)' = Inboxed(n) /\ NextId(n)' = NextId(n)
    BY <2>1, <2>3, Zenon DEF own
  <2>4. CASE /\ Inboxed(n) /= <<>> /\ Inboxed(n)' = Tail(Inboxed(n))
             /\ \/ NextId(n)' = NextId(n)
                \/ Head(Inboxed(n)).source = n /\ NextId(n)' = NextId(n) + 1
    BY <2>1, <2>4, TailNumbered, Zenon DEF own
  <2>5. ASSUME NextId(n)' = NextId(n), NEW x \in Messages, x.source /= n,
               Inboxed(n)' = PushDropOldest(Inboxed(n), x, BusCapacity)
        PROVE  Numbered(Inboxed(n)', n, own, NextId(n)')
    BY <2>1, <2>2, <2>5, PushNumbered, Zenon
  <2> QED BY <2>1, <2>3, <2>4, <2>5, Zenon DEF ReaderStep, own
  \* A step leaves the receiver and the ids of every other relay alone.
<1>OthersKeep.
      ASSUME NEW n \in Nodes, NEW m \in Nodes, m /= n,
             bus \in [Nodes -> [relay : Receivers, listener : Receivers]],
             relay \in [Nodes -> Relays],
             \/ UNCHANGED bus
             \/ \E c : bus' = [bus EXCEPT ![n] = c],
             \/ UNCHANGED relay
             \/ \E s : relay' = [relay EXCEPT ![n] = s]
      PROVE  ReaderStep(m)
  <2> USE <1>OthersKeep
  <2>1. bus'[m] = bus[m] /\ relay'[m] = relay[m]
    BY Zenon
  <2> QED BY Zenon, <2>1 DEF ReaderStep, Inboxed, NextId
<1>ReadBusReads.
      ASSUME TypeOK, NEW n \in Nodes, ReadBus(n)
      PROVE  \A m \in Nodes : ReaderStep(m)
  <2> USE <1>ReadBusReads
  <2> DEFINE r == bus[n].relay
             s == relay[n]
             frame == [message |-> Head(r.unread), id |-> s.next_message_id]
             t == [s EXCEPT !.next_message_id = @ + 1,
                            !.outbound = PushDropOldest(@, frame, OutboundCapacity),
                            !.resume = @ \o ResumePoints(Dropped(s.outbound, OutboundCapacity))]
  <2>1. /\ r.unread /= <<>>
        /\ bus' = [bus EXCEPT ![n].relay = Taken(r)]
        /\ \/ UNCHANGED relay
           \/ Head(r.unread).source = n /\ relay' = [relay EXCEPT ![n] = t]
    BY Zenon DEF ReadBus
  <2>2. /\ bus \in [Nodes -> [relay : Receivers, listener : Receivers]]
        /\ relay \in [Nodes -> Relays]
    BY Zenon DEF TypeOK
  <2>3. t.next_message_id = s.next_message_id + 1
    BY Zenon, <2>2 DEF Relays
  <2> HIDE DEF t
  <2>4. Inboxed(n)' = Tail(Inboxed(n)) /\ Inboxed(n) /= <<>>
    BY Zenon, <2>1, <2>2 DEF Inboxed, Taken, Receivers
  <2>5. \/ NextId(n)' = NextId(n)
        \/ Head(Inboxed(n)).source = n /\ NextId(n)' = NextId(n) + 1
    BY <2>1, <2>2, <2>3, Zenon DEF NextId, Inboxed
  <2>6. ReaderStep(n)
    BY <2>4, <2>5, Zenon DEF ReaderStep
  <2>7. ASSUME NEW m \in Nodes, m /= n PROVE ReaderStep(m)
    BY <2>1, <2>2, <2>7, <1>OthersKeep, Zenon
  <2> QED BY <2>6, <2>7, Zenon
<1>ReadBusLaggedReads.
      ASSUME TypeOK, NEW n \in Nodes, ReadBusLagged(n)
      PROVE  \A m \in Nodes : ReaderStep(m)
  <2> USE <1>ReadBusLaggedReads
  <2> DEFINE r == bus[n].relay
  <2>1. bus' = [bus EXCEPT ![n].relay = CaughtUp(r)] /\ UNCHANGED relay
    BY Zenon DEF ReadBusLagged
  <2>2. /\ bus \in [Nodes -> [relay : Receivers, listener : Receivers]]
        /\ relay \in [Nodes -> Relays]
    BY Zenon DEF TypeOK
  <2>3. Inboxed(n)' = Inboxed(n)
    BY Zenon, <2>1, <2>2 DEF Inboxed, CaughtUp, Receivers
  <2>4. ReaderStep(n)
    BY <2>1, <2>3, Zenon DEF ReaderStep, NextId
  <2>5. ASSUME NEW m \in Nodes, m /= n PROVE ReaderStep(m)
    BY <2>1, <2>2, <2>5, <1>OthersKeep, Zenon
  <2> QED BY <2>4, <2>5, Zenon
  \* The listener's reads do not touch the relay's receiver.
<1>ListenReads.
      ASSUME TypeOK, NEW n \in Nodes, Listen(n) \/ ListenLagged(n)
      PROVE  \A m \in Nodes : ReaderStep(m)
  <2> USE <1>ListenReads
  <2> DEFINE r == bus[n].listener
  <2>1. /\ \/ bus' = [bus EXCEPT ![n].listener = Taken(r)]
           \/ bus' = [bus EXCEPT ![n].listener = CaughtUp(r)]
        /\ UNCHANGED relay
    BY Zenon DEF Listen, ListenLagged
  <2>2. /\ bus \in [Nodes -> [relay : Receivers, listener : Receivers]]
        /\ relay \in [Nodes -> Relays]
    BY Zenon DEF TypeOK
  <2>3. Inboxed(n)' = Inboxed(n)
    BY Zenon, <2>1, <2>2 DEF Inboxed
  <2>4. ReaderStep(n)
    BY <2>1, <2>3, Zenon DEF ReaderStep, NextId
  <2>5. ASSUME NEW m \in Nodes, m /= n PROVE ReaderStep(m)
    BY <2>1, <2>2, <2>5, <1>OthersKeep, Zenon
  <2> QED BY <2>4, <2>5, Zenon
<1>OwnIsDropped.
      ASSUME NEW n, NEW s, NEW frame, frame.message.source = n
      PROVE  Verdict(n, s, frame) /= "apply"
  BY Zenon, <1>OwnIsDropped DEF Verdict
  \* An inbound frame of the node itself is not published to its bus.
<1>ApplyInboundReads.
      ASSUME RelayInv, NEW n \in Nodes, ApplyInbound(n)
      PROVE  \A m \in Nodes : ReaderStep(m)
  <2> USE <1>ApplyInboundReads
  <2> DEFINE s == relay[n]
             frame == Head(s.inbound)
             v == Verdict(n, s, frame)
             x == frame.message
             t == Inspected(s, frame, v)
  <2>1. /\ s.inbound /= <<>>
        /\ relay' = [relay EXCEPT ![n] = t]
        /\ bus' = IF v = "apply" THEN [bus EXCEPT ![n] = Sent(bus[n], x)] ELSE bus
    BY Zenon DEF ApplyInbound
  <2>2. /\ bus \in [Nodes -> [relay : Receivers, listener : Receivers]]
        /\ relay \in [Nodes -> Relays]
    BY RelayTyped, Zenon DEF TypeOK
  <2>3. x \in Messages
    <3>1. s.inbound \in Seq(Frames)
      BY Zenon, <2>2 DEF Relays
    <3>2. frame \in Frames
      BY <2>1, <3>1
    <3> QED BY <3>2, Zenon DEF Frames
  <2>4. v = "apply" => x.source /= n
    BY <1>OwnIsDropped, Zenon
  <2>5. t.next_message_id = s.next_message_id
    <3>1. s \in RelaysOf(TrueMessages) /\ TrueMessages \subseteq Messages
      BY Zenon DEF RelayInv, TrueMessages
    <3> QED BY <2>1, <3>1, InspectedKeeps, Zenon
  <2> HIDE DEF t, x, v, frame
  <2>6. NextId(n)' = NextId(n)
    BY <2>1, <2>2, <2>5, Zenon DEF NextId
  <2>7. ReaderStep(n)
    <3>1. CASE v = "apply"
      <4>1. bus'[n] = Sent(bus[n], x)
        BY <2>1, <2>2, <3>1, Zenon
      <4>2. Inboxed(n)' = PushDropOldest(Inboxed(n), x, BusCapacity)
        BY <4>1 DEF Inboxed, Sent, Offered
      <4> QED BY <2>3, <2>4, <2>6, <3>1, <4>2, Zenon DEF ReaderStep
    <3>2. CASE v /= "apply"
      BY <2>1, <2>6, <3>2, Zenon DEF ReaderStep, Inboxed
    <3> QED BY Zenon, <3>1, <3>2
  <2>8. ASSUME NEW m \in Nodes, m /= n PROVE ReaderStep(m)
    BY <2>1, <2>2, <2>8, <1>OthersKeep, Zenon
  <2> QED BY <2>7, <2>8, Zenon
  \* The other steps of a relay's loops leave the bus and the ids alone.
<1>QueueStepReads.
      ASSUME TypeOK, NEW n \in Nodes,
             \/ TakeOutbound(n) \/ PublishFrame(n) \/ Resume(n)
             \/ \E k \in DOMAIN wire[n] : Receive(n, k)
             \/ ReceiveError(n) \/ ReceiveGarbled(n)
      PROVE  UNCHANGED <<issued, since>> /\ \A m \in Nodes : ReaderStep(m)
  <2> USE <1>QueueStepReads
  <2>1. relay \in [Nodes -> Relays]
    BY Zenon DEF TypeOK
  <2>2. UNCHANGED <<issued, since, bus>>
    BY Zenon DEF TakeOutbound, PublishFrame, Resume, Receive, ReceiveError, ReceiveGarbled
  <2> DEFINE Same == \A m \in Nodes : relay'[m].next_message_id = relay[m].next_message_id
  <2>3. ASSUME NEW s, s.next_message_id = relay[n].next_message_id,
               relay' = [relay EXCEPT ![n] = s]
        PROVE  Same
    BY <2>1, <2>3, Zenon
  <2>4. relay[n] \in Relays
    BY <2>1, Zenon
  <2>5. ASSUME TakeOutbound(n) PROVE Same
    <3>1. [relay[n] EXCEPT !.sending = Head(relay[n].outbound), !.outbound = Tail(@)]
            .next_message_id = relay[n].next_message_id
      BY Zenon, <2>4 DEF Relays
    <3>2. relay' = [relay EXCEPT ![n] =
            [relay[n] EXCEPT !.sending = Head(relay[n].outbound), !.outbound = Tail(@)]]
      BY <2>5, Zenon DEF TakeOutbound
    <3> QED BY <2>3, <3>1, <3>2, Zenon
  <2>6. ASSUME PublishFrame(n) PROVE Same
    <3>1. [relay[n] EXCEPT !.sending = NoFrame].next_message_id = relay[n].next_message_id
      BY Zenon, <2>4 DEF Relays
    <3>2. relay' = [relay EXCEPT ![n] = [relay[n] EXCEPT !.sending = NoFrame]]
      BY <2>6, Zenon DEF PublishFrame
    <3> QED BY <2>3, <3>1, <3>2, Zenon
  <2>7. ASSUME Resume(n) PROVE Same
    <3>1. PICK q, p : relay' = [relay EXCEPT ![n] =
                                  [relay[n] EXCEPT !.resume = q, !.inbound = p]]
      BY <2>7, Zenon DEF Resume
    <3>2. [relay[n] EXCEPT !.resume = q, !.inbound = p].next_message_id
            = relay[n].next_message_id
      BY Zenon, <2>4 DEF Relays
    <3> QED BY <2>3, <3>1, <3>2, Zenon
  <2>8. ASSUME NEW k, Receive(n, k) PROVE Same
    <3>1. PICK l, q : relay' = [relay EXCEPT ![n] =
                                  [relay[n] EXCEPT !.last_seen = l, !.inbound = q]]
      BY <2>8, Zenon DEF Receive
    <3>2. [relay[n] EXCEPT !.last_seen = l, !.inbound = q].next_message_id
            = relay[n].next_message_id
      BY Zenon, <2>4 DEF Relays
    <3> QED BY <2>3, <3>1, <3>2, Zenon
  <2>9. ASSUME ReceiveError(n) PROVE Same
    <3>1. PICK q : relay' = [relay EXCEPT ![n] = [relay[n] EXCEPT !.resume = q]]
      BY <2>9, Zenon DEF ReceiveError
    <3>2. [relay[n] EXCEPT !.resume = q].next_message_id = relay[n].next_message_id
      BY Zenon, <2>4 DEF Relays
    <3> QED BY <2>3, <3>1, <3>2, Zenon
  <2>10. ASSUME ReceiveGarbled(n) PROVE Same
    BY <2>10, Zenon DEF ReceiveGarbled
  <2>11. Same
    BY <2>5, <2>6, <2>7, <2>8, <2>9, <2>10, Zenon
  <2> QED BY <2>2, <2>11, Zenon DEF ReaderStep, Inboxed, NextId
  \* A new invalidation is one more of its node and of no other.
<1>OwnGrows.
      ASSUME NEW s \in Nat, NEW h \in Seq(Publishers), NEW n \in Publishers, NEW m
      PROVE  LET own == OwnSince(s, h, m)
                 wider == OwnSince(s, Append(h, n), m)
             IN /\ own \subseteq wider /\ Len(h) + 1 \notin own
                /\ m /= n => wider = own
                /\ m = n /\ s <= Len(h) => Len(h) + 1 \in wider
  <2> USE <1>OwnGrows
  <2> DEFINE l == Len(h)
             g == Append(h, n)
  <2>1. l \in Nat /\ Len(g) = l + 1 /\ g[l + 1] = n /\ \A k \in 1..l : g[k] = h[k]
    OBVIOUS
  <2> HIDE DEF l, g
  <2>2. OwnSince(s, h, m) = {k \in (s + 1)..l : h[k] = m}
        /\ OwnSince(s, g, m) = {k \in (s + 1)..(l + 1) : g[k] = m}
    BY <2>1, Zenon DEF OwnSince, l
  <2>3. /\ \A k \in (s + 1)..l : k \in (s + 1)..(l + 1) /\ g[k] = h[k]
        /\ \A k \in (s + 1)..(l + 1) : k \in (s + 1)..l \/ k = l + 1
        /\ l + 1 \notin (s + 1)..l
        /\ s <= l => l + 1 \in (s + 1)..(l + 1)
    BY <2>1
  <2>4. /\ OwnSince(s, h, m) \subseteq OwnSince(s, g, m) /\ l + 1 \notin OwnSince(s, h, m)
        /\ m /= n => OwnSince(s, g, m) \subseteq OwnSince(s, h, m)
        /\ m = n /\ s <= l => l + 1 \in OwnSince(s, g, m)
    BY <2>1, <2>2, <2>3, Zenon
  <2> QED BY <2>4, Zenon DEF l, g
  \* A new invalidation of the node waits behind the others.
<1>PublishNumbered.
      ASSUME RelayInv, EachNumbered, NEW n \in Nodes, Publish(n)
      PROVE  EachNumbered'
  <2> USE <1>PublishNumbered
  <2> SUFFICES ASSUME NEW m \in Nodes
               PROVE  /\ since[m] <= Len(issued')
                      /\ Numbered(Inboxed(m)', m, OwnSince(since[m], issued', m), NextId(m)')
    BY Zenon DEF EachNumbered, Inboxed, NextId, Publish
  <2> DEFINE i == Len(issued) + 1
             x == Message(n, generation[n], i)
             own == OwnSince(since[m], issued, m)
             wider == OwnSince(since[m], issued', m)
  <2>1. /\ issued' = Append(issued, n) /\ Len(issued) < MaxIssued /\ n \in Publishers
        /\ bus' = [bus EXCEPT ![n] = Sent(bus[n], x)] /\ UNCHANGED <<since, relay>>
    BY Zenon DEF Publish
  <2>2. /\ bus \in [Nodes -> [relay : Receivers, listener : Receivers]]
        /\ issued \in Seq(Publishers) /\ since[m] \in Nat /\ MaxIssued \in Nat
        /\ generation[n] \in Nat
    BY RelayTyped, RelayAssumption DEF TypeOK
  <2>3. /\ Inboxed(m) \in Seq(Messages) /\ NextId(m) \in Nat
        /\ Numbered(Inboxed(m), m, own, NextId(m))
    BY InboxTypes, Zenon DEF EachNumbered, Inboxed, NextId
  <2>4. IsFiniteSet(wider) /\ since[m] <= Len(issued) /\ since[m] <= Len(issued')
    <3>1. issued' \in Seq(Publishers) /\ Len(issued') = Len(issued) + 1
      BY <2>1, <2>2
    <3>2. since[m] <= Len(issued)
      BY Zenon DEF EachNumbered
    <3>3. since[m] <= Len(issued')
      BY <2>2, <3>1, <3>2
    <3> QED BY <2>2, <3>1, <3>2, <3>3, OwnIsFinite, Zenon
  <2>5. x \in Messages /\ x.source = n /\ x.invalidation = i
    <3>1. i \in Invalidations
      BY <2>1, <2>2 DEF Invalidations
    <3> QED BY <2>2, <3>1, Zenon DEF Message, Messages, Sources
  <2>6. /\ own \subseteq wider /\ i \notin own
        /\ m /= n => wider = own
        /\ m = n => i \in wider
    BY <2>1, <2>2, <2>4, <1>OwnGrows, Zenon
  <2>7. NextId(m)' = NextId(m)
    BY <2>1, Zenon DEF NextId
  <2>8. CASE m = n
    <3> HIDE DEF x, own, wider, i
    <3>2. bus'[n] = Sent(bus[n], x)
      BY <2>1, <2>2, Zenon
    <3>3. Inboxed(m)' = PushDropOldest(Inboxed(m), x, BusCapacity)
      <4>1. Inboxed(m)' = Sent(bus[n], x).relay.unread
        BY <2>8, <3>2, Zenon DEF Inboxed
      <4> QED BY Zenon, <2>8, <4>1 DEF Inboxed, Sent, Offered
    <3>4. BusCapacity \in Nat \ {0}
      BY Zenon, RelayAssumption
    <3>5. Numbered(PushDropOldest(Inboxed(m), x, BusCapacity), m, wider, NextId(m))
      BY <2>3, <2>4, <2>5, <2>6, <2>8, <3>4, PushNumbered, Zenon
    <3> QED BY <2>4, <2>7, <3>3, <3>5, Zenon DEF wider
  <2>9. CASE m /= n
    <3>1. Inboxed(m)' = Inboxed(m)
      BY <2>1, <2>2, <2>9, Zenon DEF Inboxed
    <3> QED BY <2>3, <2>4, <2>6, <2>7, <2>9, <3>1, Zenon
  <2> QED BY Zenon, <2>8, <2>9
  \* A relay that is spawned has numbered nothing and has nothing to read.
<1>RespawnNumbered.
      ASSUME RelayInv, EachNumbered, NEW n \in Nodes, Respawn(n)
      PROVE  EachNumbered'
  <2> USE <1>RespawnNumbered
  <2> SUFFICES ASSUME NEW m \in Nodes
               PROVE  /\ since'[m] <= Len(issued)
                      /\ Numbered(Inboxed(m)', m, OwnSince(since'[m], issued, m), NextId(m)')
    BY Zenon DEF EachNumbered, Inboxed, NextId, Respawn
  <2>1. /\ since' = [since EXCEPT ![n] = Len(issued)]
        /\ relay' = [relay EXCEPT ![n] = NewRelay]
        /\ \/ bus' = [bus EXCEPT ![n].relay = NewReceiver]
           \/ bus' = [bus EXCEPT ![n] = [relay |-> NewReceiver, listener |-> NewReceiver]]
    BY Zenon DEF Respawn
  <2>2. /\ bus \in [Nodes -> [relay : Receivers, listener : Receivers]]
        /\ relay \in [Nodes -> Relays] /\ since \in [Nodes -> 0..MaxIssued]
        /\ issued \in Seq(Publishers)
    BY RelayTyped, Zenon DEF TypeOK
  <2>3. CASE m = n
    <3>1. Inboxed(m)' = <<>>
      BY <2>1, <2>2, <2>3 DEF Inboxed, NewReceiver
    <3>2. NextId(m)' = 1 /\ since'[m] = Len(issued)
      BY Zenon, <2>1, <2>2, <2>3 DEF NextId, NewRelay
    <3>3. OwnSince(Len(issued), issued, m) = {}
      BY <2>2 DEF OwnSince
    <3>4. Numbered(<<>>, m, {}, 1)
      <4>1. {i \in {} : ~Waits(<<>>, m, i)} = {} /\ Cardinality({}) = 0
        BY Zenon, FS_EmptySet
      <4> QED BY <4>1 DEF Numbered, OneEach
    <3>5. Len(issued) <= Len(issued)
      BY <2>2
    <3> QED BY <3>1, <3>2, <3>3, <3>4, <3>5, Zenon
  <2>4. CASE m /= n
    <3>1. bus'[m] = bus[m] /\ relay'[m] = relay[m] /\ since'[m] = since[m]
      BY <2>1, <2>2, <2>4, Zenon
    <3> QED BY <3>1, Zenon DEF EachNumbered, Inboxed, NextId
  <2> QED BY Zenon, <2>3, <2>4
<1> SUFFICES ASSUME RelayInv, EachNumbered, [Next]_vars PROVE EachNumbered'
  BY Zenon
<1>1. TypeOK
  BY Zenon, RelayTyped
<1>2. CASE UNCHANGED vars
  BY <1>2, Zenon DEF vars, EachNumbered
<1>3. ASSUME NEW n \in Nodes, ReadBus(n) \/ ReadBusLagged(n) \/ Listen(n) \/ ListenLagged(n)
                                \/ ApplyInbound(n)
      PROVE  EachNumbered'
  <2>1. UNCHANGED <<issued, since>>
    BY <1>3, Zenon DEF ReadBus, ReadBusLagged, Listen, ListenLagged, ApplyInbound
  <2>2. \A m \in Nodes : ReaderStep(m)
    BY <1>1, <1>3, <1>ReadBusReads, <1>ReadBusLaggedReads, <1>ListenReads, <1>ApplyInboundReads, Zenon
  <2> QED BY <2>1, <2>2, <1>ReaderStepNumbered, Zenon
<1>4. ASSUME NEW n \in Nodes,
             \/ TakeOutbound(n) \/ PublishFrame(n) \/ Resume(n)
             \/ \E k \in DOMAIN wire[n] : Receive(n, k)
             \/ ReceiveError(n) \/ ReceiveGarbled(n)
      PROVE  EachNumbered'
  BY <1>1, <1>4, <1>QueueStepReads, <1>ReaderStepNumbered, Zenon
<1>5. ASSUME NEW n \in Nodes, Publish(n) \/ Respawn(n) PROVE EachNumbered'
  BY <1>5, <1>PublishNumbered, <1>RespawnNumbered, Zenon
<1> QED BY <1>2, <1>3, <1>4, <1>5, Zenon DEF Next, LoopStep

\* One invalidation is not amplified by the nodes that receive it: over any
\* number of nodes and faults, echoes and replays included, a relay numbers at
\* most one frame for each invalidation its own cache published since the
\* relay was spawned (the source filter of run_outbound_bus_loop).
THEOREM NotAmplified == Spec => []NoAmplification
<1>1. RelayInv /\ EachNumbered => NoAmplification
  <2> SUFFICES ASSUME RelayInv, EachNumbered, NEW n \in Nodes
               PROVE  NextId(n) <= 1 + Cardinality(OwnSince(since[n], issued, n))
    BY Zenon DEF NoAmplification, NextId, OwnSince
  <2> DEFINE own == OwnSince(since[n], issued, n)
             A == {i \in own : ~Waits(Inboxed(n), n, i)}
  <2>1. NextId(n) \in Nat /\ IsFiniteSet(own) /\ NextId(n) <= 1 + Cardinality(A)
    BY InboxTypes, Zenon DEF EachNumbered, Numbered, Inboxed, NextId
  <2>2. A \in SUBSET own
    BY Zenon
  <2> HIDE DEF A, own
  <2>3. IsFiniteSet(A) /\ Cardinality(A) <= Cardinality(own)
    BY <2>1, <2>2, FS_Subset, Zenon
  <2>4. Cardinality(A) \in Nat /\ Cardinality(own) \in Nat
    BY <2>1, <2>3, FS_CardinalityType, Zenon
  <2>5. NextId(n) <= 1 + Cardinality(own)
    BY <2>1, <2>3, <2>4
  <2> QED BY <2>5, Zenon DEF own
<1> QED BY <1>1, RelayInit, RelayStep, NumberedInit, NumberedStep, PTL DEF Spec
=============================================================================
