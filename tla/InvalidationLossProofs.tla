------------------------ MODULE InvalidationLossProofs ------------------------
(***************************************************************************)
(* For all capacities and any number of nodes, invalidations and faults:   *)
(* an invalidation that a node without a reported error will never hear of *)
(* is one that the metrics count.  CountedStep is the counting argument,   *)
(* once for all actions; each action's lemma names the invalidations it    *)
(* can lose and the counter that admits to them.                           *)
(***************************************************************************)
EXTENDS InvalidationRelayProofs, WellFoundedInduction

-----------------------------------------------------------------------------
\* Induction over the naturals, for a set of them.
LEMMA SetInduction ==
    ASSUME NEW T \in SUBSET Nat, 0 \in T, \A n \in T : n + 1 \in T
    PROVE  T = Nat
    \* A set of naturals that is not empty has a least element.
  <1>Least.
        ASSUME NEW U \in SUBSET Nat, U # {}
        PROVE  \E x \in U : \A y \in U : x <= y
    <2> USE <1>Least
    <2> DEFINE R == {ss \in Nat \X Nat : ss[1] < ss[2]}
    <2>1. IsWellFoundedOn(R, Nat)
      BY Zenon, NatLessThanWellFounded DEF OpToRel
    <2> HIDE DEF R
    <2>2. PICK x \in U : \A y \in U : ~ (<<y, x>> \in R)
      BY <2>1, WFMin, Zenon
    <2>3. ASSUME NEW y \in U PROVE x <= y
      <3>1. x \in Nat /\ y \in Nat /\ <<y, x>> \in Nat \X Nat
        BY Zenon
      <3>2. ~ (y < x)
        BY Zenon, <3>1, <2>2 DEF R
      <3> QED BY <3>1, <3>2
    <2> QED BY Zenon, <2>3
  <1> SUFFICES ASSUME Nat \ T # {} PROVE FALSE
    BY Zenon
  <1>1. PICK x \in Nat \ T : \A y \in Nat \ T : x <= y
    <2>1. Nat \ T \in SUBSET Nat
      BY Zenon
    <2> QED BY <2>1, <1>Least, Zenon
  <1>2. x # 0 /\ x - 1 \in Nat /\ (x - 1) + 1 = x
    BY <1>1
  <1>3. x - 1 \in T
    BY <1>1, <1>2
  <1> QED BY Zenon, <1>1, <1>2, <1>3

-----------------------------------------------------------------------------
\* The element a fold takes next.
Pick(s) == CHOOSE x \in s : TRUE

\* sum gives, for each subset of S, the sum of f over it.
IsSum(f, S, sum) ==
    sum = [s \in SUBSET S |-> IF s = {} THEN 0 ELSE f[Pick(s)] + sum[s \ {Pick(s)}]]

LEMMA PickIsElement == ASSUME NEW s, s # {} PROVE Pick(s) \in s
  BY Zenon DEF Pick

\* Taking the picked element out of a finite set makes it smaller by one.
LEMMA PickShrinks ==
    ASSUME NEW S, IsFiniteSet(S), NEW s \in SUBSET S, s # {}
    PROVE  /\ s \ {Pick(s)} \in SUBSET S
           /\ Cardinality(s) \in Nat /\ Cardinality(s \ {Pick(s)}) \in Nat
           /\ Cardinality(s) = Cardinality(s \ {Pick(s)}) + 1
  <1>1. IsFiniteSet(s) /\ Pick(s) \in s
    BY Zenon, FS_Subset, PickIsElement
  <1>2. IsFiniteSet(s \ {Pick(s)})
    BY Zenon, <1>1, FS_RemoveElement
  <1>3. Cardinality(s \ {Pick(s)}) = Cardinality(s) - 1
    BY Zenon, <1>1, FS_RemoveElement
  <1>4. Cardinality(s) \in Nat /\ Cardinality(s \ {Pick(s)}) \in Nat
    BY Zenon, <1>1, <1>2, FS_CardinalityType
  <1> QED BY <1>3, <1>4

\* Induction over the subsets of a finite set in the order of the fold.
LEMMA PickInduction ==
    ASSUME NEW S, IsFiniteSet(S), NEW Q \in SUBSET (SUBSET S),
           {} \in Q,
           \A s \in SUBSET S : s # {} /\ s \ {Pick(s)} \in Q => s \in Q
    PROVE  Q = SUBSET S
  <1> DEFINE T == {n \in Nat : \A s \in SUBSET S : Cardinality(s) = n => s \in Q}
  <1>1. 0 \in T
    <2>1. ASSUME NEW s \in SUBSET S, Cardinality(s) = 0 PROVE s \in Q
      <3>1. IsFiniteSet(s)
        BY Zenon, FS_Subset
      <3>2. s = {}
        BY Zenon, <3>1, <2>1, FS_EmptySet
      <3> QED BY Zenon, <3>2
    <2> QED BY Zenon, <2>1
  <1>2. ASSUME NEW n \in T PROVE n + 1 \in T
    <2>1. ASSUME NEW s \in SUBSET S, Cardinality(s) = n + 1 PROVE s \in Q
      <3>1. n \in Nat
        BY Zenon
      <3>2. s # {}
        <4>1. Cardinality({}) = 0
          BY Zenon, FS_EmptySet
        <4> QED BY <4>1, <2>1, <3>1
      <3>3. s \ {Pick(s)} \in SUBSET S /\ Cardinality(s \ {Pick(s)}) = n
        BY <2>1, <3>1, <3>2, PickShrinks
      <3>4. s \ {Pick(s)} \in Q
        BY Zenon, <3>3
      <3> QED BY Zenon, <3>2, <3>4
    <2> QED BY <2>1
  <1>3. T \in SUBSET Nat
    BY Zenon
  <1> HIDE DEF T
  <1>4. T = Nat
    BY Zenon, <1>1, <1>2, <1>3, SetInduction
  <1>5. ASSUME NEW s \in SUBSET S PROVE s \in Q
    <2>1. Cardinality(s) \in Nat
      BY Zenon, FS_Subset, FS_CardinalityType
    <2> QED BY Zenon, <2>1, <1>4 DEF T
  <1> QED BY Zenon, <1>5

-----------------------------------------------------------------------------
\* What a sum is: nothing over the empty set, one more element at a time.
LEMMA SumStep ==
    ASSUME NEW S, NEW f, NEW sum, IsSum(f, S, sum)
    PROVE  /\ sum[{}] = 0
           /\ \A s \in SUBSET S : s # {} => sum[s] = f[Pick(s)] + sum[s \ {Pick(s)}]
  <1>1. \A s \in SUBSET S :
           sum[s] = IF s = {} THEN 0 ELSE f[Pick(s)] + sum[s \ {Pick(s)}]
    BY Zenon DEF IsSum
  <1>2. {} \in SUBSET S
    BY Zenon
  <1> QED BY Zenon, <1>1, <1>2

\* A sum of naturals is a natural.
LEMMA SumIsNat ==
    ASSUME NEW S, IsFiniteSet(S), NEW f \in [S -> Nat], NEW sum, IsSum(f, S, sum)
    PROVE  \A s \in SUBSET S : sum[s] \in Nat
  <1> DEFINE Q == {s \in SUBSET S : sum[s] \in Nat}
  <1>1. {} \in Q
    BY SumStep
  <1>2. ASSUME NEW s \in SUBSET S, s # {}, s \ {Pick(s)} \in Q PROVE s \in Q
    <2>1. f[Pick(s)] \in Nat
      BY Zenon, <1>2, PickIsElement
    <2>2. sum[s] = f[Pick(s)] + sum[s \ {Pick(s)}]
      BY <1>2, SumStep
    <2> QED BY <1>2, <2>1, <2>2
  <1>3. Q \in SUBSET (SUBSET S)
    BY Zenon
  <1> HIDE DEF Q
  <1>4. Q = SUBSET S
    BY Zenon, <1>1, <1>2, <1>3, PickInduction
  <1> QED BY Zenon, <1>4 DEF Q

\* Changing the function at one element changes the sum by as much.
LEMMA SumChange ==
    ASSUME NEW S, IsFiniteSet(S), NEW f \in [S -> Nat], NEW g \in [S -> Nat], NEW k \in S,
           \A x \in S : x # k => g[x] = f[x],
           NEW i, IsSum(f, S, i), NEW j, IsSum(g, S, j)
    PROVE  \A s \in SUBSET S : j[s] = i[s] + (IF k \in s THEN g[k] - f[k] ELSE 0)
  <1>1. i[{}] = 0 /\ \A s \in SUBSET S : s # {} => i[s] = f[Pick(s)] + i[s \ {Pick(s)}]
    BY ONLY IsSum(f, S, i), IsSum(g, S, j), SumStep
  <1>2. j[{}] = 0 /\ \A s \in SUBSET S : s # {} => j[s] = g[Pick(s)] + j[s \ {Pick(s)}]
    BY ONLY IsSum(f, S, i), IsSum(g, S, j), SumStep
  <1> DEFINE Gain(s) == IF k \in s THEN g[k] - f[k] ELSE 0
             Q == {s \in SUBSET S : j[s] = i[s] + Gain(s)}
  <1>3. {} \in Q
    BY <1>1, <1>2
  <1>4. ASSUME NEW s \in SUBSET S, s # {}, s \ {Pick(s)} \in Q PROVE s \in Q
    <2> DEFINE p == Pick(s)
               r == s \ {Pick(s)}
    <2>1. p \in s /\ p \in S /\ r \in SUBSET S
      BY Zenon, <1>4, PickIsElement
    <2>2. i[s] = f[p] + i[r] /\ j[s] = g[p] + j[r]
      BY Zenon, <1>4, <1>1, <1>2
    <2>3. i[r] \in Nat /\ j[r] \in Nat /\ j[r] = i[r] + Gain(r)
      BY Zenon, <1>4, <2>1, SumIsNat
    <2>4. k \in r <=> k \in s /\ k # p
      BY Zenon
    <2>5. f[p] \in Nat /\ g[p] \in Nat /\ f[k] \in Nat /\ g[k] \in Nat
      BY Zenon, <2>1
    <2> HIDE DEF p, r
    <2>6. CASE p = k
      BY <2>1, <2>2, <2>3, <2>4, <2>5, <2>6
    <2>7. CASE p # k
      <3>1. g[p] = f[p]
        BY Zenon, <2>7, <2>1
      <3> QED BY <3>1, <2>1, <2>2, <2>3, <2>4, <2>5, <2>7
    <2> QED BY Zenon, <2>6, <2>7
  <1>5. Q \in SUBSET (SUBSET S)
    BY Zenon
  <1> HIDE DEF Q
  <1>6. Q = SUBSET S
    BY Zenon, <1>3, <1>4, <1>5, PickInduction
  <1> QED BY Zenon, <1>6 DEF Q

-----------------------------------------------------------------------------
\* SumFunction gives the sum over the whole domain.
LEMMA TotalIsSum ==
    ASSUME NEW S, IsFiniteSet(S), NEW f \in [S -> Nat]
    PROVE  \E sum : IsSum(f, S, sum) /\ SumFunction(f) = sum[S]
  <1>1. f \in [S -> Int]
    OBVIOUS
  <1>2. \E sum : IsSum(f, S, sum)
    <2> DEFINE Small(n) == {s \in SUBSET S : Cardinality(s) <= n}
               Step(g, s) == IF s = {} THEN 0 ELSE f[Pick(s)] + g[s \ {Pick(s)}]
               Sums(n, g) == g = [s \in Small(n) |-> Step(g, s)]
               T == {n \in Nat : \E g : Sums(n, g)}
    <2>1. ASSUME NEW n \in Nat, NEW s \in Small(n), s # {}
          PROVE  s \ {Pick(s)} \in Small(n)
      BY <2>1, PickShrinks
    <2>2. ASSUME NEW n \in Nat, NEW s \in Small(n + 1), s # {}
          PROVE  s \ {Pick(s)} \in Small(n)
      BY <2>2, PickShrinks
    <2>3. 0 \in T
      <3> DEFINE g == [s \in Small(0) |-> 0]
      <3>1. ASSUME NEW s \in Small(0) PROVE s = {}
        <4>1. IsFiniteSet(s) /\ s \in SUBSET S
          BY Zenon, FS_Subset
        <4>2. Cardinality(s) \in Nat /\ Cardinality(s) <= 0
          BY Zenon, <4>1, FS_CardinalityType
        <4> QED BY <4>1, <4>2, FS_EmptySet
      <3>2. g = [s \in Small(0) |-> Step(g, s)]
        BY Zenon, <3>1
      <3> QED BY Zenon, <3>2
    <2>4. ASSUME NEW n \in T PROVE n + 1 \in T
      <3>1. n \in Nat
        BY Zenon
      <3>2. PICK g : Sums(n, g)
        BY Zenon
      <3> DEFINE h == [s \in Small(n + 1) |-> Step(g, s)]
      <3>3. ASSUME NEW s \in Small(n) PROVE s \in Small(n + 1) /\ h[s] = g[s]
        <4>1. Cardinality(s) \in Nat
          BY Zenon, FS_Subset, FS_CardinalityType
        <4>2. s \in Small(n + 1)
          BY <3>1, <4>1
        <4> HIDE DEF Small, Step
        <4> QED BY Zenon, <4>2, <3>2
      <3>4. ASSUME NEW s \in Small(n + 1) PROVE h[s] = Step(h, s)
        <4>1. CASE s = {}
          <5> HIDE DEF Small
          <5> QED BY Zenon, <4>1
        <4>2. CASE s # {}
          <5>1. s \ {Pick(s)} \in Small(n)
            BY Zenon, <4>2, <3>1, <2>2
          <5>2. h[s \ {Pick(s)}] = g[s \ {Pick(s)}]
            BY Zenon, <5>1, <3>3
          <5> HIDE DEF Small
          <5>3. h[s] = f[Pick(s)] + g[s \ {Pick(s)}]
            BY Zenon, <4>2
          <5> QED BY Zenon, <4>2, <5>2, <5>3
        <4> QED BY Zenon, <4>1, <4>2
      <3>5. h = [s \in Small(n + 1) |-> Step(h, s)]
        <4> HIDE DEF Small, Step
        <4> QED BY Zenon, <3>4
      <3>6. Sums(n + 1, h) /\ n + 1 \in Nat
        <4> HIDE DEF Small, Step, h
        <4> QED BY <3>1, <3>5
      <3> HIDE DEF h, Sums
      <3> QED BY Zenon, <3>6
    <2>5. T \in SUBSET Nat
      BY Zenon
    <2> HIDE DEF T
    <2>6. T = Nat
      BY Zenon, <2>3, <2>4, <2>5, SetInduction
    <2>7. Cardinality(S) \in Nat
      BY Zenon, FS_CardinalityType
    <2>8. Small(Cardinality(S)) = SUBSET S
      <3>1. ASSUME NEW s \in SUBSET S PROVE Cardinality(s) <= Cardinality(S)
        BY Zenon, FS_Subset
      <3> QED BY Zenon, <3>1
    <2>9. PICK g : Sums(Cardinality(S), g)
      BY Zenon, <2>6, <2>7 DEF T
    <2> QED BY Zenon, <2>8, <2>9 DEF IsSum
  <1>3. SumFunction(f) = (CHOOSE sum : IsSum(f, S, sum))[S]
    BY Zenon DEF SumFunction, SumFunctionOnSet, FoldFunctionOnSet, MapThenFoldSet, IsSum, Pick
  <1> QED BY Zenon, <1>2, <1>3

\* It is a natural.
LEMMA TotalIsNat ==
    ASSUME NEW S, IsFiniteSet(S), NEW f \in [S -> Nat]
    PROVE  SumFunction(f) \in Nat
  <1>1. PICK i : IsSum(f, S, i) /\ SumFunction(f) = i[S]
    BY Zenon, TotalIsSum
  <1>2. i[S] \in Nat
    BY Zenon, <1>1, SumIsNat
  <1> QED BY Zenon, <1>1, <1>2

\* It changes by what one element gains.
LEMMA TotalChanges ==
    ASSUME NEW S, IsFiniteSet(S), NEW f \in [S -> Nat], NEW g \in [S -> Nat], NEW k \in S,
           \A x \in S : x # k => g[x] = f[x]
    PROVE  SumFunction(g) = SumFunction(f) - f[k] + g[k]
  <1>1. PICK i : IsSum(f, S, i) /\ SumFunction(f) = i[S]
    BY Zenon, TotalIsSum
  <1>2. PICK j : IsSum(g, S, j) /\ SumFunction(g) = j[S]
    BY Zenon, TotalIsSum
  <1>3. \A s \in SUBSET S : j[s] = i[s] + (IF k \in s THEN g[k] - f[k] ELSE 0)
    BY <1>1, <1>2, SumChange
  <1>4. j[S] = i[S] + (g[k] - f[k])
    BY Zenon, <1>3
  <1>5. i[S] \in Nat /\ f[k] \in Nat /\ g[k] \in Nat
    BY Zenon, <1>1, TotalIsNat
  <1> QED BY <1>1, <1>2, <1>4, <1>5

-----------------------------------------------------------------------------
\* Where an invalidation may be on its way: in a queue of frames, in a receiver
\* of messages, with the relay of its node, or close to another node's cache.
Ships(q, i) == \E k \in 1..Len(q) : q[k].message.invalidation = i

Carries(q, i) == \E k \in 1..Len(q) : q[k].invalidation = i

Leaving(m, i) ==
    \/ Waits(bus[m].relay.unread, m, i)
    \/ Ships(relay[m].outbound, i)
    \/ (relay[m].sending /= NoFrame /\ relay[m].sending.message.invalidation = i)

Arriving(n, i) ==
    \/ Ships(wire[n], i) \/ Ships(relay[n].inbound, i)
    \/ Carries(bus[n].listener.unread, i)

\* The invalidations the cache of node n will not hear of, and what the node's
\* own counters and the reports of its relay's receiver admit to.
Lost(n) ==
    {i \in Current : /\ issued[i] /= n /\ i \notin applied[n]
                     /\ ~Arriving(n, i) /\ \A m \in Nodes \ {n} : ~Leaving(m, i)}

Cost(m) == counted[m] + bus[m].relay.missed

EachCounted ==
    \A n \in Nodes :
        errors[n] = 0 => Cardinality(Lost(n))
                           <= bus[n].listener.missed + SumFunction([m \in Nodes |-> Cost(m)])

LEMMA Queues ==
    ASSUME RelayInv, NEW n \in Nodes
    PROVE  /\ bus[n].relay \in ReceiversOf(TrueMessages)
           /\ bus[n].listener \in ReceiversOf(TrueMessages)
           /\ bus[n].relay.unread \in Seq(TrueMessages) /\ bus[n].relay.missed \in Nat
           /\ bus[n].listener.unread \in Seq(TrueMessages) /\ bus[n].listener.missed \in Nat
           /\ relay[n] \in RelaysOf(TrueMessages)
           /\ relay[n].outbound \in Seq(FramesOf(TrueMessages))
           /\ relay[n].sending \in FramesOf(TrueMessages) \cup {NoFrame}
           /\ relay[n].inbound \in Seq(FramesOf(TrueMessages))
           /\ wire[n] \in Seq(FramesOf(TrueMessages)) /\ counted[n] \in Nat
<1> DEFINE M == TrueMessages
<1> HIDE DEF M
<1>1. bus \in Buses(M) /\ relay \in [Nodes -> RelaysOf(M)] /\ wire \in [Nodes -> Seq(FramesOf(M))]
      /\ counted \in [Nodes -> Nat]
  BY Zenon DEF RelayInv, Scalars, M
<1>2. bus[n].relay \in ReceiversOf(M) /\ bus[n].listener \in ReceiversOf(M)
      /\ relay[n] \in RelaysOf(M) /\ wire[n] \in Seq(FramesOf(M)) /\ counted[n] \in Nat
  BY <1>1, BusUpdate, Zenon
<1>3. ASSUME NEW r \in ReceiversOf(M)
      PROVE  r.unread \in Seq(M) /\ r.missed \in Nat
  BY Zenon DEF ReceiversOf
<1>4. relay[n].outbound \in Seq(FramesOf(M)) /\ relay[n].inbound \in Seq(FramesOf(M))
      /\ relay[n].sending \in FramesOf(M) \cup {NoFrame}
  BY <1>2, RelayFields, Zenon
<1> QED BY <1>2, <1>3, <1>4, Zenon DEF M


\* What the elements of a queue carry.
Shipped(d) == {d[k].message.invalidation : k \in 1..Len(d)}

Announced(d) == {d[k].invalidation : k \in 1..Len(d)}

\* A queue carries no more invalidations than it has elements.
LEMMA FewValues ==
    ASSUME NEW n \in Nat, NEW f, f = [k \in 1..n |-> f[k]]
    PROVE  LET V == {f[k] : k \in 1..n}
           IN  IsFiniteSet(V) /\ Cardinality(V) \in Nat /\ Cardinality(V) <= n
<1> DEFINE V == {f[k] : k \in 1..n}
<1>1. f \in Surjection(1..n, V)
  BY Zenon DEF Surjection
<1>2. IsFiniteSet(1..n) /\ Cardinality(1..n) = n
  BY FS_Interval
<1> HIDE DEF V
<1>3. IsFiniteSet(V) /\ Cardinality(V) <= Cardinality(1..n)
  BY <1>1, <1>2, FS_Surjection, Zenon
<1>4. Cardinality(V) \in Nat
  BY <1>3, FS_CardinalityType, Zenon
<1> QED BY <1>2, <1>3, <1>4, Zenon DEF V

LEMMA FewShipped ==
    ASSUME NEW d, Len(d) \in Nat
    PROVE  /\ IsFiniteSet(Shipped(d)) /\ Cardinality(Shipped(d)) \in Nat
           /\ Cardinality(Shipped(d)) <= Len(d)
<1> DEFINE n == Len(d)
           f == [k \in 1..n |-> d[k].message.invalidation]
<1>1. Shipped(d) = {f[k] : k \in 1..n}
  BY Zenon DEF Shipped
<1>2. f = [k \in 1..n |-> f[k]] /\ n \in Nat
  BY Zenon
<1> HIDE DEF f
<1>3. /\ IsFiniteSet({f[k] : k \in 1..n}) /\ Cardinality({f[k] : k \in 1..n}) \in Nat
      /\ Cardinality({f[k] : k \in 1..n}) <= n
  BY <1>2, FewValues, Zenon
<1> QED BY <1>1, <1>3, Zenon

LEMMA FewTold ==
    ASSUME NEW d, Len(d) \in Nat
    PROVE  /\ IsFiniteSet(Announced(d)) /\ Cardinality(Announced(d)) \in Nat
           /\ Cardinality(Announced(d)) <= Len(d)
<1> DEFINE n == Len(d)
           f == [k \in 1..n |-> d[k].invalidation]
<1>1. Announced(d) = {f[k] : k \in 1..n}
  BY Zenon DEF Announced
<1>2. f = [k \in 1..n |-> f[k]] /\ n \in Nat
  BY Zenon
<1> HIDE DEF f
<1>3. /\ IsFiniteSet({f[k] : k \in 1..n}) /\ Cardinality({f[k] : k \in 1..n}) \in Nat
      /\ Cardinality({f[k] : k \in 1..n}) <= n
  BY <1>2, FewValues, Zenon
<1> QED BY <1>1, <1>3, Zenon

\* A full queue keeps what it does not give up.
PushedOn(p, q, f, d) ==
    /\ \E j \in 1..Len(p) : p[j] = f
    /\ \A k \in 1..Len(q) : \/ \E j \in 1..Len(p) : p[j] = q[k]
                            \/ \E j \in 1..Len(d) : d[j] = q[k]

LEMMA PushHolds ==
    ASSUME NEW S, NEW q \in Seq(S), NEW f \in S, NEW c \in Nat \ {0}
    PROVE  PushedOn(PushDropOldest(q, f, c), q, f, Dropped(q, c))
<1> DEFINE t == IF Len(q) = c THEN Tail(q) ELSE q
           p == Append(t, f)
           d == Dropped(q, c)
<1>1. t \in Seq(S) /\ Len(t) \in Nat
      /\ \A k \in 1..Len(q) : \/ \E j \in 1..Len(t) : t[j] = q[k]
                              \/ \E j \in 1..Len(d) : d[j] = q[k]
  <2>1. CASE Len(q) = c
    <3>1. q /= <<>> /\ t = Tail(q) /\ d = <<q[1]>>
      BY <2>1 DEF Dropped
    <3>2. /\ t \in Seq(S) /\ Len(t) \in Nat
          /\ \A k \in 1..Len(q) : k = 1 \/ (k - 1 \in 1..Len(t) /\ q[k] = t[k - 1])
      BY <3>1, RestOf
    <3>3. Len(d) = 1 /\ d[1] = q[1] /\ 1 \in 1..1
      BY <3>1
    <3> HIDE DEF t, d
    <3> QED BY <3>2, <3>3, Zenon
  <2>2. CASE Len(q) /= c
    <3>1. t = q /\ Len(q) \in Nat
      BY <2>2
    <3> HIDE DEF t
    <3> QED BY <3>1, Zenon
  <2> HIDE DEF t, d
  <2> QED BY <2>1, <2>2, Zenon
<1> HIDE DEF t
<1>2. /\ Len(t) + 1 \in 1..Len(p) /\ p[Len(t) + 1] = f
      /\ \A j \in 1..Len(t) : j \in 1..Len(p) /\ p[j] = t[j]
  BY <1>1
<1>3. PushDropOldest(q, f, c) = p
  BY Zenon DEF PushDropOldest, t
<1> HIDE DEF p, d
<1>4. PushedOn(p, q, f, d)
  BY <1>1, <1>2, Zenon DEF PushedOn
<1> QED BY <1>3, <1>4, Zenon DEF d

LEMMA PushShips ==
    ASSUME NEW S, NEW q \in Seq(S), NEW f \in S, NEW c \in Nat \ {0}, NEW i
    PROVE  /\ Ships(PushDropOldest(q, f, c), f.message.invalidation)
           /\ Ships(q, i) => \/ Ships(PushDropOldest(q, f, c), i)
                             \/ i \in Shipped(Dropped(q, c))
<1> DEFINE p == PushDropOldest(q, f, c)
           d == Dropped(q, c)
<1>1. PushedOn(p, q, f, d)
  BY PushHolds, Zenon
<1> HIDE DEF p, d
<1>2. Ships(p, f.message.invalidation) /\ (Ships(q, i) => Ships(p, i) \/ i \in Shipped(d))
  BY <1>1, Zenon DEF PushedOn, Ships, Shipped
<1> QED BY <1>2, Zenon DEF p, d

LEMMA PushCarries ==
    ASSUME NEW S, NEW q \in Seq(S), NEW f \in S, NEW c \in Nat \ {0}, NEW i, NEW n
    PROVE  /\ Carries(PushDropOldest(q, f, c), f.invalidation)
           /\ Waits(PushDropOldest(q, f, c), f.source, f.invalidation)
           /\ Carries(q, i) => \/ Carries(PushDropOldest(q, f, c), i)
                               \/ i \in Announced(Dropped(q, c))
           /\ Waits(q, n, i) => \/ Waits(PushDropOldest(q, f, c), n, i)
                                \/ i \in Announced(Dropped(q, c))
<1> DEFINE p == PushDropOldest(q, f, c)
           d == Dropped(q, c)
<1>1. PushedOn(p, q, f, d)
  BY PushHolds, Zenon
<1> HIDE DEF p, d
<1>2. /\ Carries(p, f.invalidation) /\ Waits(p, f.source, f.invalidation)
      /\ Carries(q, i) => Carries(p, i) \/ i \in Announced(d)
  BY <1>1, Zenon DEF PushedOn, Carries, Waits, Announced
<1>3. Waits(q, n, i) => Waits(p, n, i) \/ i \in Announced(d)
  BY <1>1, Zenon DEF PushedOn, Waits, Announced
<1> QED BY <1>2, <1>3, Zenon DEF p, d

LEMMA RestHolds ==
    ASSUME NEW S, NEW q \in Seq(S), q /= <<>>, NEW i, NEW n
    PROVE  /\ Ships(q, i) => Head(q).message.invalidation = i \/ Ships(Tail(q), i)
           /\ Carries(q, i) => Head(q).invalidation = i \/ Carries(Tail(q), i)
           /\ Waits(q, n, i) => \/ Head(q).source = n /\ Head(q).invalidation = i
                                \/ Waits(Tail(q), n, i)
<1> DEFINE t == Tail(q)
           h == Head(q)
<1>1. h = q[1] /\ \A k \in 1..Len(q) : k = 1 \/ (k - 1 \in 1..Len(t) /\ q[k] = t[k - 1])
  BY Zenon, RestOf
<1> HIDE DEF t, h
<1>2. \A k \in 1..Len(q) : q[k] = h \/ \E j \in 1..Len(t) : q[k] = t[j]
  BY <1>1, Zenon
<1>3. /\ Ships(q, i) => h.message.invalidation = i \/ Ships(t, i)
      /\ Carries(q, i) => h.invalidation = i \/ Carries(t, i)
      /\ Waits(q, n, i) => (h.source = n /\ h.invalidation = i) \/ Waits(t, n, i)
  BY <1>2, Zenon DEF Ships, Carries, Waits
<1> QED BY <1>3, Zenon DEF t, h


\* What a step of node a leaves alone at another node.
StaysAt(m) ==
    /\ bus'[m] = bus[m] /\ relay'[m] = relay[m]
    /\ applied'[m] = applied[m] /\ counted'[m] = counted[m] /\ errors'[m] = errors[m]
    /\ \A i : Ships(wire[m], i) => Ships(wire'[m], i)

\* What is published in the step is on its way from node a.
NewIsLeaving(a) ==
    \A i \in Current' : \/ i \in Current /\ issued'[i] = issued[i]
                        \/ issued'[i] = a /\ Leaving(a, i)'

\* Node a accounts for what the step loses: X on the way out, Y on the way in.
OutIsCounted(a, X) ==
    /\ \A i : Leaving(a, i) => \/ Leaving(a, i)' \/ i \in X
                               \/ \A n \in Nodes \ {a} : Arriving(n, i)'
    /\ Cost(a) + Cardinality(X) <= Cost(a)'

InIsCounted(a, Y) ==
    /\ errors'[a] = 0 =>
         /\ errors[a] = 0
         /\ \A i \in Current : issued[i] /= a /\ Arriving(a, i) =>
              Arriving(a, i)' \/ i \in Y \/ i \in applied'[a]
    /\ applied[a] \subseteq applied'[a]
    /\ bus[a].listener.missed + Cost(a) + Cardinality(Y)
         <= bus'[a].listener.missed + Cost(a)'

LEMMA LostIsFinite ==
    ASSUME RelayInv, NEW n \in Nodes
    PROVE  IsFiniteSet(Lost(n)) /\ Cardinality(Lost(n)) \in Nat
<1>1. Lost(n) \in SUBSET (1..Len(issued))
  BY Zenon DEF Lost, Current
<1>2. Len(issued) \in Nat
  BY DEF RelayInv, Scalars
<1>3. IsFiniteSet(1..Len(issued))
  BY <1>2, FS_Interval
<1>4. IsFiniteSet(Lost(n))
  BY <1>1, <1>3, FS_Subset, Zenon
<1> QED BY <1>4, FS_CardinalityType, Zenon

LEMMA CostsThen ==
    ASSUME RelayInv'
    PROVE  \A m \in Nodes : Cost(m)' \in Nat /\ bus'[m].listener.missed \in Nat
<1>1. \A m \in Nodes : bus'[m].relay.missed \in Nat /\ bus'[m].listener.missed \in Nat
  <2>1. PICK M : bus' \in Buses(M)
    BY Zenon DEF RelayInv
  <2>2. \A m \in Nodes : bus'[m].relay \in ReceiversOf(M) /\ bus'[m].listener \in ReceiversOf(M)
    BY <2>1, BusUpdate, Zenon
  <2>3. \A r \in ReceiversOf(M) : r.missed \in Nat
    BY Zenon DEF ReceiversOf
  <2> QED BY <2>2, <2>3, Zenon
<1>2. \A m \in Nodes : counted'[m] \in Nat
  BY Zenon DEF RelayInv, Scalars
<1> QED BY <1>1, <1>2 DEF Cost

\* A step that accounts for what it loses keeps every loss counted.
LEMMA CountedStep ==
    ASSUME RelayInv, RelayInv', EachCounted, NEW a \in Nodes, NEW X, NEW Y,
           IsFiniteSet(X), IsFiniteSet(Y), OutIsCounted(a, X), InIsCounted(a, Y),
           NewIsLeaving(a), \A m \in Nodes \ {a} : StaysAt(m)
    PROVE  EachCounted'
<1> SUFFICES ASSUME NEW n \in Nodes, errors'[n] = 0
             PROVE  Cardinality(Lost(n)') <= bus'[n].listener.missed
                                               + SumFunction([m \in Nodes |-> Cost(m)'])
  BY Zenon DEF EachCounted
<1> DEFINE Z == IF n = a THEN Y ELSE X
           f == [m \in Nodes |-> Cost(m)]
           g == [m \in Nodes |-> Cost(m)']
           before == bus[n].listener.missed
           after == bus'[n].listener.missed
<1>1. /\ \A m \in Nodes : Cost(m) \in Nat /\ Cost(m)' \in Nat
      /\ before \in Nat /\ after \in Nat
  <2>1. \A m \in Nodes : Cost(m) \in Nat /\ bus[m].listener.missed \in Nat
    BY Queues DEF Cost
  <2> QED BY <2>1, CostsThen, Zenon
<1>2. errors[n] = 0 /\ Cardinality(Lost(n)) <= before + SumFunction(f)
  <2>1. errors[n] = 0
    BY Zenon DEF InIsCounted, StaysAt
  <2> QED BY <2>1, Zenon DEF EachCounted
<1>3. Lost(n)' \subseteq Lost(n) \cup Z
  <2> SUFFICES ASSUME NEW i \in Lost(n)', i \notin Z PROVE i \in Lost(n)
    BY Zenon
  <2>1. /\ i \in Current' /\ issued'[i] /= n /\ i \notin applied'[n] /\ ~Arriving(n, i)'
        /\ \A m \in Nodes \ {n} : ~Leaving(m, i)'
    BY Zenon DEF Lost
  <2>2. i \in Current /\ issued'[i] = issued[i]
    BY <2>1, Zenon DEF NewIsLeaving
  <2>3. \A m \in Nodes \ {a} : /\ Leaving(m, i) => Leaving(m, i)'
                               /\ Arriving(m, i) => Arriving(m, i)'
    BY Zenon DEF StaysAt, Leaving, Arriving
  <2>4. i \notin applied[n]
    BY <2>1, Zenon DEF StaysAt, InIsCounted
  <2>5. CASE n = a
    <3>1. ~Arriving(n, i)
      BY <2>1, <2>2, <2>5, Zenon DEF InIsCounted
    <3> QED BY <2>1, <2>2, <2>3, <2>4, <2>5, <3>1, Zenon DEF Lost
  <2>6. CASE n /= a
    <3>1. ~Leaving(a, i)
      BY <2>1, <2>6, Zenon DEF OutIsCounted
    <3>2. \A m \in Nodes \ {n} : ~Leaving(m, i)
      BY <2>1, <2>3, <3>1, Zenon
    <3> QED BY <2>1, <2>2, <2>3, <2>4, <2>6, <3>2, Zenon DEF Lost
  <2> QED BY Zenon, <2>5, <2>6
<1>4. before + Cost(a) + Cardinality(Z) <= after + Cost(a)'
  <2>1. CASE n = a
    BY <2>1, Zenon DEF InIsCounted
  <2>2. CASE n /= a
    <3>1. after = before /\ Cost(a) + Cardinality(X) <= Cost(a)'
      BY <2>2, Zenon DEF StaysAt, OutIsCounted
    <3>2. Cardinality(X) \in Nat
      BY FS_CardinalityType, Zenon
    <3> HIDE DEF before, after
    <3>3. before + Cost(a) + Cardinality(X) <= after + Cost(a)'
      BY <1>1, <3>1, <3>2
    <3> QED BY <2>2, <3>3, Zenon
  <2> QED BY Zenon, <2>1, <2>2
<1>5. SumFunction(g) = SumFunction(f) - f[a] + g[a] /\ SumFunction(f) \in Nat
  <2>1. f \in [Nodes -> Nat] /\ g \in [Nodes -> Nat]
    BY <1>1, Zenon
  <2>2. \A m \in Nodes : m # a => g[m] = f[m]
    BY Zenon DEF StaysAt, Cost
  <2>3. IsFiniteSet(Nodes)
    BY Zenon, RelayAssumption
  <2> HIDE DEF f, g
  <2> QED BY <2>1, <2>2, <2>3, TotalChanges, TotalIsNat, ZenonT(30)
<1>6. f[a] = Cost(a) /\ g[a] = Cost(a)'
  BY Zenon
<1>7. /\ IsFiniteSet(Lost(n)) /\ IsFiniteSet(Z)
      /\ Cardinality(Lost(n)) \in Nat /\ Cardinality(Z) \in Nat
  BY LostIsFinite, FS_CardinalityType, Zenon
<1> HIDE DEF Z, f, g, before, after
<1>8. Cardinality(Lost(n)') <= Cardinality(Lost(n)) + Cardinality(Z)
      /\ Cardinality(Lost(n)') \in Nat
  <2> DEFINE L == Lost(n)
             K == Lost(n)'
  <2>1. K \in SUBSET (L \cup Z)
    BY <1>3, Zenon
  <2> HIDE DEF L, K
  <2>2. /\ IsFiniteSet(L \cup Z) /\ IsFiniteSet(L \cap Z)
        /\ Cardinality(L \cup Z) = Cardinality(L) + Cardinality(Z) - Cardinality(L \cap Z)
    <3>1. IsFiniteSet(L) /\ IsFiniteSet(Z) /\ L \cap Z \in SUBSET L
      BY <1>7, Zenon DEF L
    <3> QED BY <3>1, FS_Union, FS_Subset, Zenon
  <2>3. IsFiniteSet(K) /\ Cardinality(K) <= Cardinality(L \cup Z)
    BY <2>1, <2>2, FS_Subset, Zenon
  <2>4. /\ Cardinality(K) \in Nat /\ Cardinality(L \cap Z) \in Nat
        /\ Cardinality(L) \in Nat /\ Cardinality(Z) \in Nat
    BY <1>7, <2>2, <2>3, FS_CardinalityType, Zenon DEF L
  <2>5. Cardinality(K) <= Cardinality(L) + Cardinality(Z)
    BY <2>2, <2>3, <2>4
  <2> QED BY <2>4, <2>5, Zenon DEF L, K
<1>9. Cardinality(Lost(n)') <= after + SumFunction(g)
  BY <1>1, <1>2, <1>4, <1>5, <1>6, <1>7, <1>8
<1> QED BY <1>9, Zenon DEF after, g


LEMMA QuietOut ==
    ASSUME RelayInv, NEW a \in Nodes, bus'[a].relay.unread = bus[a].relay.unread,
           relay'[a].outbound = relay[a].outbound, relay'[a].sending = relay[a].sending,
           Cost(a) <= Cost(a)'
    PROVE  OutIsCounted(a, {})
<1>1. \A i : Leaving(a, i) => Leaving(a, i)'
  BY Zenon DEF Leaving
<1>2. Cost(a) + Cardinality({}) = Cost(a)
  <2>1. Cost(a) \in Nat
    BY Queues DEF Cost
  <2> QED BY <2>1, FS_EmptySet
<1> QED BY <1>1, <1>2, Zenon DEF OutIsCounted

LEMMA QuietIn ==
    ASSUME RelayInv, NEW a \in Nodes, bus'[a].listener.unread = bus[a].listener.unread,
           relay'[a].inbound = relay[a].inbound, wire'[a] = wire[a],
           errors'[a] = errors[a], applied[a] \subseteq applied'[a],
           bus[a].listener.missed + Cost(a) <= bus'[a].listener.missed + Cost(a)'
    PROVE  InIsCounted(a, {})
<1>1. \A i : Arriving(a, i) => Arriving(a, i)'
  BY Zenon DEF Arriving
<1>2. bus[a].listener.missed + Cost(a) + Cardinality({}) = bus[a].listener.missed + Cost(a)
  <2>1. Cost(a) \in Nat /\ bus[a].listener.missed \in Nat
    BY Queues DEF Cost
  <2> QED BY <2>1, FS_EmptySet
<1> QED BY <1>1, <1>2, Zenon DEF InIsCounted

LEMMA NothingNew ==
    ASSUME UNCHANGED <<issued, since>>, NEW a
    PROVE  NewIsLeaving(a)
  BY Zenon DEF NewIsLeaving, Current

LEMMA Tables ==
    ASSUME RelayInv
    PROVE  /\ bus \in Buses(TrueMessages) /\ relay \in [Nodes -> RelaysOf(TrueMessages)]
           /\ wire \in [Nodes -> Seq(FramesOf(TrueMessages))]
           /\ applied \in [Nodes -> SUBSET Invalidations]
           /\ counted \in [Nodes -> Nat] /\ errors \in [Nodes -> Nat]
           /\ OutboundCapacity \in Nat \ {0} /\ InboundCapacity \in Nat \ {0}
           /\ BusCapacity \in Nat \ {0}
  BY RelayAssumption, Zenon DEF RelayInv, Scalars

\* A step that changes the tables at node n only.
LEMMA OthersStay ==
    ASSUME RelayInv, NEW n \in Nodes,
           UNCHANGED bus \/ \E c : bus' = [bus EXCEPT ![n] = c],
           UNCHANGED relay \/ \E c : relay' = [relay EXCEPT ![n] = c],
           UNCHANGED applied \/ \E c : applied' = [applied EXCEPT ![n] = c],
           UNCHANGED counted \/ \E c : counted' = [counted EXCEPT ![n] = c],
           UNCHANGED errors \/ \E c : errors' = [errors EXCEPT ![n] = c],
           UNCHANGED wire \/ \E c : wire' = [wire EXCEPT ![n] = c]
    PROVE  \A m \in Nodes \ {n} : StaysAt(m)
<1> SUFFICES ASSUME NEW m \in Nodes, m /= n PROVE StaysAt(m)
  BY Zenon
<1>1. bus'[m] = bus[m] /\ relay'[m] = relay[m] /\ wire'[m] = wire[m]
  BY Tables, Zenon DEF Buses
<1>2. applied'[m] = applied[m] /\ counted'[m] = counted[m] /\ errors'[m] = errors[m]
  BY Tables, Zenon
<1> QED BY <1>1, <1>2, Zenon DEF StaysAt

\* A lag report moves what it reports from the receiver to the counters.
LEMMA ReadBusLaggedCounts ==
    ASSUME RelayInv, RelayInv', EachCounted, NEW n \in Nodes, ReadBusLagged(n)
    PROVE  EachCounted'
<1> DEFINE r == bus[n].relay
<1>1. /\ bus' = [bus EXCEPT ![n].relay = CaughtUp(r)]
      /\ counted' = [counted EXCEPT ![n] = counted[n] + r.missed]
      /\ UNCHANGED <<generation, issued, since, relay, wire, ring, applied, errors, faults>>
  BY Zenon, Tables DEF ReadBusLagged, Buses
<1>2. /\ r \in ReceiversOf(TrueMessages) /\ bus \in Buses(TrueMessages)
      /\ r.missed \in Nat /\ counted[n] \in Nat /\ bus[n].listener.missed \in Nat
      /\ counted \in [Nodes -> Nat]
  BY Queues, Tables, Zenon
<1> HIDE DEF r
<1>3. /\ bus'[n].relay = CaughtUp(r) /\ bus'[n].listener = bus[n].listener
      /\ counted'[n] = counted[n] + r.missed
  <2> DEFINE c == CaughtUp(r)
  <2> HIDE DEF c
  <2>1. bus'[n].relay = c /\ bus'[n].listener = bus[n].listener
    <3>1. bus' = [bus EXCEPT ![n].relay = c]
      BY <1>1, Zenon DEF c
    <3> QED BY Zenon, <1>2, <3>1 DEF Buses
  <2>2. counted'[n] = counted[n] + r.missed
    BY <1>1, <1>2, Zenon
  <2> QED BY <2>1, <2>2, Zenon DEF c
<1>4. bus'[n].relay.unread = r.unread /\ bus'[n].relay.missed = 0
  <2>1. CaughtUp(r).unread = r.unread /\ CaughtUp(r).missed = 0
    BY <1>2, TakenKeeps, Zenon
  <2> QED BY <1>3, <2>1, Zenon
<1>5. Cost(n)' = Cost(n) /\ Cost(n) \in Nat
  BY <1>2, <1>3, <1>4 DEF Cost, r
<1>6. /\ Cost(n) <= Cost(n)'
      /\ bus[n].listener.missed + Cost(n) <= bus'[n].listener.missed + Cost(n)'
  BY <1>2, <1>3, <1>5
<1>7. OutIsCounted(n, {})
  BY <1>1, <1>4, <1>6, QuietOut, Zenon DEF r
<1>8. InIsCounted(n, {})
  BY <1>1, <1>3, <1>6, QuietIn, Zenon
<1>9. NewIsLeaving(n) /\ \A m \in Nodes \ {n} : StaysAt(m)
  BY <1>1, NothingNew, OthersStay, Zenon
<1> QED BY <1>7, <1>8, <1>9, CountedStep, FS_EmptySet, Zenon

LEMMA ListenLaggedCounts ==
    ASSUME RelayInv, RelayInv', EachCounted, NEW n \in Nodes, ListenLagged(n)
    PROVE  EachCounted'
<1> DEFINE r == bus[n].listener
<1>1. /\ bus' = [bus EXCEPT ![n].listener = CaughtUp(r)]
      /\ counted' = [counted EXCEPT ![n] = counted[n] + r.missed]
      /\ UNCHANGED <<generation, issued, since, relay, wire, ring, applied, errors, faults>>
  BY Tables DEF ListenLagged, Buses
<1>2. /\ r \in ReceiversOf(TrueMessages) /\ bus \in Buses(TrueMessages)
      /\ r.missed \in Nat /\ counted[n] \in Nat /\ bus[n].relay.missed \in Nat
      /\ counted \in [Nodes -> Nat]
  BY Queues, Tables, Zenon
<1> HIDE DEF r
<1>3. /\ bus'[n].listener = CaughtUp(r) /\ bus'[n].relay = bus[n].relay
      /\ counted'[n] = counted[n] + r.missed
  <2> DEFINE c == CaughtUp(r)
  <2> HIDE DEF c
  <2>1. bus'[n].listener = c /\ bus'[n].relay = bus[n].relay
    <3>1. bus' = [bus EXCEPT ![n].listener = c]
      BY <1>1, Zenon DEF c
    <3> QED BY Zenon, <1>2, <3>1 DEF Buses
  <2>2. counted'[n] = counted[n] + r.missed
    BY <1>1, <1>2, Zenon
  <2> QED BY <2>1, <2>2, Zenon DEF c
<1>4. bus'[n].listener.unread = r.unread /\ bus'[n].listener.missed = 0
  <2>1. CaughtUp(r).unread = r.unread /\ CaughtUp(r).missed = 0
    BY <1>2, TakenKeeps, Zenon
  <2> QED BY <1>3, <2>1, Zenon
<1>5. /\ Cost(n) <= Cost(n)'
      /\ bus[n].listener.missed + Cost(n) <= bus'[n].listener.missed + Cost(n)'
  BY <1>2, <1>3, <1>4 DEF Cost, r
<1>7. OutIsCounted(n, {})
  BY <1>1, <1>3, <1>5, QuietOut, Zenon
<1>8. InIsCounted(n, {})
  BY <1>1, <1>4, <1>5, QuietIn, Zenon DEF r
<1>9. NewIsLeaving(n) /\ \A m \in Nodes \ {n} : StaysAt(m)
  BY <1>1, NothingNew, OthersStay, Zenon
<1> QED BY <1>7, <1>8, <1>9, CountedStep, FS_EmptySet, Zenon

\* A step that leaves the node's bus alone and counts d frames, of which it
\* loses Y on the way in, or X on the way out.
LEMMA CountedMore ==
    ASSUME RelayInv, NEW a \in Nodes, NEW d \in Nat, bus'[a] = bus[a],
           counted'[a] = counted[a] + d
    PROVE  /\ Cost(a) \in Nat /\ Cost(a)' = Cost(a) + d
           /\ bus[a].listener.missed \in Nat
<1>1. /\ bus[a].relay.missed \in Nat /\ counted[a] \in Nat
      /\ bus[a].listener.missed \in Nat
  BY Queues, Zenon
<1> QED BY <1>1 DEF Cost

LEMMA InLoss ==
    ASSUME RelayInv, NEW a \in Nodes, NEW d \in Nat, bus'[a] = bus[a],
           counted'[a] = counted[a] + d, NEW Y, IsFiniteSet(Y), Cardinality(Y) <= d,
           errors'[a] = errors[a], applied'[a] = applied[a],
           \A i : Arriving(a, i) => Arriving(a, i)' \/ i \in Y
    PROVE  InIsCounted(a, Y)
<1>1. /\ Cost(a) \in Nat /\ Cost(a)' = Cost(a) + d /\ bus[a].listener.missed \in Nat
  BY CountedMore, Zenon
<1>2. Cardinality(Y) \in Nat
  BY FS_CardinalityType, Zenon
<1>3. bus[a].listener.missed + Cost(a) + Cardinality(Y)
         <= bus'[a].listener.missed + Cost(a)'
  BY <1>1, <1>2
<1> QED BY <1>3, Zenon DEF InIsCounted

LEMMA OutLoss ==
    ASSUME RelayInv, NEW a \in Nodes, NEW d \in Nat, bus'[a] = bus[a],
           counted'[a] = counted[a] + d, NEW X, IsFiniteSet(X), Cardinality(X) <= d,
           \A i : Leaving(a, i) => \/ Leaving(a, i)' \/ i \in X
                                   \/ \A n \in Nodes \ {a} : Arriving(n, i)'
    PROVE  OutIsCounted(a, X)
<1>1. /\ Cost(a) \in Nat /\ Cost(a)' = Cost(a) + d
  BY CountedMore, Zenon
<1>2. Cardinality(X) \in Nat
  BY FS_CardinalityType, Zenon
<1>3. Cost(a) + Cardinality(X) <= Cost(a)'
  BY <1>1, <1>2
<1> QED BY <1>3, Zenon DEF OutIsCounted

\* The publisher of a relay takes over the frame it takes from the queue.
LEMMA TakeOutboundCounts ==
    ASSUME RelayInv, RelayInv', EachCounted, NEW n \in Nodes, TakeOutbound(n)
    PROVE  EachCounted'
<1> DEFINE s == relay[n]
           q == s.outbound
           f == Head(q)
           t == [s EXCEPT !.sending = f, !.outbound = Tail(q)]
<1>1. /\ s.sending = NoFrame /\ q /= <<>>
      /\ UNCHANGED <<generation, issued, since, bus, wire, ring, applied, counted, errors, faults>>
  BY Zenon DEF TakeOutbound
<1>2. /\ relay \in [Nodes -> RelaysOf(TrueMessages)] /\ q \in Seq(FramesOf(TrueMessages))
      /\ s \in RelaysOf(TrueMessages)
  BY Tables, Queues, Zenon
<1>3. relay' = [relay EXCEPT ![n] = t]
  BY <1>2, Zenon DEF TakeOutbound
<1>4. f /= NoFrame
  <2>1. f \in FramesOf(TrueMessages)
    BY <1>1, <1>2
  <2>2. FramesOf(TrueMessages) \subseteq Frames
    BY Zenon DEF FramesOf, Frames, TrueMessages
  <2> QED BY <2>1, <2>2, RelayAssumption, Zenon
<1>5. \A i : Ships(q, i) => f.message.invalidation = i \/ Ships(Tail(q), i)
  BY <1>1, <1>2, RestHolds, Zenon
<1>6. t.sending = f /\ t.outbound = Tail(q) /\ t.inbound = s.inbound
  BY Zenon, <1>2 DEF RelaysOf, RelayRecords
<1> HIDE DEF t, f
<1>7. relay'[n] = t
  BY <1>2, <1>3, Zenon
<1>8. \A i : Leaving(n, i) => Leaving(n, i)'
  BY <1>1, <1>4, <1>5, <1>6, <1>7, Zenon DEF Leaving
<1>9. \A i : Arriving(n, i) => Arriving(n, i)'
  BY <1>1, <1>6, <1>7, Zenon DEF Arriving
<1>10. /\ 0 \in Nat /\ bus'[n] = bus[n] /\ counted'[n] = counted[n] + 0
       /\ IsFiniteSet({}) /\ Cardinality({}) <= 0
  BY <1>1, Queues, FS_EmptySet
<1>11. OutIsCounted(n, {})
  BY <1>8, <1>10, OutLoss, Zenon
<1>12. InIsCounted(n, {})
  BY <1>1, <1>9, <1>10, InLoss, Zenon
<1>13. NewIsLeaving(n) /\ \A m \in Nodes \ {n} : StaysAt(m)
  BY <1>1, <1>3, NothingNew, OthersStay, Zenon
<1> QED BY <1>10, <1>11, <1>12, <1>13, CountedStep, Zenon

\* An error of next_inbound may stand for any number of frames.
LEMMA ReceiveErrorCounts ==
    ASSUME RelayInv, RelayInv', EachCounted, NEW n \in Nodes, ReceiveError(n)
    PROVE  EachCounted'
<1> DEFINE s == relay[n]
           t == [s EXCEPT !.resume = Append(s.resume, s.last_seen)]
<1>1. /\ wire' = [wire EXCEPT ![n] = <<>>]
      /\ errors' = [errors EXCEPT ![n] = errors[n] + 1]
      /\ UNCHANGED <<generation, issued, since, bus, ring, applied, counted>>
  BY Zenon DEF ReceiveError
<1>2. /\ relay \in [Nodes -> RelaysOf(TrueMessages)] /\ s \in RelaysOf(TrueMessages)
      /\ errors \in [Nodes -> Nat]
  BY Tables, Queues, Zenon
<1>3. relay' = [relay EXCEPT ![n] = t]
  BY <1>2, Zenon DEF ReceiveError
<1>4. t.sending = s.sending /\ t.outbound = s.outbound /\ errors'[n] /= 0
  BY <1>1, <1>2 DEF RelaysOf, RelayRecords
<1> HIDE DEF t
<1>5. relay'[n] = t
  BY <1>2, <1>3, Zenon
<1>6. /\ 0 \in Nat /\ bus'[n] = bus[n] /\ counted'[n] = counted[n] + 0
      /\ IsFiniteSet({}) /\ Cardinality({}) = 0 /\ Cardinality({}) <= 0
  BY <1>1, Queues, FS_EmptySet
<1>7. OutIsCounted(n, {})
  <2>1. \A i : Leaving(n, i) => Leaving(n, i)'
    BY <1>1, <1>4, <1>5, Zenon DEF Leaving
  <2> QED BY <1>6, <2>1, OutLoss, Zenon
<1>8. InIsCounted(n, {})
  <2>1. Cost(n) \in Nat /\ Cost(n)' = Cost(n) + 0 /\ bus[n].listener.missed \in Nat
    BY <1>6, CountedMore, Zenon
  <2>2. bus[n].listener.missed + Cost(n) + Cardinality({})
           <= bus'[n].listener.missed + Cost(n)'
    BY <1>6, <2>1
  <2> QED BY <1>1, <1>4, <2>2, Zenon DEF InIsCounted
<1>9. NewIsLeaving(n) /\ \A m \in Nodes \ {n} : StaysAt(m)
  BY <1>1, <1>3, NothingNew, OthersStay, Zenon
<1> QED BY <1>6, <1>7, <1>8, <1>9, CountedStep, Zenon

\* An undecodable frame is counted.
LEMMA ReceiveGarbledCounts ==
    ASSUME RelayInv, RelayInv', EachCounted, NEW n \in Nodes, ReceiveGarbled(n)
    PROVE  EachCounted'
<1> DEFINE w == wire[n]
           h == Head(w).message.invalidation
<1>1. /\ w /= <<>> /\ wire' = [wire EXCEPT ![n] = Tail(w)]
      /\ counted' = [counted EXCEPT ![n] = counted[n] + 1]
      /\ UNCHANGED <<generation, issued, since, bus, relay, ring, applied, errors>>
  BY Zenon DEF ReceiveGarbled
<1>2. /\ wire \in [Nodes -> Seq(FramesOf(TrueMessages))] /\ w \in Seq(FramesOf(TrueMessages))
      /\ counted \in [Nodes -> Nat] /\ counted[n] \in Nat
  BY Tables, Queues, Zenon
<1>3. \A i : Ships(w, i) => h = i \/ Ships(Tail(w), i)
  BY <1>1, <1>2, RestHolds, Zenon
<1> HIDE DEF h
<1>4. wire'[n] = Tail(w) /\ counted'[n] = counted[n] + 1
  BY <1>1, <1>2, Zenon
<1>5. \A i : Arriving(n, i) => Arriving(n, i)' \/ i \in {h}
  BY <1>1, <1>3, <1>4, Zenon DEF Arriving
<1>6. /\ 0 \in Nat /\ 1 \in Nat /\ bus'[n] = bus[n] /\ IsFiniteSet({h}) /\ Cardinality({h}) <= 1
      /\ Cost(n) <= Cost(n)'
  <2>1. IsFiniteSet({h}) /\ Cardinality({h}) = 1
    BY FS_Singleton, Zenon
  <2>2. Cost(n) \in Nat /\ Cost(n)' = Cost(n) + 1
    BY Zenon, <1>1, <1>4, CountedMore
  <2> QED BY <1>1, <2>1, <2>2
<1>7. OutIsCounted(n, {})
  BY <1>1, <1>6, QuietOut, Zenon
<1>8. InIsCounted(n, {h})
  BY <1>1, <1>4, <1>5, <1>6, InLoss, Zenon
<1>9. NewIsLeaving(n) /\ \A m \in Nodes \ {n} : StaysAt(m)
  BY <1>1, NothingNew, OthersStay, Zenon
<1> QED BY <1>6, <1>7, <1>8, <1>9, CountedStep, FS_EmptySet, Zenon

\* Two sequences one after the other, the first of length m and the second of l.
IsJoined(c, a, b, m, l) ==
    /\ Len(c) = m + l
    /\ \A j \in 1..m : c[j] = a[j]
    /\ \A i \in 1..l : c[m + i] = b[i]

LEMMA Joined ==
    ASSUME NEW S, NEW a \in Seq(S), NEW b \in Seq(S), NEW m \in Nat, NEW l \in Nat,
           Len(a) = m, Len(b) = l
    PROVE  IsJoined(a \o b, a, b, m, l)
  BY DEF IsJoined

\* Arithmetic: the positions before and after the k-th of n.
LEMMA AroundPosition ==
    ASSUME NEW n \in Nat, NEW k \in 1..n
    PROVE  /\ k - 1 \in Nat /\ n - k \in Nat /\ (k - 1) + (n - k) = n - 1
           /\ \A j \in 1..n :
                \/ j = k
                \/ j \in 1..(k - 1) /\ j \in 1..(n - 1)
                \/ /\ j - k \in 1..(n - k) /\ k + (j - k) = j
                   /\ (k - 1) + (j - k) \in 1..(n - 1)
  OBVIOUS

\* A sequence without its k-th element.
LEMMA RemovedAt ==
    ASSUME NEW S, NEW q \in Seq(S), NEW k \in 1..Len(q)
    PROVE  \A j \in 1..Len(q) :
             \/ q[j] = q[k]
             \/ LET rest == SubSeq(q, 1, k - 1) \o SubSeq(q, k + 1, Len(q))
                IN  \E l \in 1..Len(rest) : rest[l] = q[j]
<1> DEFINE a == SubSeq(q, 1, k - 1)
           b == SubSeq(q, k + 1, Len(q))
           rest == a \o b
           n == Len(q)
<1>1. n \in Nat /\ k \in Nat /\ k \in 0..n
  OBVIOUS
<1>2. a \in Seq(S) /\ Len(a) = k - 1 /\ \A j \in 1..(k - 1) : a[j] = q[j]
  BY <1>1
<1>3. /\ b \in Seq(S) /\ DOMAIN b = 1..(n - k)
      /\ \A i \in 1..(n - k) : b[i] = q[k + i]
  BY <1>1, Suffix, Zenon
<1>4. Len(b) = n - k
  BY <1>1, <1>3
<1>5. /\ k - 1 \in Nat /\ n - k \in Nat /\ (k - 1) + (n - k) = n - 1
      /\ \A j \in 1..n :
                \/ j = k
                \/ j \in 1..(k - 1) /\ j \in 1..(n - 1)
                \/ /\ j - k \in 1..(n - k) /\ k + (j - k) = j
                   /\ (k - 1) + (j - k) \in 1..(n - 1)
  BY <1>1, AroundPosition, Zenon
<1> HIDE DEF a, b
<1>6. /\ Len(rest) = (k - 1) + (n - k)
      /\ \A j \in 1..(k - 1) : rest[j] = a[j]
      /\ \A i \in 1..(n - k) : rest[(k - 1) + i] = b[i]
  <2> DEFINE m == k - 1
             l == n - k
  <2>1. m \in Nat /\ l \in Nat
    BY <1>5, Zenon
  <2>2. a \in Seq(S) /\ b \in Seq(S) /\ Len(a) = m /\ Len(b) = l
    BY <1>2, <1>3, <1>4, Zenon
  <2> HIDE DEF m, l
  <2>3. IsJoined(rest, a, b, m, l)
    BY <2>1, <2>2, Joined, Zenon
  <2> QED BY <2>3, Zenon DEF IsJoined, m, l
<1> HIDE DEF rest, n
<1>7. ASSUME NEW j \in 1..n PROVE q[j] = q[k] \/ \E l \in 1..Len(rest) : rest[l] = q[j]
  <2>1. CASE j = k
    BY Zenon, <2>1
  <2>2. CASE j \in 1..(k - 1) /\ j \in 1..(n - 1)
    <3>1. a[j] = q[j]
      BY <1>2, <2>2, Zenon
    <3>2. rest[j] = a[j]
      BY <1>6, <2>2, Zenon
    <3>3. j \in 1..Len(rest)
      BY <1>5, <1>6, <2>2, Zenon
    <3> QED BY <3>1, <3>2, <3>3, Zenon
  <2>3. CASE /\ j - k \in 1..(n - k) /\ k + (j - k) = j
             /\ (k - 1) + (j - k) \in 1..(n - 1)
    <3>1. rest[(k - 1) + (j - k)] = b[j - k] /\ b[j - k] = q[k + (j - k)]
      BY <1>3, <1>6, <2>3, Zenon
    <3>2. (k - 1) + (j - k) \in 1..Len(rest) /\ b[j - k] = q[j]
      BY <1>5, <1>6, <2>3, <3>1, Zenon
    <3> QED BY <3>1, <3>2, Zenon
  <2> QED BY <1>5, <2>1, <2>2, <2>3, Zenon
<1> QED BY <1>7, Zenon DEF rest, a, b, n

\* A frame of the transport is queued, and what it displaces is counted.
LEMMA ReceiveCounts ==
    ASSUME RelayInv, RelayInv', EachCounted, NEW n \in Nodes, NEW k \in DOMAIN wire[n],
           Receive(n, k)
    PROVE  EachCounted'
<1> DEFINE s == relay[n]
           w == wire[n]
           f == w[k]
           q == s.inbound
           p == PushDropOldest(q, f, InboundCapacity)
           d == Dropped(q, InboundCapacity)
           l == IF f.id > s.last_seen THEN f.id ELSE s.last_seen
           t == [s EXCEPT !.last_seen = l, !.inbound = p]
           rest == SubSeq(w, 1, k - 1) \o SubSeq(w, k + 1, Len(w))
           F == FramesOf(TrueMessages)
<1>1. /\ relay \in [Nodes -> RelaysOf(TrueMessages)] /\ s \in RelaysOf(TrueMessages)
      /\ wire \in [Nodes -> Seq(F)] /\ w \in Seq(F) /\ q \in Seq(F)
      /\ counted \in [Nodes -> Nat] /\ InboundCapacity \in Nat \ {0}
  BY Tables, Queues, Zenon
<1>2. /\ relay' = [relay EXCEPT ![n] = t]
      /\ counted' = [counted EXCEPT ![n] = counted[n] + Len(d)]
      /\ \/ wire' = [wire EXCEPT ![n] = rest]
         \/ UNCHANGED wire
      /\ UNCHANGED <<generation, issued, since, bus, ring, applied, errors>>
  BY <1>1, Zenon DEF Receive
<1>3. t.inbound = p /\ t.outbound = s.outbound /\ t.sending = s.sending
  <2> HIDE DEF l, p
  <2> QED BY Zenon, <1>1 DEF RelaysOf, RelayRecords
<1>4. k \in 1..Len(w) /\ f \in F
  BY <1>1
<1>5. /\ Ships(p, f.message.invalidation)
      /\ \A i : Ships(q, i) => Ships(p, i) \/ i \in Shipped(d)
  <2> HIDE DEF f
  <2> QED BY <1>1, <1>4, PushShips, Zenon
<1>6. Len(d) \in Nat
  <2>1. Len(d) \in {0, 1}
    BY <1>1, DroppedIsOldest, Zenon
  <2> QED BY <2>1
<1>7. IsFiniteSet(Shipped(d)) /\ Cardinality(Shipped(d)) <= Len(d)
  BY <1>6, FewShipped, Zenon
<1>8. \A i : Ships(w, i) => i = f.message.invalidation \/ Ships(rest, i)
  <2>1. \A j \in 1..Len(w) : w[j] = w[k] \/ \E x \in 1..Len(rest) : rest[x] = w[j]
    BY <1>1, <1>4, RemovedAt, Zenon
  <2> HIDE DEF rest, w
  <2> QED BY <2>1, Zenon DEF Ships
<1> HIDE DEF t, rest, p, d, f
<1>9. /\ relay'[n] = t /\ counted'[n] = counted[n] + Len(d) /\ bus'[n] = bus[n]
      /\ wire'[n] = rest \/ wire'[n] = w
  BY <1>1, <1>2, Zenon
<1>10. \A i : Ships(w, i) => i = f.message.invalidation \/ Ships(wire'[n], i)
  BY <1>8, <1>9, Zenon
<1>11. ASSUME NEW i, Arriving(n, i) PROVE Arriving(n, i)' \/ i \in Shipped(d)
  <2>1. CASE Ships(w, i)
    BY <1>3, <1>5, <1>9, <1>10, <2>1, Zenon DEF Arriving
  <2>2. CASE Ships(q, i)
    BY <1>3, <1>5, <1>9, <2>2, Zenon DEF Arriving
  <2>3. CASE Carries(bus[n].listener.unread, i)
    BY <1>9, <2>3, Zenon DEF Arriving
  <2> QED BY <1>11, <2>1, <2>2, <2>3, Zenon DEF Arriving
<1>12. Cost(n) <= Cost(n)'
  <2>1. Cost(n) \in Nat /\ Cost(n)' = Cost(n) + Len(d)
    BY <1>6, <1>9, CountedMore, Zenon
  <2> QED BY <1>6, <2>1
<1>13. OutIsCounted(n, {})
  BY <1>2, <1>3, <1>9, <1>12, QuietOut, Zenon
<1>14. InIsCounted(n, Shipped(d))
  BY <1>2, <1>6, <1>7, <1>9, <1>11, InLoss, Zenon
<1>15. NewIsLeaving(n) /\ \A m \in Nodes \ {n} : StaysAt(m)
  BY <1>2, NothingNew, OthersStay, Zenon
<1> QED BY <1>7, <1>13, <1>14, <1>15, CountedStep, FS_EmptySet, Zenon

\* A sequence that grew at its end and lost its first x elements.
IsCut(a, d, rest) ==
    \A j \in 1..Len(a) : \/ \E l \in 1..Len(d) : d[l] = a[j]
                         \/ \E l \in 1..Len(rest) : rest[l] = a[j]

LEMMA CutShips ==
    ASSUME NEW a, NEW d, NEW rest, IsCut(a, d, rest), NEW i, Ships(a, i)
    PROVE  Ships(rest, i) \/ i \in Shipped(d)
<1>1. PICK j \in 1..Len(a) : a[j].message.invalidation = i
  BY Zenon DEF Ships
<1>2. CASE \E l \in 1..Len(rest) : rest[l] = a[j]
  BY <1>1, <1>2, Zenon DEF Ships
<1>3. CASE \E l \in 1..Len(d) : d[l] = a[j]
  BY <1>1, <1>3, Zenon DEF Shipped
<1> QED BY <1>2, <1>3, Zenon DEF IsCut

LEMMA CutHolds ==
    ASSUME NEW S, NEW a \in Seq(S), NEW b \in Seq(S), NEW x \in 0..Len(a \o b)
    PROVE  IsCut(a, SubSeq(a \o b, 1, x), SubSeq(a \o b, x + 1, Len(a \o b)))
<1> DEFINE c == a \o b
           n == Len(c)
           d == SubSeq(c, 1, x)
           rest == SubSeq(c, x + 1, n)
<1>1. c \in Seq(S) /\ n \in Nat /\ Len(a) \in Nat /\ Len(a) <= n /\ x \in 0..Len(c)
      /\ \A j \in 1..Len(a) : c[j] = a[j]
  OBVIOUS
<1> HIDE DEF c
<1>2. Len(d) = x /\ \A j \in 1..x : d[j] = c[j]
  BY <1>1
<1>3. DOMAIN rest = 1..(n - x) /\ \A i \in 1..(n - x) : rest[i] = c[x + i]
  BY <1>1, Suffix, Zenon
<1>4. Len(rest) = n - x
  <2>1. rest \in Seq(S)
    BY <1>1, Suffix, Zenon
  <2> HIDE DEF rest
  <2> QED BY <1>1, <1>3, <2>1
<1> HIDE DEF d, rest, n
<1>5. ASSUME NEW j \in 1..Len(a)
      PROVE  (\E l \in 1..Len(d) : d[l] = a[j]) \/ (\E l \in 1..Len(rest) : rest[l] = a[j])
  <2>1. j \in 1..x \/ (j - x \in 1..(n - x) /\ x + (j - x) = j)
    BY <1>1 DEF n
  <2>2. CASE j \in 1..x
    BY <1>1, <1>2, <2>2, Zenon
  <2>3. CASE j - x \in 1..(n - x) /\ x + (j - x) = j
    <3>1. rest[j - x] = c[x + (j - x)] /\ c[j] = a[j]
      BY <1>1, <1>3, <2>3, Zenon
    <3>2. rest[j - x] = a[j] /\ j - x \in 1..Len(rest)
      BY <1>4, <2>3, <3>1, Zenon
    <3> QED BY <3>2, Zenon
  <2> QED BY Zenon, <2>1, <2>2, <2>3
<1>6. IsCut(a, d, rest)
  BY <1>5, Zenon DEF IsCut
<1> QED BY <1>6, Zenon DEF c, n, d, rest

\* A replay counts the frames it pushes out of the inbound queue.
LEMMA ResumeCounts ==
    ASSUME RelayInv, RelayInv', EachCounted, NEW n \in Nodes, Resume(n)
    PROVE  EachCounted'
<1> DEFINE s == relay[n]
           q == s.inbound
           p == ReplayFrames(ring[n], Head(s.resume))
           c == q \o p
           x == IF Len(c) > InboundCapacity THEN Len(c) - InboundCapacity ELSE 0
           rest == SubSeq(c, x + 1, Len(c))
           d == SubSeq(c, 1, x)
           t == [s EXCEPT !.resume = Tail(s.resume), !.inbound = rest]
           F == FramesOf(TrueMessages)
<1>1. /\ relay \in [Nodes -> RelaysOf(TrueMessages)] /\ s \in RelaysOf(TrueMessages)
      /\ q \in Seq(F) /\ counted \in [Nodes -> Nat] /\ InboundCapacity \in Nat \ {0}
  BY Tables, Queues, Zenon
<1>2. /\ relay' = [relay EXCEPT ![n] = t]
      /\ counted' = [counted EXCEPT ![n] = counted[n] + x]
      /\ s.resume /= <<>>
      /\ UNCHANGED <<generation, issued, since, bus, wire, ring, applied, errors, faults>>
  BY Zenon DEF Resume
<1>3. p \in Seq(F)
  BY <1>2, ReplayIsTrue, Zenon
<1> HIDE DEF p, F
<1>4. x \in 0..Len(c) /\ x \in Nat /\ Len(d) = x
  BY <1>1, <1>3
<1>5. t.inbound = rest /\ t.outbound = s.outbound /\ t.sending = s.sending
  <2> HIDE DEF rest
  <2> QED BY Zenon, <1>1 DEF RelaysOf, RelayRecords
<1>6. \A i : Ships(q, i) => Ships(rest, i) \/ i \in Shipped(d)
  <2> HIDE DEF x
  <2>1. IsCut(q, d, rest)
    BY <1>1, <1>3, <1>4, CutHolds, Zenon
  <2> HIDE DEF d, rest, q
  <2> QED BY <2>1, CutShips, Zenon
<1> HIDE DEF t, rest, d, x
<1>7. IsFiniteSet(Shipped(d)) /\ Cardinality(Shipped(d)) <= x
  BY <1>4, FewShipped, Zenon
<1>8. relay'[n] = t /\ counted'[n] = counted[n] + x /\ bus'[n] = bus[n]
  BY <1>1, <1>2, Zenon
<1>9. \A i : Arriving(n, i) => Arriving(n, i)' \/ i \in Shipped(d)
  BY <1>2, <1>5, <1>6, <1>8, Zenon DEF Arriving
<1>10. Cost(n) <= Cost(n)'
  <2>1. Cost(n) \in Nat /\ Cost(n)' = Cost(n) + x
    BY <1>4, <1>8, CountedMore, Zenon
  <2> QED BY <1>4, <2>1
<1>11. OutIsCounted(n, {})
  BY <1>2, <1>5, <1>8, <1>10, QuietOut, Zenon
<1>12. InIsCounted(n, Shipped(d))
  BY <1>2, <1>4, <1>7, <1>8, <1>9, InLoss, Zenon
<1>13. NewIsLeaving(n) /\ \A m \in Nodes \ {n} : StaysAt(m)
  BY <1>2, NothingNew, OthersStay, Zenon
<1> QED BY <1>7, <1>11, <1>12, <1>13, CountedStep, FS_EmptySet, Zenon

LEMMA AppendShips ==
    ASSUME NEW S, NEW q \in Seq(S), NEW f \in S
    PROVE  /\ \A i : Ships(q, i) => Ships(Append(q, f), i)
           /\ Ships(Append(q, f), f.message.invalidation)
<1> DEFINE p == Append(q, f)
<1>1. /\ Len(q) + 1 \in 1..Len(p) /\ p[Len(q) + 1] = f
      /\ \A k \in 1..Len(q) : k \in 1..Len(p) /\ p[k] = q[k]
  OBVIOUS
<1> HIDE DEF p
<1>2. (\A i : Ships(q, i) => Ships(p, i)) /\ Ships(p, f.message.invalidation)
  BY <1>1, Zenon DEF Ships
<1> QED BY <1>2, Zenon DEF p

\* A published frame is on every other node's wire; a failure is counted.
LEMMA PublishFrameCounts ==
    ASSUME RelayInv, RelayInv', EachCounted, NEW n \in Nodes, PublishFrame(n)
    PROVE  EachCounted'
<1> DEFINE s == relay[n]
           f == s.sending
           h == f.message.invalidation
           t == [s EXCEPT !.sending = NoFrame]
           F == FramesOf(TrueMessages)
           Fanned(receivers) ==
               wire' = [m \in Nodes |->
                          IF m \in receivers THEN Append(wire[m], f) ELSE wire[m]]
<1>1. /\ relay \in [Nodes -> RelaysOf(TrueMessages)] /\ s \in RelaysOf(TrueMessages)
      /\ wire \in [Nodes -> Seq(F)] /\ counted \in [Nodes -> Nat] /\ f \in F \cup {NoFrame}
  BY Tables, Queues, Zenon
<1>2. /\ f /= NoFrame
      /\ UNCHANGED <<generation, issued, since, bus, ring, applied, errors>>
      /\ relay' = [relay EXCEPT ![n] = t]
  BY <1>1, Zenon DEF PublishFrame
<1>3. \/ UNCHANGED counted /\ (Fanned(Nodes \ {n}) \/ Fanned(Nodes))
      \/ UNCHANGED wire /\ counted' = [counted EXCEPT ![n] = counted[n] + 1]
  BY Zenon DEF PublishFrame
<1>4. t.inbound = s.inbound /\ t.outbound = s.outbound
  BY Zenon, <1>1 DEF RelaysOf, RelayRecords
<1>5. f \in F
  BY <1>1, <1>2, Zenon
<1> HIDE DEF t, F, Fanned
<1>6. relay'[n] = t /\ bus'[n] = bus[n] /\ errors'[n] = errors[n] /\ applied'[n] = applied[n]
  BY <1>1, <1>2, Zenon
<1>7. \A i : Leaving(n, i) => Leaving(n, i)' \/ i = h
  BY <1>2, <1>4, <1>6, Zenon DEF Leaving
<1> HIDE DEF f, h
<1>8. \A m \in Nodes \ {n} : relay'[m] = relay[m] /\ bus'[m] = bus[m]
                             /\ errors'[m] = errors[m] /\ applied'[m] = applied[m]
  BY <1>1, <1>2, Zenon
<1>9. NewIsLeaving(n)
  BY <1>2, NothingNew, Zenon
<1>10. CASE UNCHANGED wire /\ counted' = [counted EXCEPT ![n] = counted[n] + 1]
  <2>1. 1 \in Nat /\ IsFiniteSet({h}) /\ Cardinality({h}) <= 1 /\ counted'[n] = counted[n] + 1
    <3>1. IsFiniteSet({h}) /\ Cardinality({h}) = 1
      BY FS_Singleton, Zenon
    <3> QED BY <1>1, <1>10, <3>1
  <2>2. OutIsCounted(n, {h})
    BY <1>6, <1>7, <2>1, OutLoss, Zenon
  <2>3. Cardinality({}) <= 1 /\ IsFiniteSet({})
    BY FS_EmptySet
  <2>4. \A i : Arriving(n, i) => Arriving(n, i)'
    BY <1>4, <1>6, <1>10, Zenon DEF Arriving
  <2>5. InIsCounted(n, {})
    BY <1>6, <2>1, <2>3, <2>4, InLoss, Zenon
  <2>6. \A m \in Nodes \ {n} : StaysAt(m)
    BY <1>1, <1>8, <1>10, Zenon DEF StaysAt
  <2> QED BY <1>9, <2>1, <2>2, <2>3, <2>5, <2>6, CountedStep, Zenon
<1>11. CASE UNCHANGED counted /\ (Fanned(Nodes \ {n}) \/ Fanned(Nodes))
  <2>1. ASSUME NEW m \in Nodes
        PROVE  /\ \A i : Ships(wire[m], i) => Ships(wire'[m], i)
               /\ m /= n => Ships(wire'[m], h)
    <3>1. wire[m] \in Seq(F)
      BY <1>1, Zenon
    <3>2. wire'[m] = wire[m] \/ wire'[m] = Append(wire[m], f)
      BY <1>11, Zenon DEF Fanned
    <3>3. m /= n => wire'[m] = Append(wire[m], f)
      BY <1>11, Zenon DEF Fanned
    <3>4. /\ \A i : Ships(wire[m], i) => Ships(Append(wire[m], f), i)
          /\ Ships(Append(wire[m], f), h)
      BY <1>5, <3>1, AppendShips, Zenon DEF h
    <3> QED BY <3>2, <3>3, <3>4, Zenon
  <2>2. \A i : Leaving(n, i) => Leaving(n, i)' \/ \A m \in Nodes \ {n} : Arriving(m, i)'
    BY <1>7, <2>1, Zenon DEF Arriving
  <2>3. /\ 0 \in Nat /\ IsFiniteSet({}) /\ Cardinality({}) <= 0
        /\ counted'[n] = counted[n] + 0
    BY <1>1, <1>11, FS_EmptySet
  <2>4. OutIsCounted(n, {})
    BY <1>6, <2>2, <2>3, OutLoss, Zenon
  <2>5. \A i : Arriving(n, i) => Arriving(n, i)'
    BY <1>4, <1>6, <2>1, Zenon DEF Arriving
  <2>6. InIsCounted(n, {})
    BY <1>6, <2>3, <2>5, InLoss, Zenon
  <2>7. \A m \in Nodes \ {n} : StaysAt(m)
    BY <1>8, <1>11, <2>1, Zenon DEF StaysAt
  <2> QED BY <1>9, <2>3, <2>4, <2>6, <2>7, CountedStep, Zenon
<1> QED BY Zenon, <1>3, <1>10, <1>11

\* The relay reads a message of its bus: it queues those of its own node, and
\* counts the frame that displaces.
LEMMA ReadBusCounts ==
    ASSUME RelayInv, RelayInv', EachCounted, NEW n \in Nodes, ReadBus(n)
    PROVE  EachCounted'
<1> DEFINE r == bus[n].relay
           u == r.unread
           m == Head(u)
           s == relay[n]
           q == s.outbound
           f == [message |-> m, id |-> s.next_message_id]
           p == PushDropOldest(q, f, OutboundCapacity)
           d == Dropped(q, OutboundCapacity)
           e == s.resume \o ResumePoints(d)
           t == [s EXCEPT !.next_message_id = s.next_message_id + 1, !.outbound = p,
                          !.resume = e]
           c == Taken(r)
<1>1. /\ bus \in Buses(TrueMessages) /\ r \in ReceiversOf(TrueMessages)
      /\ u \in Seq(TrueMessages) /\ r.missed \in Nat
      /\ relay \in [Nodes -> RelaysOf(TrueMessages)] /\ s \in RelaysOf(TrueMessages)
      /\ q \in Seq(FramesOf(TrueMessages)) /\ OutboundCapacity \in Nat \ {0}
      /\ counted \in [Nodes -> Nat] /\ counted[n] \in Nat /\ bus[n].listener.missed \in Nat
  BY Tables, Queues, Zenon
<1>2. /\ u /= <<>> /\ bus' = [bus EXCEPT ![n].relay = c]
      /\ \/ m.source /= n /\ UNCHANGED <<relay, counted>>
         \/ /\ m.source = n /\ relay' = [relay EXCEPT ![n] = t]
            /\ counted' = [counted EXCEPT ![n] = counted[n] + Len(d)]
      /\ UNCHANGED <<generation, issued, since, wire, ring, applied, errors, faults>>
  <2>1. [bus EXCEPT ![n].relay = Taken(@)] = [bus EXCEPT ![n].relay = c]
    BY Zenon, <1>1 DEF Buses
  <2> QED BY <2>1, Zenon DEF ReadBus
<1>3. c.unread = Tail(u) /\ c.missed = r.missed /\ m \in TrueMessages
  BY <1>1, <1>2, TakenKeeps, Zenon
<1>4. \A i : Waits(u, n, i) => (m.source = n /\ m.invalidation = i) \/ Waits(Tail(u), n, i)
  BY <1>1, <1>2, RestHolds, Zenon
<1>5. Len(d) \in Nat
  <2>1. Len(d) \in {0, 1}
    BY <1>1, DroppedIsOldest, Zenon
  <2> QED BY <2>1
<1>6. f \in FramesOf(TrueMessages) /\ f.message = m
  <2>1. s.next_message_id \in Nat
    BY Zenon, <1>1, RelayFields
  <2> HIDE DEF m, s
  <2> QED BY Zenon, <1>3, <2>1 DEF FramesOf
<1>7. Ships(p, m.invalidation) /\ \A i : Ships(q, i) => Ships(p, i) \/ i \in Shipped(d)
  <2> HIDE DEF f
  <2> QED BY <1>1, <1>6, PushShips, Zenon
<1>8. t.outbound = p /\ t.sending = s.sending /\ t.inbound = s.inbound
  <2> HIDE DEF p, e
  <2> QED BY Zenon, <1>1 DEF RelaysOf, RelayRecords
<1> HIDE DEF c, t, p, d, f, m
<1>9. bus'[n].relay = c /\ bus'[n].listener = bus[n].listener
  BY <1>1, <1>2 DEF Buses
<1>10. NewIsLeaving(n) /\ \A j \in Nodes \ {n} : StaysAt(j)
  BY <1>2, NothingNew, OthersStay, Zenon
<1>11. CASE m.source /= n /\ UNCHANGED <<relay, counted>>
  <2>1. Cost(n)' = Cost(n) /\ Cost(n) \in Nat /\ Cardinality({}) = 0 /\ IsFiniteSet({})
    BY <1>1, <1>3, <1>9, <1>11, FS_EmptySet DEF Cost
  <2>2. /\ Cost(n) + Cardinality({}) <= Cost(n)'
        /\ bus[n].listener.missed + Cost(n) <= bus'[n].listener.missed + Cost(n)'
    BY <1>1, <1>9, <2>1
  <2>3. \A i : Leaving(n, i) => Leaving(n, i)'
    BY <1>3, <1>4, <1>9, <1>11, Zenon DEF Leaving
  <2>4. OutIsCounted(n, {})
    BY <2>2, <2>3, Zenon DEF OutIsCounted
  <2>5. InIsCounted(n, {})
    BY <1>2, <1>9, <1>11, <2>2, QuietIn, Zenon
  <2> QED BY <1>10, <2>1, <2>4, <2>5, CountedStep, Zenon
<1>12. CASE /\ m.source = n /\ relay' = [relay EXCEPT ![n] = t]
            /\ counted' = [counted EXCEPT ![n] = counted[n] + Len(d)]
  <2>1. relay'[n] = t /\ counted'[n] = counted[n] + Len(d)
    BY <1>1, <1>12, Zenon
  <2>2. Cost(n)' = Cost(n) + Len(d) /\ Cost(n) \in Nat
    <3>1. Cost(n)' = (counted[n] + Len(d)) + r.missed /\ Cost(n) = counted[n] + r.missed
      BY <1>3, <1>9, <2>1, Zenon DEF Cost
    <3>2. counted[n] \in Nat /\ r.missed \in Nat
      BY <1>1, Zenon
    <3> HIDE DEF r
    <3> QED BY <1>5, <3>1, <3>2
  <2>3. /\ IsFiniteSet(Shipped(d)) /\ Cardinality(Shipped(d)) \in Nat
        /\ Cardinality(Shipped(d)) <= Len(d)
    BY <1>5, FewShipped, Zenon
  <2>4. /\ Cost(n) + Cardinality(Shipped(d)) <= Cost(n)'
        /\ bus[n].listener.missed + Cost(n) <= bus'[n].listener.missed + Cost(n)'
    BY <1>1, <1>5, <1>9, <2>2, <2>3
  <2>5. ASSUME NEW i, Leaving(n, i) PROVE Leaving(n, i)' \/ i \in Shipped(d)
    <3>1. CASE Waits(u, n, i)
      BY <1>3, <1>4, <1>7, <1>8, <1>9, <2>1, <3>1, Zenon DEF Leaving
    <3>2. CASE Ships(q, i)
      BY <1>7, <1>8, <2>1, <3>2, Zenon DEF Leaving
    <3>3. CASE s.sending /= NoFrame /\ s.sending.message.invalidation = i
      BY <1>8, <2>1, <3>3, Zenon DEF Leaving
    <3> QED BY <2>5, <3>1, <3>2, <3>3, Zenon DEF Leaving
  <2>6. OutIsCounted(n, Shipped(d))
    BY <2>4, <2>5, Zenon DEF OutIsCounted
  <2>7. InIsCounted(n, {})
    BY <1>2, <1>8, <1>9, <2>1, <2>4, QuietIn, Zenon
  <2> QED BY <1>10, <2>3, <2>6, <2>7, CountedStep, FS_EmptySet, Zenon
<1> QED BY Zenon, <1>2, <1>11, <1>12

\* A message of an invalidation that concerns node n is one its cache takes.
LEMMA ConcernsAreTaken ==
    ASSUME RelayInv, NEW n \in Nodes, NEW m \in TrueMessages, NEW i \in Current,
           m.invalidation = i, issued[i] /= n
    PROVE  /\ m.source /= n /\ i \in Told(m)
           /\ \/ m.generation = 0
              \/ m.source \in Nodes /\ m.generation = generation[m.source]
<1>1. i \in 1..Len(issued) /\ \A k \in Nodes : i > since[k]
  BY Zenon DEF Current
<1>2. Len(issued) \in Nat
  BY DEF RelayInv, Scalars
<1>3. i \in Told(m)
  BY Zenon, <1>1, <1>2 DEF Told, Flush
<1>4. /\ m.source \in Nodes =>
             /\ issued[m.invalidation] = m.source
             /\ m.invalidation > since[m.source] => m.generation = generation[m.source]
      /\ m.source \notin Nodes => m.generation = 0
  BY Zenon DEF TrueMessages
<1> QED BY <1>1, <1>3, <1>4, Zenon

\* The listener reads a message of its bus.
LEMMA ListenCounts ==
    ASSUME RelayInv, RelayInv', EachCounted, NEW n \in Nodes, Listen(n)
    PROVE  EachCounted'
<1> DEFINE r == bus[n].listener
           u == r.unread
           m == Head(u)
           valid == \/ m.generation = 0
                    \/ m.source \in Nodes /\ m.generation = generation[m.source]
           new == IF m.source /= n /\ valid THEN Told(m) ELSE {}
           c == Taken(r)
<1>1. /\ bus \in Buses(TrueMessages) /\ r \in ReceiversOf(TrueMessages)
      /\ u \in Seq(TrueMessages) /\ r.missed \in Nat /\ counted[n] \in Nat
      /\ applied \in [Nodes -> SUBSET Invalidations] /\ bus[n].relay.missed \in Nat
  BY Tables, Queues, Zenon
<1>2. /\ u /= <<>> /\ bus' = [bus EXCEPT ![n].listener = c]
      /\ applied' = [applied EXCEPT ![n] = applied[n] \cup new]
      /\ UNCHANGED <<generation, issued, since, relay, wire, ring, counted, errors, faults>>
  <2>1. [bus EXCEPT ![n].listener = Taken(@)] = [bus EXCEPT ![n].listener = c]
    BY Zenon, <1>1 DEF Buses
  <2> QED BY <2>1, Zenon DEF Listen
<1>3. c.unread = Tail(u) /\ c.missed = r.missed /\ m \in TrueMessages
  BY <1>1, <1>2, TakenKeeps, Zenon
<1>4. \A i : Carries(u, i) => m.invalidation = i \/ Carries(Tail(u), i)
  BY <1>1, <1>2, RestHolds, Zenon
<1>5. \A i \in Current : issued[i] /= n /\ m.invalidation = i => i \in new
  <2> SUFFICES ASSUME NEW i \in Current, issued[i] /= n, m.invalidation = i PROVE i \in new
    BY Zenon
  <2>1. m.source /= n /\ i \in Told(m) /\ valid
    BY <1>3, ConcernsAreTaken, Zenon
  <2> QED BY <2>1, Zenon
<1> HIDE DEF c, m, new
<1>6. bus'[n].listener = c /\ bus'[n].relay = bus[n].relay
  BY Zenon, <1>1, <1>2 DEF Buses
<1>7. applied'[n] = applied[n] \cup new /\ applied[n] \subseteq applied'[n]
  BY <1>1, <1>2, Zenon
<1>8. Cost(n)' = Cost(n) /\ Cost(n) \in Nat /\ Cardinality({}) = 0 /\ IsFiniteSet({})
  BY <1>1, <1>2, <1>6, FS_EmptySet DEF Cost
<1>9. /\ Cost(n) <= Cost(n)'
      /\ bus[n].listener.missed + Cost(n) + Cardinality({})
           <= bus'[n].listener.missed + Cost(n)'
  BY <1>1, <1>3, <1>6, <1>8
<1>10. OutIsCounted(n, {})
  BY <1>2, <1>6, <1>9, QuietOut, Zenon
<1>11. ASSUME NEW i \in Current, issued[i] /= n, Arriving(n, i)
       PROVE  Arriving(n, i)' \/ i \in applied'[n]
  <2>1. CASE Carries(u, i)
    BY <1>3, <1>4, <1>5, <1>6, <1>7, <1>11, <2>1, Zenon DEF Arriving
  <2>2. CASE Ships(wire[n], i) \/ Ships(relay[n].inbound, i)
    BY <1>2, <2>2, Zenon DEF Arriving
  <2> QED BY <1>11, <2>1, <2>2, Zenon DEF Arriving
<1>12. InIsCounted(n, {})
  BY <1>2, <1>7, <1>9, <1>11, Zenon DEF InIsCounted
<1>13. NewIsLeaving(n) /\ \A j \in Nodes \ {n} : StaysAt(j)
  BY <1>2, NothingNew, OthersStay, Zenon
<1> QED BY <1>8, <1>10, <1>12, <1>13, CountedStep, Zenon

\* A bus that is sent a message: x and y messages are given up, among them
\* those of the invalidations X and Y, for the relay and for the listener.
SentTo(b, c, m, x, y, X, Y) ==
    /\ x \in Nat /\ IsFiniteSet(X) /\ Cardinality(X) \in Nat /\ Cardinality(X) <= x
    /\ y \in Nat /\ IsFiniteSet(Y) /\ Cardinality(Y) \in Nat /\ Cardinality(Y) <= y
    /\ c.relay.missed = b.relay.missed + x
    /\ c.listener.missed = b.listener.missed + y
    /\ Waits(c.relay.unread, m.source, m.invalidation)
    /\ Carries(c.listener.unread, m.invalidation)
    /\ \A k, i : Waits(b.relay.unread, k, i) => Waits(c.relay.unread, k, i) \/ i \in X
    /\ \A i : Carries(b.listener.unread, i) => Carries(c.listener.unread, i) \/ i \in Y

LEMMA OfferedHolds ==
    ASSUME NEW M, NEW r \in ReceiversOf(M), NEW m \in M
    PROVE  \E x, X :
             /\ x \in Nat /\ IsFiniteSet(X) /\ Cardinality(X) \in Nat /\ Cardinality(X) <= x
             /\ Offered(r, m).missed = r.missed + x
             /\ Waits(Offered(r, m).unread, m.source, m.invalidation)
             /\ Carries(Offered(r, m).unread, m.invalidation)
             /\ \A k, i : Waits(r.unread, k, i) => Waits(Offered(r, m).unread, k, i) \/ i \in X
             /\ \A i : Carries(r.unread, i) => Carries(Offered(r, m).unread, i) \/ i \in X
<1> DEFINE q == r.unread
           d == Dropped(q, BusCapacity)
           p == PushDropOldest(q, m, BusCapacity)
           c == Offered(r, m)
<1>1. q \in Seq(M) /\ BusCapacity \in Nat \ {0}
  BY Zenon, RelayAssumption DEF ReceiversOf
<1>2. c.unread = p /\ c.missed = r.missed + Len(d)
  BY OfferedKeeps, Zenon
<1>3. Len(d) \in Nat
  <2>1. Len(d) \in {0, 1}
    BY <1>1, DroppedIsOldest, Zenon
  <2> QED BY <2>1
<1>4. /\ IsFiniteSet(Announced(d)) /\ Cardinality(Announced(d)) \in Nat
      /\ Cardinality(Announced(d)) <= Len(d)
  BY <1>3, FewTold, Zenon
<1>5. /\ Carries(p, m.invalidation) /\ Waits(p, m.source, m.invalidation)
      /\ \A i : Carries(q, i) => Carries(p, i) \/ i \in Announced(d)
  BY <1>1, PushCarries, Zenon
<1>6. \A k, i : Waits(q, k, i) => Waits(p, k, i) \/ i \in Announced(d)
  BY <1>1, PushCarries, Zenon
<1> HIDE DEF q, d, p, c
<1>7. /\ c.missed = r.missed + Len(d) /\ Waits(c.unread, m.source, m.invalidation)
      /\ Carries(c.unread, m.invalidation)
      /\ \A k, i : Waits(r.unread, k, i) => Waits(c.unread, k, i) \/ i \in Announced(d)
      /\ \A i : Carries(r.unread, i) => Carries(c.unread, i) \/ i \in Announced(d)
  BY <1>2, <1>5, <1>6, Zenon DEF q
<1> QED BY <1>3, <1>4, <1>7, Zenon DEF c

LEMMA SentHolds ==
    ASSUME NEW M, NEW b \in [relay : ReceiversOf(M), listener : ReceiversOf(M)], NEW m \in M
    PROVE  \E x, y, X, Y : SentTo(b, Sent(b, m), m, x, y, X, Y)
<1> DEFINE c == Sent(b, m)
           p == Offered(b.relay, m)
           q == Offered(b.listener, m)
<1>1. c.relay = p /\ c.listener = q
  BY Zenon DEF Sent
<1>2. b.relay \in ReceiversOf(M) /\ b.listener \in ReceiversOf(M)
  BY Zenon
<1>3. PICK x, X :
        /\ x \in Nat /\ IsFiniteSet(X) /\ Cardinality(X) \in Nat /\ Cardinality(X) <= x
        /\ p.missed = b.relay.missed + x
        /\ Waits(p.unread, m.source, m.invalidation)
        /\ \A k, i : Waits(b.relay.unread, k, i) => Waits(p.unread, k, i) \/ i \in X
  BY <1>2, OfferedHolds, Zenon
<1>4. PICK y, Y :
        /\ y \in Nat /\ IsFiniteSet(Y) /\ Cardinality(Y) \in Nat /\ Cardinality(Y) <= y
        /\ q.missed = b.listener.missed + y
        /\ Carries(q.unread, m.invalidation)
        /\ \A i : Carries(b.listener.unread, i) => Carries(q.unread, i) \/ i \in Y
  BY <1>2, OfferedHolds, Zenon
<1> HIDE DEF c, p, q
<1>5. SentTo(b, c, m, x, y, X, Y)
  BY <1>1, <1>3, <1>4, Zenon DEF SentTo
<1> QED BY <1>5, Zenon DEF c

\* What a bus gives up is what its receivers will report.
LEMMA SentIsCounted ==
    ASSUME RelayInv, NEW n \in Nodes, NEW m, NEW x, NEW y, NEW X, NEW Y,
           SentTo(bus[n], bus'[n], m, x, y, X, Y), counted'[n] = counted[n]
    PROVE  /\ Cost(n) + Cardinality(X) <= Cost(n)'
           /\ bus[n].listener.missed + Cost(n) + Cardinality(Y)
                <= bus'[n].listener.missed + Cost(n)'
<1>1. /\ bus[n].relay.missed \in Nat /\ counted[n] \in Nat /\ bus[n].listener.missed \in Nat
  BY Queues, Zenon
<1>2. /\ x \in Nat /\ Cardinality(X) \in Nat /\ Cardinality(X) <= x
      /\ y \in Nat /\ Cardinality(Y) \in Nat /\ Cardinality(Y) <= y
      /\ bus'[n].listener.missed = bus[n].listener.missed + y
      /\ Cost(n)' = counted[n] + (bus[n].relay.missed + x)
      /\ Cost(n) = counted[n] + bus[n].relay.missed
  BY Zenon DEF SentTo, Cost
<1> QED BY <1>1, <1>2

\* An inbound frame is published to the local bus, is one of the node's own, or
\* is counted.
LEMMA ApplyInboundCounts ==
    ASSUME RelayInv, RelayInv', EachCounted, NEW n \in Nodes, ApplyInbound(n)
    PROVE  EachCounted'
<1> DEFINE s == relay[n]
           q == s.inbound
           f == Head(q)
           v == Verdict(n, s, f)
           m == f.message
           h == m.invalidation
           t == Inspected(s, f, v)
           lost == IF v \in {"own", "apply"} THEN 0 ELSE 1
           M == TrueMessages
<1>1. /\ relay \in [Nodes -> RelaysOf(M)] /\ s \in RelaysOf(M) /\ bus \in Buses(M)
      /\ q \in Seq(FramesOf(M)) /\ counted \in [Nodes -> Nat] /\ counted[n] \in Nat
  BY Tables, Queues, Zenon
<1>2. M \subseteq Messages
  BY Zenon DEF TrueMessages
<1> HIDE DEF v
<1>3. /\ q /= <<>> /\ relay' = [relay EXCEPT ![n] = t]
      /\ bus' = IF v = "apply" THEN [bus EXCEPT ![n] = Sent(bus[n], m)] ELSE bus
      /\ counted' = [counted EXCEPT ![n] = counted[n] + lost]
      /\ UNCHANGED <<generation, issued, since, wire, ring, applied, errors, faults>>
  BY Zenon DEF ApplyInbound, v
<1>4. t.inbound = Tail(q) /\ t.outbound = s.outbound /\ t.sending = s.sending
  <2> HIDE DEF M
  <2>1. M \subseteq Messages /\ s \in RelaysOf(M) /\ s.inbound /= <<>>
    BY <1>1, <1>2, <1>3, Zenon
  <2> HIDE DEF s
  <2>2. t.inbound = Tail(s.inbound)
    BY <2>1, InspectedKeeps, Zenon
  <2>3. t.outbound = s.outbound
    BY <2>1, InspectedKeeps, Zenon
  <2>4. t.sending = s.sending
    BY <2>1, InspectedKeeps, Zenon
  <2> QED BY <2>2, <2>3, <2>4, Zenon
<1>5. m \in M
  <2>1. f \in FramesOf(M)
    <3> HIDE DEF M
    <3> QED BY <1>1, <1>3
  <2> QED BY <2>1, Zenon DEF FramesOf
<1>6. \A i : Ships(q, i) => h = i \/ Ships(Tail(q), i)
  <2> HIDE DEF M
  <2> QED BY <1>1, <1>3, RestHolds, Zenon
<1>7. v = "own" => m.source = n
  BY Zenon DEF v, Verdict
<1> HIDE DEF t, f, M, lost
<1>8. relay'[n] = t /\ counted'[n] = counted[n] + lost
  BY <1>1, <1>3, Zenon
<1>9. NewIsLeaving(n)
  BY <1>3, NothingNew, Zenon
<1>10. \A j \in Nodes \ {n} : StaysAt(j)
  <2>1. UNCHANGED bus \/ \E c : bus' = [bus EXCEPT ![n] = c]
    BY <1>3, Zenon
  <2> QED BY <1>3, <2>1, OthersStay, Zenon
<1>11. CASE v = "apply"
  <2>1. lost = 0 /\ counted'[n] = counted[n]
    BY <1>1, <1>8, <1>11 DEF lost
  <2>2. bus[n] \in [relay : ReceiversOf(M), listener : ReceiversOf(M)]
    BY <1>1, BusUpdate, Zenon
  <2>3. bus'[n] = Sent(bus[n], m)
    BY <1>1, <1>3, <1>11, Zenon DEF Buses
  <2>4. PICK x, y, X, Y : SentTo(bus[n], bus'[n], m, x, y, X, Y)
    BY <1>5, <2>2, <2>3, SentHolds, Zenon
  <2>5. /\ Cost(n) + Cardinality(X) <= Cost(n)'
        /\ bus[n].listener.missed + Cost(n) + Cardinality(Y)
             <= bus'[n].listener.missed + Cost(n)'
    BY <2>1, <2>4, SentIsCounted, Zenon
  <2>6. IsFiniteSet(X) /\ IsFiniteSet(Y)
    BY <2>4, Zenon DEF SentTo
  <2>7. \A i : Leaving(n, i) => Leaving(n, i)' \/ i \in X
    BY <1>4, <1>8, <2>4, Zenon DEF SentTo, Leaving
  <2>8. ASSUME NEW i, Arriving(n, i) PROVE Arriving(n, i)' \/ i \in Y
    <3>1. CASE Ships(q, i)
      BY <1>4, <1>6, <1>8, <2>4, <3>1, Zenon DEF SentTo, Arriving
    <3>2. CASE Carries(bus[n].listener.unread, i)
      BY <2>4, <3>2, Zenon DEF SentTo, Arriving
    <3>3. CASE Ships(wire[n], i)
      BY <1>3, <3>3, Zenon DEF Arriving
    <3> QED BY <2>8, <3>1, <3>2, <3>3, Zenon DEF Arriving
  <2>9. OutIsCounted(n, X)
    BY <2>5, <2>7, Zenon DEF OutIsCounted
  <2>10. InIsCounted(n, Y)
    BY <1>3, <2>5, <2>8, Zenon DEF InIsCounted
  <2> QED BY <1>9, <1>10, <2>6, <2>9, <2>10, CountedStep, Zenon
<1>12. CASE v /= "apply"
  <2>1. UNCHANGED bus /\ bus'[n] = bus[n]
    BY <1>3, <1>12, Zenon
  <2>2. lost \in Nat /\ (v /= "own" => lost = 1)
    BY Zenon, <1>12 DEF lost
  <2>3. Cost(n) \in Nat /\ Cost(n)' = Cost(n) + lost /\ bus[n].listener.missed \in Nat
    BY <1>8, <2>1, <2>2, CountedMore, Zenon
  <2>4. Cost(n) <= Cost(n)'
    BY <2>2, <2>3
  <2>5. OutIsCounted(n, {})
    BY <1>4, <1>8, <2>1, <2>4, QuietOut, Zenon
  <2>6. \A i : Arriving(n, i) => Arriving(n, i)' \/ h = i
    BY <1>3, <1>4, <1>6, <1>8, <2>1, Zenon DEF Arriving
  <2>7. CASE v = "own"
    <3>1. ASSUME NEW i \in Current, issued[i] /= n PROVE h /= i
      BY <1>5, <1>7, <2>7, <3>1, ConcernsAreTaken, Zenon DEF M
    <3>2. bus[n].listener.missed + Cost(n) + Cardinality({})
             <= bus'[n].listener.missed + Cost(n)'
      BY <2>1, <2>2, <2>3, FS_EmptySet
    <3>3. InIsCounted(n, {})
      BY <1>3, <2>6, <3>1, <3>2, Zenon DEF InIsCounted
    <3> QED BY <1>9, <1>10, <2>5, <3>3, CountedStep, FS_EmptySet, Zenon
  <2>8. CASE v /= "own"
    <3>1. IsFiniteSet({h}) /\ Cardinality({h}) = 1
      BY FS_Singleton, Zenon
    <3>2. bus[n].listener.missed + Cost(n) + Cardinality({h})
             <= bus'[n].listener.missed + Cost(n)'
      BY <2>1, <2>2, <2>3, <2>8, <3>1
    <3>3. InIsCounted(n, {h})
      BY <1>3, <2>6, <3>2, Zenon DEF InIsCounted
    <3> QED BY <1>9, <1>10, <2>5, <3>1, <3>3, CountedStep, FS_EmptySet, Zenon
  <2> QED BY Zenon, <2>7, <2>8
<1> QED BY Zenon, <1>11, <1>12

\* What a cache publishes is on its way, to its relay's receiver at first.
LEMMA PublishCounts ==
    ASSUME RelayInv, RelayInv', EachCounted, NEW n \in Nodes, Publish(n)
    PROVE  EachCounted'
<1>BusesWiden.
      ASSUME RelayInv
      PROVE  bus \in Buses(Messages)
  <2> USE <1>BusesWiden
  <2> DEFINE M == TrueMessages
  <2>1. bus \in Buses(M) /\ M \subseteq Messages
    BY Zenon DEF RelayInv, TrueMessages
  <2> HIDE DEF M
  <2>2. ReceiversOf(M) \subseteq ReceiversOf(Messages)
    BY <2>1, Widening, Zenon
  <2> QED BY Zenon, <2>1, <2>2 DEF Buses
<1>0. PICK new : new = Len(issued) + 1
  BY Zenon
<1> DEFINE m == Message(n, generation[n], new)
<1>1. /\ Len(issued) < MaxIssued /\ issued' = Append(issued, n)
      /\ applied' = [applied EXCEPT ![n] = applied[n] \cup {new}]
      /\ bus' = [bus EXCEPT ![n] = Sent(bus[n], m)]
      /\ UNCHANGED <<generation, since, relay, wire, counted, errors, faults>>
  BY <1>0, Zenon DEF Publish
<1>2. /\ generation \in [Nodes -> Nat \ {0}] /\ issued \in Seq(Publishers)
      /\ Len(issued) \in Nat /\ MaxIssued \in Nat
      /\ applied \in [Nodes -> SUBSET Invalidations]
  <2>1. /\ generation \in [Nodes -> Nat \ {0}] /\ issued \in Seq(Publishers)
        /\ MaxIssued \in Nat /\ applied \in [Nodes -> SUBSET Invalidations]
    BY RelayAssumption, Zenon DEF RelayInv, Scalars
  <2>2. Len(issued) \in Nat
    BY <2>1
  <2> QED BY <2>1, <2>2, Zenon
<1>3. m \in Messages /\ m.source = n /\ m.invalidation = new
  <2>1. generation[n] \in Nat /\ new \in Invalidations
    BY <1>0, <1>1, <1>2 DEF Invalidations
  <2> QED BY Zenon, <2>1 DEF Message, Messages, Sources
<1>4. bus \in Buses(Messages)
  BY <1>BusesWiden, Zenon
<1>5. bus[n] \in [relay : ReceiversOf(Messages), listener : ReceiversOf(Messages)]
  BY <1>4, BusUpdate, Zenon
<1> HIDE DEF m
<1>6. bus'[n] = Sent(bus[n], m)
  BY <1>1, <1>4, Zenon DEF Buses
<1>7. PICK x, y, X, Y : SentTo(bus[n], bus'[n], m, x, y, X, Y)
  <2>1. PICK x, y, X, Y : SentTo(bus[n], Sent(bus[n], m), m, x, y, X, Y)
    BY <1>3, <1>5, SentHolds, Zenon
  <2> QED BY <1>6, <2>1, Zenon
<1>8. /\ Cost(n) + Cardinality(X) <= Cost(n)'
      /\ bus[n].listener.missed + Cost(n) + Cardinality(Y)
           <= bus'[n].listener.missed + Cost(n)'
  BY <1>1, <1>7, SentIsCounted, Zenon
<1>9. IsFiniteSet(X) /\ IsFiniteSet(Y)
  BY <1>7, Zenon DEF SentTo
<1>10. OutIsCounted(n, X)
  <2>1. \A i : Leaving(n, i) => Leaving(n, i)' \/ i \in X
    BY <1>1, <1>7, Zenon DEF SentTo, Leaving
  <2> QED BY <1>8, <2>1, Zenon DEF OutIsCounted
<1>11. InIsCounted(n, Y)
  <2>1. \A i : Arriving(n, i) => Arriving(n, i)' \/ i \in Y
    BY <1>1, <1>7, Zenon DEF SentTo, Arriving
  <2>2. applied[n] \subseteq applied'[n] /\ errors'[n] = errors[n]
    BY <1>1, <1>2, Zenon
  <2> QED BY <1>8, <2>1, <2>2, Zenon DEF InIsCounted
<1>12. NewIsLeaving(n)
  <2>1. ASSUME NEW i \in Current' PROVE (i \in Current /\ issued'[i] = issued[i]) \/ i = new
    <3>1. i \in 1..Len(issued') /\ \A k \in Nodes : i > since[k]
      BY <1>1, Zenon DEF Current
    <3>2. i = new \/ (i \in 1..Len(issued) /\ issued'[i] = issued[i])
      BY <1>0, <1>1, <1>2, <3>1
    <3> QED BY <3>1, <3>2, Zenon DEF Current
  <2>2. issued'[new] = n
    BY <1>0, <1>1, <1>2
  <2>3. Leaving(n, new)'
    BY <1>3, <1>7, Zenon DEF SentTo, Leaving
  <2> QED BY <2>1, <2>2, <2>3, Zenon DEF NewIsLeaving
<1>13. \A j \in Nodes \ {n} : StaysAt(j)
  BY <1>1, OthersStay, Zenon
<1> QED BY <1>9, <1>10, <1>11, <1>12, <1>13, CountedStep, Zenon

\* No invalidation is older than every relay when one has just been spawned.
LEMMA RespawnCounts ==
    ASSUME RelayInv, RelayInv', NEW n \in Nodes, Respawn(n)
    PROVE  EachCounted'
<1>1. issued' = issued /\ since' = [since EXCEPT ![n] = Len(issued)]
  BY Zenon DEF Respawn
<1>2. since'[n] = Len(issued) /\ Len(issued) \in Nat
  BY <1>1 DEF RelayInv, Scalars
<1>3. Current' = {}
  <2> SUFFICES ASSUME NEW i \in Current' PROVE FALSE
    BY Zenon
  <2>1. i \in 1..Len(issued) /\ i > since'[n]
    BY <1>1, Zenon DEF Current
  <2> QED BY <1>2, <2>1
<1>4. ASSUME NEW m \in Nodes
      PROVE  Cardinality(Lost(m)') <= bus'[m].listener.missed
                                        + SumFunction([k \in Nodes |-> Cost(k)'])
  <2> DEFINE g == [k \in Nodes |-> Cost(k)']
  <2>1. Lost(m)' = {}
    BY <1>3, Zenon DEF Lost
  <2>2. Cardinality(Lost(m)') = 0
    BY <2>1, FS_EmptySet, Zenon
  <2>3. bus'[m].listener.missed \in Nat /\ g \in [Nodes -> Nat]
    BY CostsThen, Zenon
  <2>4. IsFiniteSet(Nodes)
    BY Zenon, RelayAssumption
  <2> HIDE DEF g
  <2>5. SumFunction(g) \in Nat
    BY <2>3, <2>4, TotalIsNat, Zenon
  <2>6. Cardinality(Lost(m)') <= bus'[m].listener.missed + SumFunction(g)
    BY <2>2, <2>3, <2>5
  <2> QED BY <2>6, Zenon DEF g
<1> QED BY <1>4, Zenon DEF EachCounted

LEMMA CountedInit == Init => EachCounted
<1> SUFFICES ASSUME Init, NEW n \in Nodes
             PROVE  Cardinality(Lost(n)) <= bus[n].listener.missed
                                              + SumFunction([m \in Nodes |-> Cost(m)])
  BY Zenon DEF EachCounted
<1> DEFINE g == [m \in Nodes |-> Cost(m)]
<1>1. RelayInv
  BY Zenon, RelayInit
<1>2. Lost(n) = {}
  <2>1. issued = <<>>
    BY Zenon DEF Init
  <2>2. 1..Len(issued) = {}
    BY <2>1
  <2> QED BY <2>2, Zenon DEF Lost, Current
<1>3. Cardinality(Lost(n)) = 0
  BY <1>2, FS_EmptySet, Zenon
<1>4. bus[n].listener.missed \in Nat /\ g \in [Nodes -> Nat] /\ IsFiniteSet(Nodes)
  BY <1>1, Queues, RelayAssumption DEF Cost
<1> HIDE DEF g
<1>5. SumFunction(g) \in Nat
  BY <1>4, TotalIsNat, Zenon
<1>6. Cardinality(Lost(n)) <= bus[n].listener.missed + SumFunction(g)
  BY <1>3, <1>4, <1>5
<1> QED BY <1>6, Zenon DEF g

LEMMA CountedNext ==
    ASSUME RelayInv, RelayInv', EachCounted, [Next]_vars
    PROVE  EachCounted'
<1>1. CASE UNCHANGED vars
  <2>1. UNCHANGED <<issued, since, bus, relay, wire, applied, counted, errors>>
    BY <1>1, Zenon DEF vars
  <2>2. \A i, n : (Arriving(n, i)' <=> Arriving(n, i)) /\ (Leaving(n, i)' <=> Leaving(n, i))
    BY <2>1, Zenon DEF Arriving, Leaving
  <2>3. Current' = Current
    BY <2>1, Zenon DEF Current
  <2>4. \A n : Lost(n)' = Lost(n) /\ Cost(n)' = Cost(n)
    BY <2>1, <2>2, <2>3, Zenon DEF Lost, Cost
  <2> QED BY <2>1, <2>4, Zenon DEF EachCounted
<1>2. ASSUME NEW n \in Nodes, Publish(n) \/ ReceiveError(n) \/ ReceiveGarbled(n) \/ Respawn(n)
      PROVE  EachCounted'
  BY <1>2, PublishCounts, ReceiveErrorCounts, ReceiveGarbledCounts, RespawnCounts, Zenon
<1>3. ASSUME NEW n \in Nodes, \/ ReadBus(n) \/ ReadBusLagged(n) \/ TakeOutbound(n)
                              \/ PublishFrame(n)
      PROVE  EachCounted'
  BY <1>3, ReadBusCounts, ReadBusLaggedCounts, TakeOutboundCounts, PublishFrameCounts, Zenon
<1>4. ASSUME NEW n \in Nodes, \/ \E k \in DOMAIN wire[n] : Receive(n, k)
                              \/ ApplyInbound(n) \/ Resume(n)
      PROVE  EachCounted'
  BY <1>4, ReceiveCounts, ApplyInboundCounts, ResumeCounts, Zenon
<1>5. ASSUME NEW n \in Nodes, Listen(n) \/ ListenLagged(n)
      PROVE  EachCounted'
  BY <1>5, ListenCounts, ListenLaggedCounts, Zenon
<1> QED BY <1>1, <1>2, <1>3, <1>4, <1>5, Zenon DEF Next, LoopStep

LEMMA CarriedIs ==
    ASSUME NEW X, NEW i
    PROVE  i \in CarriedBy(X) <=> \E x \in X : x.invalidation = i
  BY Zenon DEF CarriedBy

LEMMA RangeIs ==
    ASSUME NEW S, NEW q \in Seq(S), NEW x
    PROVE  x \in Range(q) <=> \E k \in 1..Len(q) : x = q[k]
  BY DEF Range

\* The frames of F carry what their messages do.
LEMMA CarriedInFrames ==
    ASSUME NEW F, NEW A, NEW i
    PROVE  i \in CarriedBy(A \cup {f.message : f \in F})
             <=> \/ \E x \in A : x.invalidation = i
                 \/ \E f \in F : f.message.invalidation = i
<1> DEFINE B == {f.message : f \in F}
<1>1. (\E x \in B : x.invalidation = i) <=> \E f \in F : f.message.invalidation = i
  BY Zenon
<1> HIDE DEF B
<1>2. i \in CarriedBy(A \cup B) <=> \E x \in A \cup B : x.invalidation = i
  BY CarriedIs, Zenon
<1>3. i \in CarriedBy(A \cup B)
        <=> (\E x \in A : x.invalidation = i) \/ (\E f \in F : f.message.invalidation = i)
  BY <1>1, <1>2, Zenon
<1> QED BY <1>3, Zenon DEF B

LEMMA OutwardIs ==
    ASSUME RelayInv, NEW m \in Nodes, NEW i
    PROVE  i \in Outward(m) <=> Leaving(m, i)
<1> DEFINE u == bus[m].relay.unread
           o == relay[m].outbound
           s == relay[m].sending
           A == {x \in Range(u) : x.source = m}
           F == Range(o) \cup ({s} \ {NoFrame})
<1>1. u \in Seq(TrueMessages) /\ o \in Seq(FramesOf(TrueMessages))
  BY Queues, Zenon
<1>2. Outward(m) = CarriedBy(A \cup {f.message : f \in F})
  BY Zenon DEF Outward
<1> HIDE DEF u, o, s
<1>3. (\E x \in A : x.invalidation = i) <=> Waits(u, m, i)
  <2>1. \A x : x \in Range(u) <=> \E k \in 1..Len(u) : x = u[k]
    BY <1>1, RangeIs, Zenon
  <2>2. \A x : x \in A <=> x.source = m /\ \E k \in 1..Len(u) : x = u[k]
    BY <2>1, Zenon
  <2> HIDE DEF A
  <2> QED BY <2>2 DEF Waits
<1>4. (\E f \in F : f.message.invalidation = i)
        <=> Ships(o, i) \/ (s /= NoFrame /\ s.message.invalidation = i)
  <2>1. \A f : f \in Range(o) <=> \E k \in 1..Len(o) : f = o[k]
    BY <1>1, RangeIs, Zenon
  <2>2. \A f : f \in F <=> (\E k \in 1..Len(o) : f = o[k]) \/ (f = s /\ s /= NoFrame)
    BY <2>1, Zenon
  <2> HIDE DEF F
  <2> QED BY <2>2, Zenon DEF Ships
<1> HIDE DEF A, F
<1>5. i \in Outward(m)
        <=> Waits(u, m, i) \/ Ships(o, i) \/ (s /= NoFrame /\ s.message.invalidation = i)
  <2>1. i \in CarriedBy(A \cup {f.message : f \in F})
          <=> (\E x \in A : x.invalidation = i) \/ (\E f \in F : f.message.invalidation = i)
    BY CarriedInFrames, Zenon
  <2> QED BY <1>2, <1>3, <1>4, <2>1, Zenon
<1> QED BY <1>5, Zenon DEF Leaving, u, o, s

LEMMA InwardIs ==
    ASSUME RelayInv, NEW n \in Nodes, NEW i
    PROVE  i \in Inward(n) <=> Arriving(n, i)
<1> DEFINE w == wire[n]
           q == relay[n].inbound
           u == bus[n].listener.unread
           F == Range(w) \cup Range(q)
<1>1. /\ w \in Seq(FramesOf(TrueMessages)) /\ q \in Seq(FramesOf(TrueMessages))
      /\ u \in Seq(TrueMessages)
  BY Queues, Zenon
<1>2. Inward(n) = CarriedBy(Range(u) \cup {f.message : f \in F})
  BY Zenon DEF Inward
<1> HIDE DEF w, q, u
<1>3. (\E x \in Range(u) : x.invalidation = i) <=> Carries(u, i)
  <2>1. \A x : x \in Range(u) <=> \E k \in 1..Len(u) : x = u[k]
    BY <1>1, RangeIs, Zenon
  <2> QED BY Zenon, <2>1 DEF Carries
<1>4. (\E f \in F : f.message.invalidation = i) <=> Ships(w, i) \/ Ships(q, i)
  <2>1. /\ \A f : f \in Range(w) <=> \E k \in 1..Len(w) : f = w[k]
        /\ \A f : f \in Range(q) <=> \E k \in 1..Len(q) : f = q[k]
    BY <1>1, RangeIs, Zenon
  <2> QED BY <2>1 DEF Ships
<1> HIDE DEF F
<1>5. i \in Inward(n) <=> Ships(w, i) \/ Ships(q, i) \/ Carries(u, i)
  <2>1. i \in CarriedBy(Range(u) \cup {f.message : f \in F})
          <=> \/ \E x \in Range(u) : x.invalidation = i
              \/ \E f \in F : f.message.invalidation = i
    BY CarriedInFrames, Zenon
  <2> QED BY <1>2, <1>3, <1>4, <2>1, Zenon
<1> QED BY <1>5, Zenon DEF Arriving, w, q, u

LEMMA CountedIsCounted ==
    ASSUME RelayInv, EachCounted
    PROVE  LossIsCounted
<1> SUFFICES ASSUME NEW n \in Nodes, errors[n] = 0
             PROVE  Cardinality({i \in Current : issued[i] /= n
                                   /\ i \notin applied[n] \cup OnTheWay(n)}) <= Admitted(n)
  BY Zenon DEF LossIsCounted
<1>1. ASSUME NEW i
      PROVE  i \in OnTheWay(n) <=> Arriving(n, i) \/ \E m \in Nodes \ {n} : Leaving(m, i)
  <2>1. i \in OnTheWay(n) <=> i \in Inward(n) \/ \E m \in Nodes \ {n} : i \in Outward(m)
    <3> DEFINE U == {Outward(m) : m \in Nodes \ {n}}
    <3>1. OnTheWay(n) = (UNION U) \cup Inward(n)
      BY Zenon DEF OnTheWay
    <3>2. \A y : y \in U <=> \E m \in Nodes \ {n} : y = Outward(m)
      BY Zenon
    <3> HIDE DEF U
    <3>3. i \in OnTheWay(n) <=> i \in Inward(n) \/ \E y \in U : i \in y
      BY <3>1, Zenon
    <3> QED BY <3>2, <3>3, Zenon
  <2>2. i \in Inward(n) <=> Arriving(n, i)
    BY InwardIs, Zenon
  <2>3. \A m \in Nodes \ {n} : i \in Outward(m) <=> Leaving(m, i)
    BY OutwardIs, Zenon
  <2> QED BY <2>1, <2>2, <2>3, Zenon
<1>2. {i \in Current : issued[i] /= n /\ i \notin applied[n] \cup OnTheWay(n)} = Lost(n)
  BY <1>1, Zenon DEF Lost
<1>3. Admitted(n) = bus[n].listener.missed + SumFunction([m \in Nodes |-> Cost(m)])
  BY Zenon DEF Admitted, Cost
<1> QED BY <1>2, <1>3, Zenon DEF EachCounted

\* An invalidation that another node's cache will never hear of is one that the
\* metrics or the pending lag reports count, whichever queue, receiver, filter
\* or failed publish gave it up, while the node's transport reports no error.
THEOREM LossCounted == Spec => []LossIsCounted
<1>1. Init => RelayInv /\ EachCounted
  BY RelayInit, CountedInit, Zenon
<1>2. RelayInv /\ EachCounted /\ [Next]_vars => (RelayInv /\ EachCounted)'
  BY RelayStep, CountedNext, Zenon
<1>3. RelayInv /\ EachCounted => LossIsCounted
  BY CountedIsCounted, Zenon
<1> QED BY <1>1, <1>2, <1>3, PTL DEF Spec

=============================================================================
