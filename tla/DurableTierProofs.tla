-------------------------- MODULE DurableTierProofs --------------------------
(***************************************************************************)
(* Proofs about DurableTier: accepted writes are kept, live values only     *)
(* rise, the byte count and the repair debt are exact, and the loss of a    *)
(* crash is bounded, for every set of keys, records and bounds, and any     *)
(* number of failed flushes and crashes.                                    *)
(*                                                                          *)
(* The byte count is a sum over the keys as MapThenSumSet forms it: it      *)
(* picks the elements one by one and adds up a function of them.  The facts *)
(* about such sums come first.  Induction is over sets of naturals and of   *)
(* subsets, and rests on the least element of a set of naturals.            *)
(***************************************************************************)
EXTENDS DurableTier, FiniteSetTheorems,
        WellFoundedInduction, TLAPS

(* The element a fold takes next. *)
Pick(s) == CHOOSE x \in s : TRUE

(* sum gives, for each subset of S, the sum of f over it. *)
IsSum(f, S, sum) ==
    sum = [s \in SUBSET S |-> IF s = {} THEN 0 ELSE f[Pick(s)] + sum[s \ {Pick(s)}]]

-----------------------------------------------------------------------------
(* A set of naturals that is not empty has a least element. *)
LEMMA Least ==
    ASSUME NEW T \in SUBSET Nat, T # {}
    PROVE  \E x \in T : \A y \in T : x <= y
  <1> DEFINE R == {ss \in Nat \X Nat : ss[1] < ss[2]}
  <1>1. IsWellFoundedOn(R, Nat)
    BY Zenon, NatLessThanWellFounded DEF OpToRel
  <1> HIDE DEF R
  <1>2. PICK x \in T : \A y \in T : ~ (<<y, x>> \in R)
    BY Zenon, <1>1, WFMin
  <1>3. ASSUME NEW y \in T PROVE x <= y
    <2>1. x \in Nat /\ y \in Nat /\ <<y, x>> \in Nat \X Nat
      BY Zenon
    <2>2. ~ (y < x)
      BY Zenon, <2>1, <1>2 DEF R
    <2> QED BY <2>1, <2>2
  <1> QED BY Zenon, <1>3

(* Induction over the naturals, for a set of them. *)
LEMMA SetInduction ==
    ASSUME NEW T \in SUBSET Nat, 0 \in T, \A n \in T : n + 1 \in T
    PROVE  T = Nat
  <1> SUFFICES ASSUME Nat \ T # {} PROVE FALSE
    BY Zenon
  <1>1. PICK x \in Nat \ T : \A y \in Nat \ T : x <= y
    <2>1. Nat \ T \in SUBSET Nat
      BY Zenon
    <2> QED BY Zenon, <2>1, Least
  <1>2. x # 0 /\ x - 1 \in Nat /\ (x - 1) + 1 = x
    BY <1>1
  <1>3. x - 1 \in T
    BY <1>1, <1>2
  <1> QED BY Zenon, <1>1, <1>2, <1>3

LEMMA PickIsElement == ASSUME NEW s, s # {} PROVE Pick(s) \in s
  BY Zenon DEF Pick

(* Taking the picked element out of a finite set makes it smaller by one. *)
LEMMA PickShrinks ==
    ASSUME NEW S, IsFiniteSet(S), NEW s \in SUBSET S, s # {}
    PROVE  /\ s \ {Pick(s)} \in SUBSET S
           /\ Cardinality(s) \in Nat /\ Cardinality(s \ {Pick(s)}) \in Nat
           /\ Cardinality(s) = Cardinality(s \ {Pick(s)}) + 1
  <1>1. IsFiniteSet(s) /\ Pick(s) \in s
    BY Zenon, FS_Subset, PickIsElement
  <1>2. IsFiniteSet(s \ {Pick(s)})
    BY Zenon, <1>1, FS_RemoveElement
  <1>3. Cardinality(s \ {Pick(s)}) = Cardinality(s) - 1
    BY Zenon, <1>1, FS_RemoveElement
  <1>4. Cardinality(s) \in Nat /\ Cardinality(s \ {Pick(s)}) \in Nat
    BY Zenon, <1>1, <1>2, FS_CardinalityType
  <1> QED BY <1>3, <1>4

(* Induction over the subsets of a finite set in the order of the fold. *)
LEMMA PickInduction ==
    ASSUME NEW S, IsFiniteSet(S), NEW Q \in SUBSET (SUBSET S),
           {} \in Q,
           \A s \in SUBSET S : s # {} /\ s \ {Pick(s)} \in Q => s \in Q
    PROVE  Q = SUBSET S
  <1> DEFINE T == {n \in Nat : \A s \in SUBSET S : Cardinality(s) = n => s \in Q}
  <1>1. 0 \in T
    <2>1. ASSUME NEW s \in SUBSET S, Cardinality(s) = 0 PROVE s \in Q
      <3>1. IsFiniteSet(s)
        BY Zenon, FS_Subset
      <3>2. s = {}
        BY Zenon, <3>1, <2>1, FS_EmptySet
      <3> QED BY Zenon, <3>2
    <2> QED BY Zenon, <2>1
  <1>2. ASSUME NEW n \in T PROVE n + 1 \in T
    <2>1. ASSUME NEW s \in SUBSET S, Cardinality(s) = n + 1 PROVE s \in Q
      <3>1. n \in Nat
        BY Zenon
      <3>2. s # {}
        <4>1. Cardinality({}) = 0
          BY Zenon, FS_EmptySet
        <4> QED BY <4>1, <2>1, <3>1
      <3>3. s \ {Pick(s)} \in SUBSET S /\ Cardinality(s \ {Pick(s)}) = n
        BY <2>1, <3>1, <3>2, PickShrinks
      <3>4. s \ {Pick(s)} \in Q
        BY Zenon, <3>3
      <3> QED BY Zenon, <3>2, <3>4
    <2> QED BY <2>1
  <1>3. T \in SUBSET Nat
    BY Zenon
  <1> HIDE DEF T
  <1>4. T = Nat
    BY Zenon, <1>1, <1>2, <1>3, SetInduction
  <1>5. ASSUME NEW s \in SUBSET S PROVE s \in Q
    <2>1. Cardinality(s) \in Nat
      BY Zenon, FS_Subset, FS_CardinalityType
    <2> QED BY Zenon, <2>1, <1>4 DEF T
  <1> QED BY Zenon, <1>5

-----------------------------------------------------------------------------
(* The sums of f over the subsets of a finite set exist. *)
LEMMA SumExists ==
    ASSUME NEW S, IsFiniteSet(S), NEW f \in [S -> Int]
    PROVE  \E sum : IsSum(f, S, sum)
  <1> DEFINE Small(n) == {s \in SUBSET S : Cardinality(s) <= n}
             Step(g, s) == IF s = {} THEN 0 ELSE f[Pick(s)] + g[s \ {Pick(s)}]
             Sums(n, g) == g = [s \in Small(n) |-> Step(g, s)]
             T == {n \in Nat : \E g : Sums(n, g)}
  <1>1. ASSUME NEW n \in Nat, NEW s \in Small(n), s # {}
        PROVE  s \ {Pick(s)} \in Small(n)
    BY <1>1, PickShrinks
  <1>2. ASSUME NEW n \in Nat, NEW s \in Small(n + 1), s # {}
        PROVE  s \ {Pick(s)} \in Small(n)
    BY <1>2, PickShrinks
  <1>3. 0 \in T
    <2> DEFINE g == [s \in Small(0) |-> 0]
    <2>1. ASSUME NEW s \in Small(0) PROVE s = {}
      <3>1. IsFiniteSet(s) /\ s \in SUBSET S
        BY Zenon, FS_Subset
      <3>2. Cardinality(s) \in Nat /\ Cardinality(s) <= 0
        BY Zenon, <3>1, FS_CardinalityType
      <3> QED BY <3>1, <3>2, FS_EmptySet
    <2>2. g = [s \in Small(0) |-> Step(g, s)]
      BY Zenon, <2>1
    <2> QED BY Zenon, <2>2
  <1>4. ASSUME NEW n \in T PROVE n + 1 \in T
    <2>1. n \in Nat
      BY Zenon
    <2>2. PICK g : Sums(n, g)
      BY Zenon
    <2> DEFINE h == [s \in Small(n + 1) |-> Step(g, s)]
    <2>3. ASSUME NEW s \in Small(n) PROVE s \in Small(n + 1) /\ h[s] = g[s]
      <3>1. Cardinality(s) \in Nat
        BY Zenon, FS_Subset, FS_CardinalityType
      <3>2. s \in Small(n + 1)
        BY <2>1, <3>1
      <3> HIDE DEF Small, Step
      <3> QED BY Zenon, <3>2, <2>2
    <2>4. ASSUME NEW s \in Small(n + 1) PROVE h[s] = Step(h, s)
      <3>1. CASE s = {}
        <4> HIDE DEF Small
        <4> QED BY Zenon, <3>1
      <3>2. CASE s # {}
        <4>1. s \ {Pick(s)} \in Small(n)
          BY Zenon, <3>2, <2>1, <1>2
        <4>2. h[s \ {Pick(s)}] = g[s \ {Pick(s)}]
          BY Zenon, <4>1, <2>3
        <4> HIDE DEF Small
        <4>3. h[s] = f[Pick(s)] + g[s \ {Pick(s)}]
          BY Zenon, <3>2
        <4> QED BY Zenon, <3>2, <4>2, <4>3
      <3> QED BY Zenon, <3>1, <3>2
    <2>5. h = [s \in Small(n + 1) |-> Step(h, s)]
      <3> HIDE DEF Small, Step
      <3> QED BY Zenon, <2>4
    <2>6. Sums(n + 1, h) /\ n + 1 \in Nat
      <3> HIDE DEF Small, Step, h
      <3> QED BY <2>1, <2>5
    <2> HIDE DEF h, Sums
    <2> QED BY Zenon, <2>6
  <1>5. T \in SUBSET Nat
    BY Zenon
  <1> HIDE DEF T
  <1>6. T = Nat
    BY Zenon, <1>3, <1>4, <1>5, SetInduction
  <1>7. Cardinality(S) \in Nat
    BY Zenon, FS_CardinalityType
  <1>8. Small(Cardinality(S)) = SUBSET S
    <2>1. ASSUME NEW s \in SUBSET S PROVE Cardinality(s) <= Cardinality(S)
      BY Zenon, FS_Subset
    <2> QED BY Zenon, <2>1
  <1>9. PICK g : Sums(Cardinality(S), g)
    BY Zenon, <1>6, <1>7 DEF T
  <1> QED BY Zenon, <1>8, <1>9 DEF IsSum

(* What a sum is: nothing over the empty set, one more element at a time. *)
LEMMA SumStep ==
    ASSUME NEW S, NEW f, NEW sum, IsSum(f, S, sum)
    PROVE  /\ sum[{}] = 0
           /\ \A s \in SUBSET S : s # {} => sum[s] = f[Pick(s)] + sum[s \ {Pick(s)}]
  <1>1. \A s \in SUBSET S :
           sum[s] = IF s = {} THEN 0 ELSE f[Pick(s)] + sum[s \ {Pick(s)}]
    BY Zenon DEF IsSum
  <1>2. {} \in SUBSET S
    BY Zenon
  <1> QED BY Zenon, <1>1, <1>2

(* A sum of naturals is a natural. *)
LEMMA SumIsNat ==
    ASSUME NEW S, IsFiniteSet(S), NEW f \in [S -> Nat], NEW sum, IsSum(f, S, sum)
    PROVE  \A s \in SUBSET S : sum[s] \in Nat
  <1> DEFINE Q == {s \in SUBSET S : sum[s] \in Nat}
  <1>1. {} \in Q
    BY SumStep
  <1>2. ASSUME NEW s \in SUBSET S, s # {}, s \ {Pick(s)} \in Q PROVE s \in Q
    <2>1. f[Pick(s)] \in Nat
      BY Zenon, <1>2, PickIsElement
    <2>2. sum[s] = f[Pick(s)] + sum[s \ {Pick(s)}]
      BY <1>2, SumStep
    <2> QED BY <1>2, <2>1, <2>2
  <1>3. Q \in SUBSET (SUBSET S)
    BY Zenon
  <1> HIDE DEF Q
  <1>4. Q = SUBSET S
    BY Zenon, <1>1, <1>2, <1>3, PickInduction
  <1> QED BY Zenon, <1>4 DEF Q

(* A sum of zeros is zero. *)
LEMMA SumIsZero ==
    ASSUME NEW S, IsFiniteSet(S), NEW f, \A x \in S : f[x] = 0, NEW sum, IsSum(f, S, sum)
    PROVE  sum[S] = 0
  <1> DEFINE Q == {s \in SUBSET S : sum[s] = 0}
  <1>1. {} \in Q
    BY Zenon, SumStep
  <1>2. ASSUME NEW s \in SUBSET S, s # {}, s \ {Pick(s)} \in Q PROVE s \in Q
    <2>1. f[Pick(s)] = 0
      BY Zenon, <1>2, PickIsElement
    <2>2. sum[s] = f[Pick(s)] + sum[s \ {Pick(s)}]
      BY <1>2, SumStep
    <2> QED BY <1>2, <2>1, <2>2
  <1>3. Q \in SUBSET (SUBSET S)
    BY Zenon
  <1> HIDE DEF Q
  <1>4. Q = SUBSET S
    BY Zenon, <1>1, <1>2, <1>3, PickInduction
  <1> QED BY Zenon, <1>4 DEF Q

(* Changing the function at one element changes the sum by as much. *)
LEMMA SumChange ==
    ASSUME NEW S, IsFiniteSet(S), NEW f \in [S -> Nat], NEW g \in [S -> Nat], NEW k \in S,
           \A x \in S : x # k => g[x] = f[x],
           NEW i, IsSum(f, S, i), NEW j, IsSum(g, S, j)
    PROVE  \A s \in SUBSET S : j[s] = i[s] + (IF k \in s THEN g[k] - f[k] ELSE 0)
  <1>1. i[{}] = 0 /\ \A s \in SUBSET S : s # {} => i[s] = f[Pick(s)] + i[s \ {Pick(s)}]
    BY ONLY IsSum(f, S, i), IsSum(g, S, j), SumStep
  <1>2. j[{}] = 0 /\ \A s \in SUBSET S : s # {} => j[s] = g[Pick(s)] + j[s \ {Pick(s)}]
    BY ONLY IsSum(f, S, i), IsSum(g, S, j), SumStep
  <1> DEFINE Gain(s) == IF k \in s THEN g[k] - f[k] ELSE 0
             Q == {s \in SUBSET S : j[s] = i[s] + Gain(s)}
  <1>3. {} \in Q
    BY <1>1, <1>2
  <1>4. ASSUME NEW s \in SUBSET S, s # {}, s \ {Pick(s)} \in Q PROVE s \in Q
    <2> DEFINE p == Pick(s)
               r == s \ {Pick(s)}
    <2>1. p \in s /\ p \in S /\ r \in SUBSET S
      BY Zenon, <1>4, PickIsElement
    <2>2. i[s] = f[p] + i[r] /\ j[s] = g[p] + j[r]
      BY Zenon, <1>4, <1>1, <1>2
    <2>3. i[r] \in Nat /\ j[r] \in Nat /\ j[r] = i[r] + Gain(r)
      BY Zenon, <1>4, <2>1, SumIsNat
    <2>4. k \in r <=> k \in s /\ k # p
      BY Zenon
    <2>5. f[p] \in Nat /\ g[p] \in Nat /\ f[k] \in Nat /\ g[k] \in Nat
      BY Zenon, <2>1
    <2> HIDE DEF p, r
    <2>6. CASE p = k
      BY <2>1, <2>2, <2>3, <2>4, <2>5, <2>6
    <2>7. CASE p # k
      <3>1. g[p] = f[p]
        BY Zenon, <2>7, <2>1
      <3> QED BY <3>1, <2>1, <2>2, <2>3, <2>4, <2>5, <2>7
    <2> QED BY Zenon, <2>6, <2>7
  <1>5. Q \in SUBSET (SUBSET S)
    BY Zenon
  <1> HIDE DEF Q
  <1>6. Q = SUBSET S
    BY Zenon, <1>3, <1>4, <1>5, PickInduction
  <1> QED BY Zenon, <1>6 DEF Q

-----------------------------------------------------------------------------

(* The types the argument needs. *)
DurableTypes ==
    /\ db \in Trees /\ disk \in Trees /\ accepted \in Trees
    /\ pending \in Seq([key : Keys, record : Records])

(* Some queued write of k supersedes r. *)
InQueue(k, r) ==
    \E i \in 1 .. Len(pending) : pending[i].key = k /\ Beats(pending[i].record, r)

(* What is accepted is held by both trees, or queued.  The disk alone is    *)
(* not enough: the next flush replaces it by what the process sees.         *)
KeptTwice ==
    \A k \in Keys : accepted[k] # NoRecord =>
        \/ Holds(db[k], accepted[k]) /\ Holds(disk[k], accepted[k])
        \/ InQueue(k, accepted[k])

-----------------------------------------------------------------------------
(* Superseding is reflexive, total and transitive. *)
LEMMA BeatsOrders ==
    /\ \A r \in Records : Beats(r, r)
    /\ \A r, s \in Records : Beats(r, s) \/ Beats(s, r)
    /\ \A r, s, t \in Records : Beats(r, s) /\ Beats(s, t) => Beats(r, t)
  <1>1. \A r \in Records : r.version \in Nat /\ r.epoch \in Nat /\ r.tombstone \in BOOLEAN
    BY Zenon, DurableAssumption
  <1> QED BY <1>1 DEF Beats

(* A merge supersedes both records. *)
LEMMA MergeHolds ==
    ASSUME NEW c \in Records \cup {NoRecord}, NEW r \in Records
    PROVE  /\ Merge(c, r) \in Records
           /\ Merge(c, r) # NoRecord
           /\ Beats(Merge(c, r), r)
           /\ c # NoRecord => Beats(Merge(c, r), c)
  <1>1. NoRecord \notin Records
    BY Zenon, DurableAssumption
  <1> QED BY Zenon, <1>1, BeatsOrders DEF Merge

(* A slot that held r still does when it is merged with another record. *)
LEMMA MergeKeeps ==
    ASSUME NEW c \in Records \cup {NoRecord}, NEW r \in Records, NEW s \in Records,
           Holds(c, r)
    PROVE  Holds(Merge(c, s), r)
  <1>1. c \in Records /\ c # NoRecord
    BY Zenon DEF Holds
  <1>2. Beats(c, r) /\ Beats(Merge(c, s), c) /\ Merge(c, s) \in Records
    BY Zenon, <1>1, MergeHolds DEF Holds
  <1>3. Beats(Merge(c, s), r)
    BY Zenon, <1>1, <1>2, BeatsOrders
  <1> QED BY Zenon, <1>3, MergeHolds DEF Holds

-----------------------------------------------------------------------------
(* upsert: both trees keep what both held, and db holds the new record. *)
LEMMA UpsertKeeps ==
    ASSUME DurableTypes, NEW k \in Keys, NEW r \in Records, NEW flushed \in BOOLEAN,
           Upsert(k, r, flushed)
    PROVE  /\ db' \in Trees /\ disk' \in Trees
           /\ \A j \in Keys, s \in Records :
                 Holds(db[j], s) /\ Holds(disk[j], s) => Holds(db'[j], s) /\ Holds(disk'[j], s)
           /\ Holds(db'[k], r)
           /\ flushed => Holds(disk'[k], r)
           /\ \A j \in Keys : disk'[j] = disk[j] \/ disk'[j] = Merge(db[j], r) \/ disk'[j] = db[j]
  <1>1. db' = [db EXCEPT ![k] = Merge(@, r)]
    BY Zenon DEF Upsert
  <1>2. db \in Trees /\ disk \in Trees
    BY Zenon DEF DurableTypes
  <1>3. Merge(db[k], r) \in Records /\ Merge(db[k], r) # NoRecord /\ Beats(Merge(db[k], r), r)
    <2>1. db[k] \in Records \cup {NoRecord}
      BY Zenon, <1>2 DEF Trees
    <2> QED BY Zenon, <2>1, MergeHolds
  <1>4. db' \in Trees /\ db'[k] = Merge(db[k], r) /\ \A j \in Keys : j # k => db'[j] = db[j]
    BY Zenon, <1>1, <1>2, <1>3 DEF Trees
  <1>5. disk' = db' \/ disk' = disk
    BY Zenon DEF Upsert, Flush
  <1>6. flushed => disk' = db'
    BY Zenon DEF Upsert, Flush
  <1>7. Holds(db'[k], r)
    BY Zenon, <1>3, <1>4 DEF Holds
  <1>8. ASSUME NEW j \in Keys, NEW s \in Records, Holds(db[j], s)
        PROVE  Holds(db'[j], s)
    <2>1. CASE j = k
      <3>1. db[k] \in Records \cup {NoRecord}
        BY Zenon, <1>2 DEF Trees
      <3> QED BY Zenon, <2>1, <3>1, <1>4, <1>8, MergeKeeps
    <2>2. CASE j # k
      BY Zenon, <2>2, <1>4, <1>8
    <2> QED BY Zenon, <2>1, <2>2
  <1> QED BY Zenon, <1>2, <1>4, <1>5, <1>6, <1>7, <1>8
-----------------------------------------------------------------------------
LEMMA InitKept == Init => DurableTypes /\ KeptTwice
  BY DEF Init, DurableTypes, KeptTwice, Trees

(* The types of a queued write and of the queue that remains. *)
LEMMA QueueTypes ==
    ASSUME DurableTypes
    PROVE  /\ Len(pending) \in Nat
           /\ \A i \in 1 .. Len(pending) : pending[i].key \in Keys /\ pending[i].record \in Records
           /\ pending # <<>> =>
                 /\ Head(pending) = pending[1] /\ Len(pending) >= 1
                 /\ Tail(pending) \in Seq([key : Keys, record : Records])
                 /\ Len(Tail(pending)) = Len(pending) - 1
                 /\ \A i \in 1 .. Len(pending) - 1 : Tail(pending)[i] = pending[i + 1]
  <1>1. pending \in Seq([key : Keys, record : Records])
    BY Zenon DEF DurableTypes
  <1>2. \A i \in 1 .. Len(pending) :
           pending[i].key \in Keys /\ pending[i].record \in Records
    <2> DEFINE Writes == [key : Keys, record : Records]
    <2>1. \A w \in Writes : w.key \in Keys /\ w.record \in Records
      BY Zenon
    <2>2. pending \in Seq(Writes)
      BY Zenon, <1>1
    <2> HIDE DEF Writes
    <2>3. \A i \in 1 .. Len(pending) : pending[i] \in Writes
      BY <2>2
    <2> QED BY Zenon, <2>1, <2>3
  <1>3. Len(pending) \in Nat
    BY <1>1
  <1>4. ASSUME pending # <<>>
        PROVE  /\ Head(pending) = pending[1] /\ Len(pending) >= 1
               /\ Tail(pending) \in Seq([key : Keys, record : Records])
               /\ Len(Tail(pending)) = Len(pending) - 1
               /\ \A i \in 1 .. Len(pending) - 1 : Tail(pending)[i] = pending[i + 1]
    BY <1>1, <1>4
  <1> QED BY Zenon, <1>2, <1>3, <1>4

LEMMA WriteSyncKeeps ==
    ASSUME DurableTypes, KeptTwice,
           NEW k \in Keys, NEW r \in Records, NEW flushed \in BOOLEAN,
           WriteSync(k, r, flushed)
    PROVE  DurableTypes' /\ KeptTwice'
  <1>1. Upsert(k, r, flushed) /\ pending' = pending
    BY Zenon DEF WriteSync
  <1>2. accepted \in Trees /\ accepted[k] \in Records \cup {NoRecord}
    BY Zenon DEF DurableTypes, Trees
  <1>3. /\ accepted' \in Trees
        /\ \A j \in Keys : \/ accepted'[j] = accepted[j]
                           \/ j = k /\ accepted'[j] = r /\ flushed
    <2>1. CASE ~flushed
      BY Zenon, <2>1, <1>2 DEF WriteSync
    <2>2. CASE flushed
      <3>1. accepted' = [accepted EXCEPT ![k] = Merge(@, r)]
        BY Zenon, <2>2 DEF WriteSync, Accept
      <3>2. Merge(accepted[k], r) \in {accepted[k], r} /\ Merge(accepted[k], r) \in Records
        BY Zenon, <1>2, MergeHolds DEF Merge
      <3> QED BY Zenon, <2>2, <3>1, <3>2, <1>2 DEF Trees
    <2> QED BY Zenon, <2>1, <2>2
  <1>4. DurableTypes'
    BY Zenon, <1>1, <1>3, UpsertKeeps DEF DurableTypes
  <1>5. ASSUME NEW j \in Keys, accepted'[j] # NoRecord
        PROVE  \/ Holds(db'[j], accepted'[j]) /\ Holds(disk'[j], accepted'[j])
               \/ InQueue(j, accepted[j])'
    <2>1. CASE accepted'[j] = accepted[j]
      <3>1. accepted[j] \in Records
        BY Zenon, <2>1, <1>2, <1>5 DEF Trees
      <3>2. CASE InQueue(j, accepted[j])
        BY Zenon, <3>2, <2>1, <1>1 DEF InQueue
      <3>3. CASE Holds(db[j], accepted[j]) /\ Holds(disk[j], accepted[j])
        BY Zenon, <3>1, <3>3, <2>1, <1>1, UpsertKeeps
      <3> QED BY Zenon, <2>1, <1>5, <3>2, <3>3 DEF KeptTwice
    <2>2. CASE j = k /\ accepted'[j] = r /\ flushed
      BY Zenon, <2>2, <1>1, UpsertKeeps
    <2> QED BY Zenon, <2>1, <2>2, <1>3
  <1> QED BY Zenon, <1>4, <1>5 DEF KeptTwice

LEMMA WriteAsyncKeeps ==
    ASSUME DurableTypes, KeptTwice, NEW k \in Keys, NEW r \in Records, WriteAsync(k, r)
    PROVE  DurableTypes' /\ KeptTwice'
  <1> DEFINE q == [key |-> k, record |-> r]
  <1>1. /\ pending' = Append(pending, q)
        /\ accepted' = [accepted EXCEPT ![k] = Merge(@, r)]
        /\ db' = db /\ disk' = disk
    BY Zenon DEF WriteAsync, Accept, store
  <1>2. accepted \in Trees /\ accepted[k] \in Records \cup {NoRecord}
    BY Zenon DEF DurableTypes, Trees
  <1>3. Merge(accepted[k], r) \in {accepted[k], r} /\ Merge(accepted[k], r) \in Records
    BY Zenon, <1>2, MergeHolds DEF Merge
  <1>4. /\ accepted' \in Trees
        /\ \A j \in Keys : \/ accepted'[j] = accepted[j]
                           \/ j = k /\ accepted'[j] = r
    <2> DEFINE m == Merge(accepted[k], r)
    <2>1. accepted' = [accepted EXCEPT ![k] = m] /\ m \in {accepted[k], r} /\ m \in Records
      BY Zenon, <1>1, <1>3
    <2> HIDE DEF m
    <2> QED BY Zenon, <2>1, <1>2 DEF Trees
  <1>5. /\ pending \in Seq([key : Keys, record : Records]) /\ Len(pending) \in Nat
        /\ q \in [key : Keys, record : Records]
    BY DEF DurableTypes
  <1>6. /\ pending' \in Seq([key : Keys, record : Records]) /\ Len(pending') = Len(pending) + 1
        /\ pending'[Len(pending) + 1] = q
        /\ \A i \in 1 .. Len(pending) : pending'[i] = pending[i]
    BY <1>1, <1>5
  <1>7. DurableTypes'
    BY Zenon, <1>1, <1>4, <1>6 DEF DurableTypes
  <1>8. ASSUME NEW j \in Keys, accepted'[j] # NoRecord
        PROVE  \/ Holds(db'[j], accepted'[j]) /\ Holds(disk'[j], accepted'[j])
               \/ InQueue(j, accepted[j])'
    <2>1. CASE accepted'[j] = accepted[j]
      <3>1. CASE InQueue(j, accepted[j])
        <4>1. PICK i \in 1 .. Len(pending) :
                 pending[i].key = j /\ Beats(pending[i].record, accepted[j])
          BY Zenon, <3>1 DEF InQueue
        <4>2. i \in 1 .. Len(pending') /\ pending'[i] = pending[i]
          BY <1>5, <1>6
        <4> QED BY Zenon, <4>1, <4>2, <2>1 DEF InQueue
      <3>2. CASE Holds(db[j], accepted[j]) /\ Holds(disk[j], accepted[j])
        BY Zenon, <3>2, <2>1, <1>1
      <3> QED BY Zenon, <2>1, <1>8, <3>1, <3>2 DEF KeptTwice
    <2>2. CASE j = k /\ accepted'[j] = r
      <3>1. Beats(r, r) /\ q.key = k /\ q.record = r
        BY Zenon, BeatsOrders
      <3>2. Len(pending) + 1 \in 1 .. Len(pending')
        BY <1>5, <1>6
      <3> QED BY Zenon, <2>2, <3>1, <3>2, <1>6 DEF InQueue
    <2> QED BY Zenon, <2>1, <2>2, <1>4
  <1> QED BY Zenon, <1>7, <1>8 DEF KeptTwice

LEMMA DrainKeeps ==
    ASSUME DurableTypes, KeptTwice, NEW flushed \in BOOLEAN, DrainAsync(flushed)
    PROVE  DurableTypes' /\ KeptTwice'
  <1> DEFINE k == pending[1].key
             r == pending[1].record
  <1>1. /\ pending # <<>> /\ accepted' = accepted
        /\ pending' = IF flushed THEN Tail(pending) ELSE pending
        /\ Upsert(Head(pending).key, Head(pending).record, flushed)
    BY Zenon DEF DrainAsync
  <1>2. Len(pending) \in Nat /\ Len(pending) >= 1
    BY Zenon, <1>1, QueueTypes
  <1>3. 1 \in 1 .. Len(pending)
    BY <1>2
  <1>4. k \in Keys /\ r \in Records /\ Upsert(k, r, flushed)
    BY Zenon, <1>1, <1>3, QueueTypes
  <1>5. DurableTypes'
    <2>1. pending' \in Seq([key : Keys, record : Records])
      BY Zenon, <1>1, QueueTypes DEF DurableTypes
    <2>2. accepted' \in Trees
      BY Zenon, <1>1 DEF DurableTypes
    <2>3. db' \in Trees /\ disk' \in Trees
      BY Zenon, <1>4, UpsertKeeps
    <2> QED BY Zenon, <2>1, <2>2, <2>3 DEF DurableTypes
  <1>6. ASSUME NEW j \in Keys, accepted[j] # NoRecord
        PROVE  \/ Holds(db'[j], accepted[j]) /\ Holds(disk'[j], accepted[j])
               \/ InQueue(j, accepted[j])'
    <2>1. accepted[j] \in Records
      BY Zenon, <1>6 DEF DurableTypes, Trees
    <2>2. CASE Holds(db[j], accepted[j]) /\ Holds(disk[j], accepted[j])
      BY Zenon, <2>1, <2>2, <1>4, UpsertKeeps
    <2>3. CASE InQueue(j, accepted[j])
      <3>1. PICK i \in 1 .. Len(pending) :
               pending[i].key = j /\ Beats(pending[i].record, accepted[j])
        BY Zenon, <2>3 DEF InQueue
      <3>2. CASE ~flushed
        BY Zenon, <3>1, <3>2, <1>1 DEF InQueue
      <3>3. CASE flushed /\ i = 1
        <4>1. k = j /\ Beats(r, accepted[j])
          BY Zenon, <3>1, <3>3
        <4>2. Holds(db'[j], r) /\ Holds(disk'[j], r)
          <5> HIDE DEF k, r
          <5>1. Holds(db'[k], r) /\ (flushed => Holds(disk'[k], r))
            BY Zenon, <1>4, UpsertKeeps
          <5> QED BY <5>1, <4>1, <3>3, Zenon
        <4>3. db'[j] \in Records /\ disk'[j] \in Records
          BY Zenon, <4>2, <1>5 DEF DurableTypes, Trees, Holds
        <4>4. accepted[j] \in Records /\ r \in Records
          BY Zenon, <2>1, <1>4
        <4>5. Beats(db'[j], accepted[j]) /\ Beats(disk'[j], accepted[j])
          <5>1. Beats(db'[j], r) /\ Beats(disk'[j], r)
            BY Zenon, <4>2 DEF Holds
          <5> QED BY Zenon, <5>1, <4>1, <4>3, <4>4, BeatsOrders
        <4> QED BY Zenon, <4>2, <4>5 DEF Holds
      <3>4. CASE flushed /\ i # 1
        <4>1. i - 1 \in 1 .. Len(pending) - 1 /\ (i - 1) + 1 = i
          BY <3>4, <1>2
        <4>2. Len(pending') = Len(pending) - 1 /\ pending'[i - 1] = pending[i]
          BY Zenon, <4>1, <3>4, <1>1, QueueTypes
        <4>3. i - 1 \in 1 .. Len(pending')
          BY Zenon, <4>1, <4>2
        <4> QED BY Zenon, <3>1, <4>2, <4>3, <1>1 DEF InQueue
      <3> QED BY Zenon, <3>2, <3>3, <3>4
    <2> QED BY Zenon, <1>6, <2>2, <2>3 DEF KeptTwice
  <1> QED BY Zenon, <1>1, <1>5, <1>6 DEF KeptTwice

LEMMA ReclaimKeeps ==
    ASSUME DurableTypes, KeptTwice, NEW k \in Keys, NEW flushed \in BOOLEAN, Reclaim(k, flushed)
    PROVE  DurableTypes' /\ KeptTwice'
  <1>1. /\ db' = [db EXCEPT ![k] = NoRecord] /\ pending' = pending
        /\ disk' = db' \/ disk' = disk
        /\ accepted' = IF accepted[k] # NoRecord /\ Beats(db[k], accepted[k])
                         THEN [accepted EXCEPT ![k] = NoRecord] ELSE accepted
    BY Zenon DEF Reclaim, RemoveRecord, Flush
  <1>2. db \in Trees /\ disk \in Trees /\ accepted \in Trees
    BY Zenon DEF DurableTypes
  <1>3. db' \in Trees /\ \A j \in Keys : j # k => db'[j] = db[j]
    BY Zenon, <1>1, <1>2 DEF Trees
  <1>4. accepted' \in Trees /\ \A j \in Keys : accepted'[j] # NoRecord => accepted'[j] = accepted[j]
    BY Zenon, <1>1, <1>2 DEF Trees
  <1>5. DurableTypes'
    BY Zenon, <1>1, <1>2, <1>3, <1>4 DEF DurableTypes
  <1>6. ASSUME NEW j \in Keys, accepted'[j] # NoRecord
        PROVE  \/ Holds(db'[j], accepted'[j]) /\ Holds(disk'[j], accepted'[j])
               \/ InQueue(j, accepted[j])'
    <2>1. accepted'[j] = accepted[j]
      BY Zenon, <1>4, <1>6
    <2>2. CASE InQueue(j, accepted[j])
      BY Zenon, <2>1, <2>2, <1>1 DEF InQueue
    <2>3. CASE ~InQueue(j, accepted[j])
      <3>1. Holds(db[j], accepted[j]) /\ Holds(disk[j], accepted[j])
        BY Zenon, <2>1, <2>3, <1>6 DEF KeptTwice
      <3>2. j # k
        BY Zenon, <3>1, <1>1, <1>2, <1>6 DEF Holds, Trees
      <3> QED BY Zenon, <2>1, <3>1, <3>2, <1>1, <1>3
    <2> QED BY Zenon, <2>2, <2>3
  <1> QED BY Zenon, <1>5, <1>6 DEF KeptTwice

LEMMA CrashKeeps ==
    ASSUME DurableTypes, KeptTwice, Crash
    PROVE  DurableTypes' /\ KeptTwice'
  <1>1. PICK kept \in SUBSET Keys :
           db' = [k \in Keys |-> IF k \in kept THEN db[k] ELSE disk[k]]
    BY Zenon DEF Crash
  <1>2. /\ disk' = db' /\ pending' = <<>>
        /\ accepted' = [k \in Keys |->
                           IF \E i \in 1 .. Len(pending) : pending[i].key = k
                             THEN NoRecord ELSE accepted[k]]
    BY Zenon DEF Crash
  <1>3. db \in Trees /\ disk \in Trees /\ accepted \in Trees
    BY Zenon DEF DurableTypes
  <1>4. db' \in Trees /\ \A j \in Keys : db'[j] = db[j] \/ db'[j] = disk[j]
    BY Zenon, <1>1, <1>3 DEF Trees
  <1>5. accepted' \in Trees
    BY Zenon, <1>2, <1>3 DEF Trees
  <1>6. pending' \in Seq([key : Keys, record : Records])
    BY <1>2
  <1>7. ASSUME NEW j \in Keys, accepted'[j] # NoRecord
        PROVE  Holds(db'[j], accepted'[j]) /\ Holds(disk'[j], accepted'[j])
    <2>1. accepted'[j] = accepted[j] /\ ~ \E i \in 1 .. Len(pending) : pending[i].key = j
      BY Zenon, <1>2, <1>7
    <2>2. Holds(db[j], accepted[j]) /\ Holds(disk[j], accepted[j])
      BY Zenon, <2>1, <1>7 DEF KeptTwice, InQueue
    <2> QED BY Zenon, <2>1, <2>2, <1>2, <1>4
  <1> QED BY Zenon, <1>2, <1>4, <1>5, <1>6, <1>7 DEF DurableTypes, KeptTwice

(* Every step keeps the invariant, one step per action. *)
LEMMA StepKeeps ==
    ASSUME DurableTypes, KeptTwice, [Next]_vars
    PROVE  DurableTypes' /\ KeptTwice'
  <1>1. ASSUME NEW k \in Keys, NEW r \in Records, NEW flushed \in BOOLEAN,
               WriteSync(k, r, flushed)
        PROVE  DurableTypes' /\ KeptTwice'
    BY Zenon, <1>1, WriteSyncKeeps
  <1>2. ASSUME NEW k \in Keys, NEW r \in Records, WriteAsync(k, r)
        PROVE  DurableTypes' /\ KeptTwice'
    BY Zenon, <1>2, WriteAsyncKeeps
  <1>3. ASSUME NEW flushed \in BOOLEAN, DrainAsync(flushed)
        PROVE  DurableTypes' /\ KeptTwice'
    BY Zenon, <1>3, DrainKeeps
  <1>4. ASSUME UNCHANGED <<db, disk, pending, accepted>>
        PROVE  DurableTypes' /\ KeptTwice'
    BY Zenon, <1>4 DEF DurableTypes, KeptTwice, InQueue
  <1>5. ASSUME NEW k \in Keys,
               ConfirmRepair(k) \/ \E confirmed \in BOOLEAN : Admit(k, confirmed)
        PROVE  DurableTypes' /\ KeptTwice'
    <2>1. UNCHANGED <<db, disk, pending, accepted>>
      BY Zenon, <1>5 DEF Admit, ConfirmRepair, store
    <2> QED BY Zenon, <1>4, <2>1
  <1>6. ASSUME NEW k \in Keys, NEW flushed \in BOOLEAN, Reclaim(k, flushed)
        PROVE  DurableTypes' /\ KeptTwice'
    BY Zenon, <1>6, ReclaimKeeps
  <1>7. CASE Crash
    BY Zenon, <1>7, CrashKeeps
  <1>8. CASE UNCHANGED vars
    BY Zenon, <1>4, <1>8 DEF vars
  <1> QED BY Zenon, <1>1, <1>2, <1>3, <1>5, <1>6, <1>7, <1>8 DEF Next

LEMMA AlwaysKept == Spec => [](DurableTypes /\ KeptTwice)
  BY InitKept, StepKeeps, PTL DEF Spec

(* Nothing that a caller was told is accepted is lost by failed flushes,    *)
(* retried drains, collections or crashes, except queued writes by a crash  *)
(* (write, drain_async, upsert, collect_tombstone_garbage).                 *)
THEOREM Kept == Spec => []AcceptedIsKept
  <1>1. DurableTypes /\ KeptTwice => AcceptedIsKept
    BY Zenon DEF KeptTwice, AcceptedIsKept, InQueue
  <1> QED BY <1>1, AlwaysKept, PTL

-----------------------------------------------------------------------------
(* A durable live value that the process sees never falls in one step. *)
LEMMA StepRises ==
    ASSUME DurableTypes, [Next]_vars, NEW k \in Keys,
           disk[k] # NoRecord, ~disk[k].tombstone, db[k] = disk[k]
    PROVE  Holds(disk'[k], disk[k])
  <1>1. disk[k] \in Records /\ Beats(disk[k], disk[k])
    BY Zenon, BeatsOrders DEF DurableTypes, Trees
  <1>2. Holds(db[k], disk[k]) /\ Holds(disk[k], disk[k])
    BY Zenon, <1>1 DEF Holds
  <1>3. ASSUME NEW j \in Keys, NEW r \in Records, NEW flushed \in BOOLEAN,
               Upsert(j, r, flushed)
        PROVE  Holds(disk'[k], disk[k])
    BY Zenon, <1>1, <1>2, <1>3, UpsertKeeps
  <1>4. ASSUME NEW j \in Keys, NEW r \in Records, NEW flushed \in BOOLEAN,
               WriteSync(j, r, flushed)
        PROVE  Holds(disk'[k], disk[k])
    BY Zenon, <1>3, <1>4 DEF WriteSync
  <1>5. ASSUME NEW flushed \in BOOLEAN, DrainAsync(flushed)
        PROVE  Holds(disk'[k], disk[k])
    <2>1. pending # <<>> /\ Upsert(Head(pending).key, Head(pending).record, flushed)
      BY Zenon, <1>5 DEF DrainAsync
    <2>2. Head(pending) = pending[1] /\ 1 \in 1 .. Len(pending)
      BY <2>1, QueueTypes
    <2>3. Head(pending).key \in Keys /\ Head(pending).record \in Records
      BY Zenon, <2>2, QueueTypes
    <2> QED BY Zenon, <2>1, <2>3, <1>3
  <1>6. ASSUME NEW j \in Keys, NEW flushed \in BOOLEAN, Reclaim(j, flushed)
        PROVE  Holds(disk'[k], disk[k])
    <2>1. j # k
      BY Zenon, <1>6 DEF Reclaim, Reclaimable
    <2>2. db' = [db EXCEPT ![j] = NoRecord] /\ (disk' = db' \/ disk' = disk)
      BY Zenon, <1>6 DEF Reclaim, RemoveRecord, Flush
    <2>3. db'[k] = db[k]
      BY Zenon, <2>1, <2>2 DEF DurableTypes, Trees
    <2> QED BY Zenon, <2>2, <2>3, <1>2
  <1>7. CASE Crash
    <2>1. disk' = db' /\ db'[k] \in {db[k], disk[k]}
      BY Zenon, <1>7 DEF Crash
    <2> QED BY Zenon, <2>1, <1>2
  <1>8. CASE UNCHANGED disk
    BY Zenon, <1>8, <1>2
  <1>9. ASSUME NEW j \in Keys, NEW r \in Records, WriteAsync(j, r)
        PROVE  UNCHANGED disk
    BY Zenon, <1>9 DEF WriteAsync, store
  <1>10. ASSUME NEW j \in Keys,
                ConfirmRepair(j) \/ \E confirmed \in BOOLEAN : Admit(j, confirmed)
         PROVE  UNCHANGED disk
    BY Zenon, <1>10 DEF Admit, ConfirmRepair, store
  <1>11. UNCHANGED vars => UNCHANGED disk
    BY Zenon DEF vars
  <1> QED BY Zenon, <1>4, <1>5, <1>6, <1>7, <1>8, <1>9, <1>10, <1>11 DEF Next

(* A live value on disk that the process sees is only ever replaced by one  *)
(* that supersedes it: a late or repeated write, a collection or a crash    *)
(* never takes it back (merge, drain_async, collect_tombstone_garbage).     *)
THEOREM Rises == Spec => ValuesOnlyRise
  <1>1. DurableTypes /\ [Next]_vars =>
           [\A k \in Keys :
               disk[k] # NoRecord /\ ~disk[k].tombstone /\ db[k] = disk[k] =>
                   Holds(disk'[k], disk[k])]_vars
    BY Zenon, StepRises
  <1> QED BY <1>1, AlwaysKept, PTL DEF Spec, ValuesOnlyRise
-----------------------------------------------------------------------------
(* What each key adds to the byte count of a tree. *)
BytesOf(tree) == [k \in Keys |-> Bytes(tree[k])]

LEMMA BytesAreNat ==
    /\ \A r \in Records \cup {NoRecord} : Bytes(r) \in Nat
    /\ \A tree \in Trees : BytesOf(tree) \in [Keys -> Nat]
  <1>1. \A r \in Records \cup {NoRecord} : Bytes(r) \in Nat
    BY Zenon, DurableAssumption DEF Bytes
  <1> QED BY Zenon, <1>1 DEF BytesOf, Trees

(* scan_total_bytes is the sum of what the keys add. *)
LEMMA TotalIsSum ==
    ASSUME NEW tree \in Trees
    PROVE  \E sum : IsSum(BytesOf(tree), Keys, sum) /\ TotalBytes(tree) = sum[Keys]
  <1> DEFINE P(iter) == iter = [s \in SUBSET Keys |->
                IF s = {} THEN 0
                ELSE LET x == CHOOSE x \in s : TRUE IN Bytes(tree[x]) + iter[s \ {x}]]
  <1>1. TotalBytes(tree) = (CHOOSE iter : P(iter))[Keys]
    BY Zenon DEF TotalBytes, MapThenSumSet, MapThenFoldSet
  <1>2. ASSUME NEW iter PROVE P(iter) <=> IsSum(BytesOf(tree), Keys, iter)
    <2> DEFINE A(s) == IF s = {} THEN 0
                       ELSE LET x == CHOOSE x \in s : TRUE IN Bytes(tree[x]) + iter[s \ {x}]
               B(s) == IF s = {} THEN 0
                       ELSE BytesOf(tree)[Pick(s)] + iter[s \ {Pick(s)}]
    <2>1. ASSUME NEW s \in SUBSET Keys PROVE A(s) = B(s)
      <3>1. CASE s # {}
        <4>1. Pick(s) \in Keys
          BY Zenon, <3>1, PickIsElement
        <4>2. BytesOf(tree)[Pick(s)] = Bytes(tree[Pick(s)])
          BY Zenon, <4>1 DEF BytesOf
        <4> QED BY Zenon, <4>2 DEF Pick
      <3> QED BY Zenon, <3>1
    <2> HIDE DEF A, B
    <2>2. [s \in SUBSET Keys |-> A(s)] = [s \in SUBSET Keys |-> B(s)]
      BY Zenon, <2>1
    <2> QED BY Zenon, <2>2 DEF IsSum, A, B
  <1>3. \E iter : P(iter)
    <2>1. IsFiniteSet(Keys) /\ BytesOf(tree) \in [Keys -> Int]
      BY DurableAssumption, BytesAreNat
    <2>2. \E iter : IsSum(BytesOf(tree), Keys, iter)
      BY Zenon, <2>1, SumExists
    <2> HIDE DEF P
    <2> QED BY Zenon, <2>2, <1>2
  <1> HIDE DEF P
  <1>4. P(CHOOSE iter : P(iter))
    BY Zenon, <1>3
  <1> QED BY Zenon, <1>1, <1>2, <1>4

(* The byte count of a tree is a natural. *)
LEMMA TotalIsNat ==
    ASSUME NEW tree \in Trees
    PROVE  TotalBytes(tree) \in Nat
  <1>1. PICK i : IsSum(BytesOf(tree), Keys, i) /\ TotalBytes(tree) = i[Keys]
    BY Zenon, TotalIsSum
  <1>2. IsFiniteSet(Keys) /\ BytesOf(tree) \in [Keys -> Nat]
    BY Zenon, DurableAssumption, BytesAreNat
  <1>3. i[Keys] \in Nat
    BY Zenon, <1>1, <1>2, SumIsNat
  <1> QED BY Zenon, <1>1, <1>3

(* A change of one key changes the byte count by what that key gains. *)
LEMMA TotalChanges ==
    ASSUME NEW tree \in Trees, NEW k \in Keys, NEW r \in Records \cup {NoRecord}
    PROVE  TotalBytes([tree EXCEPT ![k] = r]) = TotalBytes(tree) - Bytes(tree[k]) + Bytes(r)
  <1> DEFINE new == [tree EXCEPT ![k] = r]
  <1>1. new \in Trees
    BY Zenon DEF Trees
  <1>2. PICK i : IsSum(BytesOf(tree), Keys, i) /\ TotalBytes(tree) = i[Keys]
    BY Zenon, TotalIsSum
  <1>3. PICK j : IsSum(BytesOf(new), Keys, j) /\ TotalBytes(new) = j[Keys]
    BY Zenon, <1>1, TotalIsSum
  <1>4. IsFiniteSet(Keys) /\ BytesOf(tree) \in [Keys -> Nat] /\ BytesOf(new) \in [Keys -> Nat]
    BY Zenon, <1>1, DurableAssumption, BytesAreNat
  <1>5. \A x \in Keys : x # k => BytesOf(new)[x] = BytesOf(tree)[x]
    BY Zenon DEF BytesOf, Trees
  <1>6. BytesOf(new)[k] = Bytes(r) /\ BytesOf(tree)[k] = Bytes(tree[k])
    BY Zenon DEF BytesOf, Trees
  <1>7. Bytes(r) \in Nat /\ Bytes(tree[k]) \in Nat
    BY Zenon, BytesAreNat DEF Trees
  <1> HIDE DEF new
  <1>8. j[Keys] = i[Keys] + (BytesOf(new)[k] - BytesOf(tree)[k])
    <2>1. \A s \in SUBSET Keys :
             j[s] = i[s] + (IF k \in s THEN BytesOf(new)[k] - BytesOf(tree)[k] ELSE 0)
      BY <1>2, <1>3, <1>4, <1>5, SumChange
    <2> QED BY Zenon, <2>1
  <1>9. i[Keys] \in Nat
    BY Zenon, <1>2, TotalIsNat
  <1> QED BY <1>2, <1>3, <1>6, <1>7, <1>8, <1>9 DEF new
-----------------------------------------------------------------------------
(* Nothing is counted in a tree without records. *)
LEMMA TotalOfNone == TotalBytes([k \in Keys |-> NoRecord]) = 0
  <1> DEFINE none == [k \in Keys |-> NoRecord]
  <1>1. none \in Trees
    BY Zenon DEF Trees
  <1>2. PICK i : IsSum(BytesOf(none), Keys, i) /\ TotalBytes(none) = i[Keys]
    BY Zenon, <1>1, TotalIsSum
  <1>3. IsFiniteSet(Keys) /\ BytesOf(none) \in [Keys -> Nat]
    BY Zenon, <1>1, DurableAssumption, BytesAreNat
  <1>4. \A k \in Keys : BytesOf(none)[k] = 0
    BY Zenon DEF BytesOf, Bytes
  <1> HIDE DEF none
  <1>5. i[Keys] = 0
    BY Zenon, <1>2, <1>3, <1>4, SumIsZero
  <1> QED BY Zenon, <1>2, <1>5 DEF none

(* upsert keeps the count exact, and leaves it within the budget or no      *)
(* higher than it was.                                                      *)
LEMMA UpsertCounts ==
    ASSUME DurableTypes, BudgetIsExact,
           NEW k \in Keys, NEW r \in Records, NEW flushed \in BOOLEAN, Upsert(k, r, flushed)
    PROVE  BudgetIsExact' /\ (used' <= MaxTotalBytes \/ used' <= used)
  <1> DEFINE m == Merge(db[k], r)
  <1>1. db' = [db EXCEPT ![k] = m] /\ used' = used - Bytes(db[k]) + Bytes(m)
        /\ used - Bytes(db[k]) + Bytes(r) <= MaxTotalBytes
    BY Zenon DEF Upsert
  <1>2. db \in Trees /\ db[k] \in Records \cup {NoRecord}
    BY Zenon DEF DurableTypes, Trees
  <1>3. m \in Records \cup {NoRecord} /\ (m = r \/ m = db[k])
    BY Zenon, <1>2, MergeHolds DEF Merge
  <1> HIDE DEF m
  <1>4. TotalBytes(db') = TotalBytes(db) - Bytes(db[k]) + Bytes(m) /\ TotalBytes(db) \in Nat
    BY Zenon, <1>1, <1>2, <1>3, TotalChanges, TotalIsNat
  <1>5. BudgetIsExact'
    BY Zenon, <1>1, <1>4 DEF BudgetIsExact
  <1>6. Bytes(m) \in Nat /\ Bytes(db[k]) \in Nat /\ Bytes(r) \in Nat /\ used \in Nat
    BY Zenon, <1>2, <1>3, <1>4, BytesAreNat DEF BudgetIsExact
  <1>7. used' <= MaxTotalBytes \/ used' <= used
    BY <1>1, <1>3, <1>6, DurableAssumption
  <1> QED BY Zenon, <1>5, <1>7

(* The count stays exact in every step, and only a reopening of the store   *)
(* can raise it above the budget.                                           *)
LEMMA StepCounts ==
    ASSUME DurableTypes, BudgetIsExact, [Next]_vars
    PROVE  BudgetIsExact' /\ (used' <= MaxTotalBytes \/ used' <= used \/ Crash)
  <1> DEFINE Goal == BudgetIsExact' /\ (used' <= MaxTotalBytes \/ used' <= used \/ Crash)
  <1>1. ASSUME NEW k \in Keys, NEW r \in Records, NEW flushed \in BOOLEAN,
               WriteSync(k, r, flushed)
        PROVE  Goal
    <2>1. Upsert(k, r, flushed)
      BY Zenon, <1>1 DEF WriteSync
    <2> QED BY Zenon, <2>1, UpsertCounts
  <1>2. ASSUME NEW flushed \in BOOLEAN, DrainAsync(flushed)
        PROVE  Goal
    <2>1. pending # <<>> /\ Upsert(Head(pending).key, Head(pending).record, flushed)
      BY Zenon, <1>2 DEF DrainAsync
    <2>2. Head(pending) = pending[1] /\ 1 \in 1 .. Len(pending)
      BY <2>1, QueueTypes
    <2>3. Head(pending).key \in Keys /\ Head(pending).record \in Records
      BY Zenon, <2>2, QueueTypes
    <2> QED BY Zenon, <2>1, <2>3, UpsertCounts
  <1>3. ASSUME UNCHANGED <<db, used>>
        PROVE  Goal
    <2>1. used \in Nat
      BY Zenon, TotalIsNat DEF BudgetIsExact, DurableTypes
    <2> QED BY <1>3, <2>1 DEF BudgetIsExact
  <1>4. ASSUME NEW k \in Keys, NEW r \in Records, WriteAsync(k, r)
        PROVE  Goal
    BY Zenon, <1>3, <1>4 DEF WriteAsync, store
  <1>5. ASSUME NEW k \in Keys,
               ConfirmRepair(k) \/ \E confirmed \in BOOLEAN : Admit(k, confirmed)
        PROVE  Goal
    BY Zenon, <1>3, <1>5 DEF Admit, ConfirmRepair, store
  <1>6. ASSUME NEW k \in Keys, NEW flushed \in BOOLEAN, Reclaim(k, flushed)
        PROVE  Goal
    <2>1. db' = [db EXCEPT ![k] = NoRecord] /\ used' = used - Bytes(db[k])
      BY Zenon, <1>6 DEF Reclaim, RemoveRecord
    <2>2. db \in Trees /\ db[k] \in Records \cup {NoRecord}
      BY Zenon DEF DurableTypes, Trees
    <2>3. /\ TotalBytes(db) \in Nat
          /\ TotalBytes(db') = TotalBytes(db) - Bytes(db[k]) + Bytes(NoRecord)
      BY Zenon, <2>1, <2>2, TotalChanges, TotalIsNat
    <2>4. Bytes(NoRecord) = 0 /\ Bytes(db[k]) \in Nat
      BY Zenon, <2>2, BytesAreNat DEF Bytes
    <2> QED BY <2>1, <2>3, <2>4 DEF BudgetIsExact
  <1>7. CASE Crash
    <2>1. used' = TotalBytes(db')
      BY Zenon, <1>7 DEF Crash
    <2> QED BY Zenon, <1>7, <2>1 DEF BudgetIsExact
  <1>8. CASE UNCHANGED vars
    BY Zenon, <1>3, <1>8 DEF vars
  <1> QED BY Zenon, <1>1, <1>2, <1>4, <1>5, <1>6, <1>7, <1>8 DEF Next

(* budget_used_bytes is what a scan of the tree would count, after merges,  *)
(* rejections, failed flushes, collections and crashes (upsert, remove,     *)
(* open_with_budget).                                                       *)
THEOREM Budget == Spec => []BudgetIsExact
  <1>1. Init => BudgetIsExact
    BY Zenon, TotalOfNone DEF Init, BudgetIsExact
  <1>2. DurableTypes /\ BudgetIsExact /\ [Next]_vars => BudgetIsExact'
    BY Zenon, StepCounts
  <1> QED BY <1>1, <1>2, AlwaysKept, PTL DEF Spec

(* No write takes the byte count above max_total_bytes: when it is above,   *)
(* it was found there by a reopening, and it does not rise (upsert's        *)
(* would_fit, remove).                                                      *)
THEOREM WritesStayInBudget ==
    Spec => [][used' <= MaxTotalBytes \/ used' <= used \/ Crash]_vars
  <1>1. DurableTypes /\ BudgetIsExact /\ [Next]_vars =>
           [used' <= MaxTotalBytes \/ used' <= used \/ Crash]_vars
    BY Zenon, StepCounts
  <1> QED BY <1>1, AlwaysKept, Budget, PTL DEF Spec
-----------------------------------------------------------------------------
(* The tracker and its debt. *)
TrackerTypes ==
    /\ tracker \in [Keys -> Tracked \cup {Untracked}]
    /\ repair_debt \in BOOLEAN

(* Fewer tracked keys never make a budget exceeded. *)
LEMMA BudgetIsMonotone ==
    ASSUME NEW t, NEW u, TrackedKeys(u) \subseteq TrackedKeys(t), OverBudget(u)
    PROVE  OverBudget(t)
  <1>1. IsFiniteSet(TrackedKeys(t))
    BY Zenon, DurableAssumption, FS_Subset DEF TrackedKeys
  <1>2. /\ IsFiniteSet(TrackedKeys(u))
        /\ Cardinality(TrackedKeys(u)) <= Cardinality(TrackedKeys(t))
    BY Zenon, <1>1, FS_Subset
  <1>3. Cardinality(TrackedKeys(u)) \in Nat /\ Cardinality(TrackedKeys(t)) \in Nat
    BY Zenon, <1>1, <1>2, FS_CardinalityType
  <1>4. Cardinality(TrackedKeys(t)) > MaxTombstones
    BY <1>2, <1>3, DurableAssumption DEF OverBudget
  <1> QED BY Zenon, <1>4 DEF OverBudget

LEMMA ForgetSettles ==
    ASSUME TrackerTypes, DebtIsExact, NEW k \in Keys, Forget(k)
    PROVE  TrackerTypes' /\ DebtIsExact'
  <1>1. tracker' = [tracker EXCEPT ![k] = Untracked]
        /\ repair_debt' = (repair_debt /\ OverBudget(tracker'))
    BY Zenon DEF Forget
  <1>2. tracker' \in [Keys -> Tracked \cup {Untracked}]
    BY Zenon, <1>1 DEF TrackerTypes
  <1>3. TrackedKeys(tracker') \subseteq TrackedKeys(tracker)
    BY Zenon, <1>1 DEF TrackedKeys, TrackerTypes
  <1>4. OverBudget(tracker') => OverBudget(tracker)
    BY Zenon, <1>3, BudgetIsMonotone
  <1>5. repair_debt' <=> OverBudget(tracker')
    BY Zenon, <1>1, <1>4 DEF DebtIsExact
  <1>6. repair_debt' \in BOOLEAN
    BY <1>1, Zenon
  <1> QED BY Zenon, <1>2, <1>5, <1>6 DEF TrackerTypes, DebtIsExact

LEMMA AdmitSettles ==
    ASSUME DurableTypes, TrackerTypes, NEW k \in Keys, NEW confirmed \in BOOLEAN,
           Admit(k, confirmed)
    PROVE  TrackerTypes' /\ DebtIsExact'
  <1> DEFINE e == [version |-> db[k].version, confirmed |-> confirmed]
             t == [tracker EXCEPT ![k] = e]
  <1>1. /\ \E E \in Evicted(t) :
              tracker' = [j \in Keys |-> IF j \in E THEN Untracked ELSE t[j]]
        /\ repair_debt' = OverBudget(tracker') /\ db[k] # NoRecord
    BY Zenon DEF Admit
  <1>2. db[k] \in Records
    BY Zenon, <1>1 DEF DurableTypes, Trees
  <1>3. db[k].version \in Nat
    BY Zenon, <1>2, DurableAssumption
  <1>4. e \in Tracked
    BY Zenon, <1>3 DEF Tracked
  <1> HIDE DEF e
  <1>5. t \in [Keys -> Tracked \cup {Untracked}]
    BY Zenon, <1>4 DEF TrackerTypes
  <1> HIDE DEF t
  <1>6. tracker' \in [Keys -> Tracked \cup {Untracked}]
    BY Zenon, <1>1, <1>5
  <1>7. repair_debt' \in BOOLEAN
    <2>1. OverBudget(tracker') \in BOOLEAN
      BY DEF OverBudget
    <2> QED BY <2>1, <1>1, Zenon
  <1> QED BY Zenon, <1>1, <1>6, <1>7 DEF TrackerTypes, DebtIsExact

LEMMA ConfirmSettles ==
    ASSUME TrackerTypes, DebtIsExact, NEW k \in Keys, ConfirmRepair(k)
    PROVE  TrackerTypes' /\ DebtIsExact'
  <1> DEFINE e == [tracker[k] EXCEPT !.confirmed = TRUE]
  <1>1. /\ tracker[k] # Untracked /\ tracker' = [tracker EXCEPT ![k] = e]
        /\ repair_debt' = repair_debt
    BY Zenon DEF ConfirmRepair
  <1>2. tracker[k] \in Tracked
    BY Zenon, <1>1 DEF TrackerTypes
  <1>3. e \in Tracked
    BY Zenon, <1>2 DEF Tracked
  <1> HIDE DEF e
  <1>4. e # Untracked
    BY Zenon, <1>3, DurableAssumption
  <1>5. tracker' \in [Keys -> Tracked \cup {Untracked}]
    BY Zenon, <1>1, <1>3 DEF TrackerTypes
  <1>6. TrackedKeys(tracker') = TrackedKeys(tracker)
    BY Zenon, <1>1, <1>4 DEF TrackedKeys, TrackerTypes
  <1>7. OverBudget(tracker') <=> OverBudget(tracker)
    BY Zenon, <1>6 DEF OverBudget
  <1> QED BY Zenon, <1>1, <1>5, <1>7 DEF TrackerTypes, DebtIsExact

(* Without entries there is no debt. *)
LEMMA NoDebt ==
    ~OverBudget([k \in Keys |-> Untracked])
  <1>1. TrackedKeys([k \in Keys |-> Untracked]) = {}
    BY Zenon DEF TrackedKeys
  <1>2. Cardinality({}) = 0
    BY Zenon, FS_EmptySet
  <1>3. Cardinality(TrackedKeys([k \in Keys |-> Untracked])) = 0
    BY Zenon, <1>1, <1>2
  <1>4. MaxTombstones \in Nat
    BY Zenon, DurableAssumption
  <1> QED BY <1>3, <1>4 DEF OverBudget

LEMMA StepSettles ==
    ASSUME DurableTypes, TrackerTypes, DebtIsExact, [Next]_vars
    PROVE  TrackerTypes' /\ DebtIsExact'
  <1>1. ASSUME UNCHANGED <<tracker, repair_debt>>
        PROVE  TrackerTypes' /\ DebtIsExact'
    BY Zenon, <1>1 DEF TrackerTypes, DebtIsExact, OverBudget, TrackedKeys
  <1>2. ASSUME NEW k \in Keys, NEW r \in Records, NEW flushed \in BOOLEAN,
               WriteSync(k, r, flushed)
        PROVE  TrackerTypes' /\ DebtIsExact'
    BY Zenon, <1>1, <1>2 DEF WriteSync
  <1>3. ASSUME NEW k \in Keys, NEW r \in Records, WriteAsync(k, r)
        PROVE  TrackerTypes' /\ DebtIsExact'
    BY Zenon, <1>1, <1>3 DEF WriteAsync
  <1>4. ASSUME NEW flushed \in BOOLEAN, DrainAsync(flushed)
        PROVE  TrackerTypes' /\ DebtIsExact'
    BY Zenon, <1>1, <1>4 DEF DrainAsync
  <1>5. ASSUME NEW k \in Keys,
               ConfirmRepair(k) \/ \E confirmed \in BOOLEAN : Admit(k, confirmed)
        PROVE  TrackerTypes' /\ DebtIsExact'
    BY Zenon, <1>5, ConfirmSettles, AdmitSettles
  <1>6. ASSUME NEW k \in Keys, NEW flushed \in BOOLEAN, Reclaim(k, flushed)
        PROVE  TrackerTypes' /\ DebtIsExact'
    <2>1. Forget(k) \/ UNCHANGED <<tracker, repair_debt>>
      BY Zenon, <1>6 DEF Reclaim
    <2> QED BY Zenon, <2>1, <1>1, ForgetSettles
  <1>7. CASE Crash
    <2>1. tracker' = [k \in Keys |-> Untracked] /\ repair_debt' = FALSE
      BY Zenon, <1>7 DEF Crash
    <2> QED BY Zenon, <2>1, NoDebt DEF TrackerTypes, DebtIsExact
  <1>8. CASE UNCHANGED vars
    BY Zenon, <1>1, <1>8 DEF vars
  <1> QED BY Zenon, <1>2, <1>3, <1>4, <1>5, <1>6, <1>7, <1>8 DEF Next

LEMMA AlwaysSettled == Spec => [](TrackerTypes /\ DebtIsExact)
  <1>1. Init => TrackerTypes /\ DebtIsExact
    BY Zenon, NoDebt DEF Init, TrackerTypes, DebtIsExact
  <1>2. DurableTypes /\ TrackerTypes /\ DebtIsExact /\ [Next]_vars => TrackerTypes' /\ DebtIsExact'
    BY Zenon, StepSettles
  <1> QED BY <1>1, <1>2, AlwaysKept, PTL DEF Spec

(* repair_debt is raised and cleared with the budget, whatever is admitted, *)
(* confirmed, evicted or forgotten in between (admit, enforce_budget,       *)
(* confirm_repair, forget).                                                 *)
THEOREM Debt == Spec => []DebtIsExact
  BY AlwaysSettled, PTL

-----------------------------------------------------------------------------
(* The queued writes of a key. *)
QueuedAt(q, k) == {i \in 1 .. Len(q) : q[i].key = k}

LEMMA QueuedIsFinite ==
    ASSUME NEW S, NEW q \in Seq(S), NEW k
    PROVE  /\ IsFiniteSet(QueuedAt(q, k))
           /\ Cardinality(QueuedAt(q, k)) \in Nat
           /\ Cardinality(QueuedAt(q, k)) <= Len(q)
  <1>1. Len(q) \in Nat
    OBVIOUS
  <1>2. IsFiniteSet(1 .. Len(q)) /\ Cardinality(1 .. Len(q)) = Len(q)
    <2> DEFINE n == Len(q)
    <2>1. n \in Nat
      BY Zenon, <1>1
    <2> HIDE DEF n
    <2>2. IsFiniteSet(1 .. n) /\ Cardinality(1 .. n) = IF 1 > n THEN 0 ELSE n - 1 + 1
      BY <2>1, FS_Interval
    <2>3. Cardinality(1 .. n) = n
      BY <2>1, <2>2
    <2> QED BY Zenon, <2>2, <2>3 DEF n
  <1>3. QueuedAt(q, k) \subseteq 1 .. Len(q)
    BY Zenon DEF QueuedAt
  <1>4. /\ IsFiniteSet(QueuedAt(q, k))
        /\ Cardinality(QueuedAt(q, k)) <= Cardinality(1 .. Len(q))
    BY Zenon, <1>2, <1>3, FS_Subset
  <1>5. Cardinality(QueuedAt(q, k)) \in Nat
    BY Zenon, <1>4, FS_CardinalityType
  <1> QED BY Zenon, <1>2, <1>4, <1>5

LEMMA StepBoundsLoss ==
    ASSUME DurableTypes, DurableTypes', LossIsBounded, [Next]_vars
    PROVE  LossIsBounded'
  <1> USE DEF QueuedAt
  <1> SUFFICES ASSUME NEW k \in Keys PROVE Cardinality(QueuedAt(pending', k)) <= MaxLag[k]
    BY Zenon DEF LossIsBounded
  <1>1. Cardinality(QueuedAt(pending, k)) <= MaxLag[k] /\ MaxLag[k] \in Nat
    BY Zenon, DurableAssumption DEF LossIsBounded
  <1> HIDE DEF QueuedAt
  <1>2. Cardinality(QueuedAt(pending, k)) \in Nat /\ IsFiniteSet(QueuedAt(pending, k))
    BY Zenon, QueuedIsFinite DEF DurableTypes
  <1>3. CASE pending' = pending
    BY Zenon, <1>1, <1>3
  <1>4. CASE pending' = <<>>
    <2>1. QueuedAt(pending', k) = {}
      BY <1>4 DEF QueuedAt
    <2>2. Cardinality({}) = 0
      BY Zenon, FS_EmptySet
    <2> QED BY <2>1, <2>2, <1>1
  <1>5. ASSUME NEW j \in Keys, NEW r \in Records, WriteAsync(j, r)
        PROVE  Cardinality(QueuedAt(pending', k)) <= MaxLag[k]
    <2> DEFINE q == [key |-> j, record |-> r]
    <2>1. pending' = Append(pending, q) /\ Len(pending) < MaxLag[j]
      BY Zenon, <1>5 DEF WriteAsync
    <2>2. pending \in Seq([key : Keys, record : Records]) /\ Len(pending) \in Nat
      BY DEF DurableTypes
    <2>3. /\ pending' \in Seq([key : Keys, record : Records])
          /\ Len(pending') = Len(pending) + 1
          /\ pending'[Len(pending) + 1] = q
          /\ \A i \in 1 .. Len(pending) : pending'[i] = pending[i]
      <3>1. q \in [key : Keys, record : Records]
        BY Zenon
      <3> QED BY <2>1, <2>2, <3>1
    <2>4. CASE j = k
      <3>1. /\ Cardinality(QueuedAt(pending', k)) \in Nat
            /\ Cardinality(QueuedAt(pending', k)) <= Len(pending')
        BY Zenon, <2>3, QueuedIsFinite
      <3> QED BY <3>1, <2>1, <2>2, <2>3, <2>4, <1>1
    <2>5. CASE j # k
      <3>1. q.key = j
        BY Zenon
      <3>2. QueuedAt(pending', k) = QueuedAt(pending, k)
        BY <3>1, <2>2, <2>3, <2>5 DEF QueuedAt
      <3> QED BY Zenon, <3>2, <1>1
    <2> QED BY Zenon, <2>4, <2>5
  <1>6. CASE pending # <<>> /\ pending' = Tail(pending)
    <2>1. /\ Len(pending) \in Nat /\ Len(pending) >= 1 /\ Len(pending') = Len(pending) - 1
          /\ \A i \in 1 .. Len(pending) - 1 : pending'[i] = pending[i + 1]
      BY Zenon, <1>6, QueueTypes
    <2> DEFINE A == QueuedAt(pending', k)
               B == QueuedAt(pending, k)
               next == [i \in A |-> i + 1]
    <2>2. A \subseteq 1 .. Len(pending) - 1
      BY Zenon, <2>1 DEF QueuedAt
    <2>3. \A i \in A : i + 1 \in B
      BY <2>1, <2>2 DEF QueuedAt
    <2> HIDE DEF A, B
    <2>4. next \in [A -> B]
      BY Zenon, <2>3
    <2>5. \A x, y \in A : next[x] = next[y] => x = y
      BY <2>1, <2>2
    <2>6. next \in Injection(A, B)
      BY Zenon, <2>4, <2>5 DEF Injection, IsInjective
    <2>7. IsFiniteSet(B)
      BY Zenon, <1>2 DEF B
    <2>8. IsFiniteSet(A) /\ Cardinality(A) <= Cardinality(B)
      BY Zenon, <2>6, <2>7, FS_Injection DEF ExistsInjection
    <2>9. Cardinality(A) \in Nat
      BY Zenon, <2>8, FS_CardinalityType
    <2> QED BY <2>8, <2>9, <1>1, <1>2 DEF A, B
  <1>7. \/ pending' = pending \/ pending' = <<>>
        \/ pending # <<>> /\ pending' = Tail(pending)
        \/ \E j \in Keys, r \in Records : WriteAsync(j, r)
    BY Zenon DEF Next, WriteSync, DrainAsync, ConfirmRepair, Admit, Reclaim, Crash, vars
  <1> QED BY Zenon, <1>3, <1>4, <1>5, <1>6, <1>7

(* A crash never loses more accepted writes of a key's namespace than the   *)
(* namespace allows, although one queue serves them all and is drained in   *)
(* one order (write, drain_async).                                          *)
THEOREM Loss == Spec => []LossIsBounded
  <1>1. Init => LossIsBounded
    <2> SUFFICES ASSUME Init, NEW k \in Keys
                 PROVE  Cardinality(QueuedAt(pending, k)) <= MaxLag[k]
      BY Zenon DEF LossIsBounded, QueuedAt
    <2>1. pending = <<>> /\ pending \in Seq({})
      BY DEF Init
    <2>2. /\ Cardinality(QueuedAt(pending, k)) \in Nat
          /\ Cardinality(QueuedAt(pending, k)) <= Len(pending)
      BY Zenon, <2>1, QueuedIsFinite
    <2>3. MaxLag[k] \in Nat /\ Len(pending) = 0
      BY Zenon, <2>1, DurableAssumption
    <2> QED BY <2>2, <2>3
  <1>2. DurableTypes /\ DurableTypes' /\ LossIsBounded /\ [Next]_vars => LossIsBounded'
    BY Zenon, StepBoundsLoss
  <1> QED BY <1>1, <1>2, AlwaysKept, PTL DEF Spec

-----------------------------------------------------------------------------
(* faults counts the failures, which the model bounds. *)
FaultBound == faults \in 0 .. MaxFaults

LEMMA FaultsAreBounded == Spec => []FaultBound
  <1>1. Init => FaultBound
    BY DurableAssumption DEF Init, FaultBound
  <1>2. FaultBound /\ [Next]_vars => FaultBound'
    <2> SUFFICES ASSUME FaultBound, [Next]_vars PROVE FaultBound'
      BY Zenon
    <2>1. faults' = faults \/ (faults < MaxFaults /\ faults' = faults + 1)
      <3>1. ASSUME NEW flushed \in BOOLEAN, Flush(flushed)
            PROVE  faults' = faults \/ (faults < MaxFaults /\ faults' = faults + 1)
        BY Zenon, <3>1 DEF Flush
      <3>2. ASSUME NEW k \in Keys, NEW r \in Records, NEW flushed \in BOOLEAN,
                   WriteSync(k, r, flushed)
            PROVE  Flush(flushed)
        BY Zenon, <3>2 DEF WriteSync, Upsert
      <3>3. ASSUME NEW flushed \in BOOLEAN, DrainAsync(flushed)
            PROVE  Flush(flushed)
        BY Zenon, <3>3 DEF DrainAsync, Upsert
      <3>4. ASSUME NEW k \in Keys, NEW flushed \in BOOLEAN, Reclaim(k, flushed)
            PROVE  Flush(flushed)
        BY Zenon, <3>4 DEF Reclaim, RemoveRecord
      <3>5. ASSUME NEW k \in Keys,
                   \/ ConfirmRepair(k) \/ \E confirmed \in BOOLEAN : Admit(k, confirmed)
                   \/ \E r \in Records : WriteAsync(k, r)
            PROVE  faults' = faults
        BY Zenon, <3>5 DEF ConfirmRepair, Admit, WriteAsync
      <3>6. Crash => faults < MaxFaults /\ faults' = faults + 1
        BY Zenon DEF Crash
      <3>7. UNCHANGED vars => faults' = faults
        BY Zenon DEF vars
      <3> QED BY Zenon, <3>1, <3>2, <3>3, <3>4, <3>5, <3>6, <3>7 DEF Next
    <2> QED BY <2>1, DurableAssumption DEF FaultBound
  <1> QED BY <1>1, <1>2, PTL DEF Spec

(* Every variable keeps its type; in particular the byte count, from which  *)
(* upsert and remove subtract, is never negative.                           *)
THEOREM DurableTypesHold == Spec => []TypeOK
  <1>1. /\ DurableTypes /\ BudgetIsExact /\ TrackerTypes /\ FaultBound
        => TypeOK
    BY Zenon, TotalIsNat DEF DurableTypes, BudgetIsExact, TrackerTypes, FaultBound, TypeOK
  <1> QED BY <1>1, AlwaysKept, Budget, AlwaysSettled, FaultsAreBounded, PTL
=============================================================================
