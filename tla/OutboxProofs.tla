---------------------------- MODULE OutboxProofs ----------------------------
(***************************************************************************)
(* The outbox's read-your-writes promise, for any number of workers, rows, *)
(* crashes and resets: a satisfied wait means that every invalidation of   *)
(* the commit was applied.                                                 *)
(***************************************************************************)
EXTENDS Outbox, TLAPS

\* The wait looks at the rows' states only, so the argument is about the marks: a row
\* is published only after a worker applied it, and a worker about to publish holds a
\* copy of a row it applied, whatever happened to the row since.
OutboxInv ==
    /\ TypeOK
    /\ \A w \in Workers : work[w].step # "next" => work[w].copy \in Copies
    /\ \A w \in Workers : work[w].step = "publish" => work[w].copy.id \in applied
    /\ \A id \in Ids : row[id].state = "published" => id \in applied
    /\ SatisfiedMeansApplied

LEMMA NewRowType == NewRow \in Rows /\ NoRow \in Rows
  BY OutboxAssumption DEF NewRow, NoRow, Rows

LEMMA LessType == \A m \in Nat : \A n \in 0 .. m : Less(n) \in 0 .. m
  BY DEF Less

LEMMA MarkTypes ==
    ASSUME NEW r \in Rows, NEW dead \in BOOLEAN
    PROVE  /\ Published(r) \in Rows /\ Published(r).state = "published"
           /\ Failed(r, dead) \in Rows /\ Failed(r, dead).state \in {"pending", "dead"}
  <1>1. /\ r.state \in {"absent", "pending", "published", "dead"}
        /\ r.delay \in 0 .. Backoff /\ r.claim \in 0 .. ClaimTtl /\ r.attempts \in Nat
    BY Zenon DEF Rows
  <1>2. 0 \in 0 .. ClaimTtl /\ Backoff \in 0 .. Backoff
    BY OutboxAssumption
  <1>3. Published(r) \in Rows /\ Published(r).state = "published"
    BY Zenon, <1>2 DEF Rows, Published
  <1>4. Failed(r, dead) \in Rows /\ Failed(r, dead).state \in {"pending", "dead"}
    BY <1>1, <1>2 DEF Rows, Failed
  <1> QED BY Zenon, <1>3, <1>4

LEMMA InitHolds == Init => OutboxInv
  <1> SUFFICES ASSUME Init PROVE OutboxInv BY Zenon
  <1>1. TypeOK
    BY NewRowType, OutboxAssumption DEF Init, TypeOK, Rest, Steps, Outcomes
  <1> QED BY Zenon, <1>1 DEF Init, OutboxInv, SatisfiedMeansApplied, Rest, NoRow, NewRow

\* Every action keeps the invariant.  An action that leaves the rows and the workers'
\* steps alone keeps it by what it does to the rest.
LEMMA StepHolds == OutboxInv /\ [Next]_vars => OutboxInv'
  <1> SUFFICES ASSUME OutboxInv, [Next]_vars PROVE OutboxInv' BY Zenon
  <1> DEFINE Jobs == [rows : SUBSET Copies, step : Steps, copy : Copies \union {NoCopy}]
  <1>0. /\ row \in [Ids -> Rows] /\ work \in [Workers -> Jobs]
        /\ applied \in SUBSET Ids /\ wait \in [Commits -> Outcomes]
        /\ stops \in 0 .. MaxStops /\ resets \in 0 .. MaxResets
    BY Zenon DEF OutboxInv, TypeOK
  <1>a. ASSUME UNCHANGED <<work, applied, wait>>, row' \in [Ids -> Rows],
               \A id \in Ids : row'[id].state = "published" => row[id].state = "published",
               stops' \in 0 .. MaxStops, resets' \in 0 .. MaxResets
        PROVE  OutboxInv'
    BY Zenon, <1>a DEF OutboxInv, TypeOK, SatisfiedMeansApplied
  <1>1. CASE \E c \in Commits : Enqueue(c)
    <2>1. PICK c \in Commits : Enqueue(c) BY Zenon, <1>1
    <2>2. row' \in [Ids -> Rows] /\ UNCHANGED <<work, applied, wait, stops, resets>>
      BY Zenon, <1>0, <2>1, NewRowType DEF Enqueue
    <2>3. \A id \in Ids : row'[id].state = "published" => row[id].state = "published"
      BY Zenon, <2>1 DEF Enqueue, NewRow
    <2> QED BY Zenon, <1>0, <1>a, <2>2, <2>3
  <1>2. CASE Tick
    <2>1. ASSUME NEW id \in Ids
          PROVE  /\ [row[id] EXCEPT !.delay = Less(@), !.claim = Less(@)] \in Rows
                 /\ [row[id] EXCEPT !.delay = Less(@), !.claim = Less(@)].state = row[id].state
      <3>1. row[id] \in Rows BY Zenon, <1>0
      <3>2. Less(row[id].delay) \in 0 .. Backoff /\ Less(row[id].claim) \in 0 .. ClaimTtl
        BY Zenon, <3>1, LessType, OutboxAssumption DEF Rows
      <3> QED BY Zenon, <3>1, <3>2 DEF Rows
    <2>2. row' \in [Ids -> Rows] /\ UNCHANGED <<work, applied, wait, stops, resets>>
      BY Zenon, <2>1, <1>2 DEF Tick
    <2>3. \A id \in Ids : row'[id].state = "published" => row[id].state = "published"
      BY Zenon, <2>1, <1>2 DEF Tick
    <2> QED BY Zenon, <1>0, <1>a, <2>2, <2>3
  <1>3. CASE ResetDeadLetters
    <2>1. row' \in [Ids -> Rows] /\ UNCHANGED <<work, applied, wait, stops>>
      BY Zenon, <1>0, <1>3, NewRowType DEF ResetDeadLetters
    <2>2. resets' \in 0 .. MaxResets
      BY <1>0, <1>3, OutboxAssumption DEF ResetDeadLetters
    <2>3. \A id \in Ids : row'[id].state = "published" => row[id].state = "published"
      BY Zenon, <1>3 DEF ResetDeadLetters, NewRow
    <2> QED BY Zenon, <1>0, <1>a, <2>1, <2>2, <2>3
  <1>4. CASE \E c \in Commits : Wait(c)
    <2>1. PICK c \in Commits : Wait(c) BY Zenon, <1>4
    <2>2. UNCHANGED <<row, work, applied, stops, resets>> /\ wait' \in [Commits -> Outcomes]
      BY Zenon, <1>0, <2>1 DEF Wait, Outcomes
    <2>3. ASSUME NEW d \in Commits, wait'[d] = "satisfied" PROVE RowsOf(d) \subseteq applied
      <3>1. CASE d # c
        BY Zenon, <1>0, <2>1, <2>3, <3>1 DEF Wait, OutboxInv, SatisfiedMeansApplied
      <3>2. CASE d = c
        <4>1. \A id \in RowsOf(c) : row[id].state \notin {"absent", "pending", "dead"}
          BY Zenon, <1>0, <2>1, <2>3, <3>2 DEF Wait
        <4>2. \A id \in RowsOf(c) : id \in Ids /\ row[id].state = "published"
          BY Zenon, <1>0, <4>1 DEF RowsOf, Rows
        <4> QED BY Zenon, <3>2, <4>2 DEF OutboxInv
      <3> QED BY Zenon, <3>1, <3>2
    <2> QED BY Zenon, <1>0, <2>2, <2>3 DEF OutboxInv, TypeOK, SatisfiedMeansApplied
  <1>b. ASSUME NEW w \in Workers, NEW job \in Jobs, work' = [work EXCEPT ![w] = job],
               job.step # "next" => job.copy \in Copies,
               job.step = "publish" => job.copy.id \in applied',
               row' \in [Ids -> Rows], applied' \in SUBSET Ids, applied \subseteq applied',
               \A id \in Ids : row'[id].state = "published" => id \in applied',
               stops' \in 0 .. MaxStops, UNCHANGED <<wait, resets>>
        PROVE  OutboxInv'
    <2>1. TypeOK' BY Zenon, <1>0, <1>b DEF TypeOK
    <2>2. \A v \in Workers : /\ work'[v].step # "next" => work'[v].copy \in Copies
                             /\ work'[v].step = "publish" => work'[v].copy.id \in applied'
      BY Zenon, <1>0, <1>b DEF OutboxInv
    <2>3. SatisfiedMeansApplied'
      BY Zenon, <1>b DEF OutboxInv, SatisfiedMeansApplied
    <2> QED BY Zenon, <1>b, <2>1, <2>2, <2>3 DEF OutboxInv
  <1>5. CASE \E w \in Workers : Claim(w)
    <2>1. PICK w \in Workers : Claim(w) BY Zenon, <1>5
    <2>2. PICK S \in SUBSET Claimable :
             /\ row' = [id \in Ids |-> IF id \in S THEN [row[id] EXCEPT !.claim = ClaimTtl]
                                                   ELSE row[id]]
             /\ work' = [work EXCEPT ![w].rows =
                            {[id |-> id, attempts |-> row[id].attempts] : id \in S}]
      BY Zenon, <2>1 DEF Claim
    <2> DEFINE copies == {[id |-> id, attempts |-> row[id].attempts] : id \in S}
               job == [work[w] EXCEPT !.rows = copies]
    <2>3. copies \in SUBSET Copies
      BY <1>0 DEF Claimable, Copies, Rows
    <2>4. work[w] \in Jobs /\ work[w].step = "next"
      BY <1>0, <2>1 DEF Claim, Rest
    <2>5. job \in Jobs /\ job.step = "next"
      BY Zenon, <2>3, <2>4
    <2>6. work' = [work EXCEPT ![w] = job]
      BY Zenon, <1>0, <2>2
    <2>7. row' \in [Ids -> Rows]
          /\ \A id \in Ids : row'[id].state = row[id].state
      <3>1. \A id \in Ids : /\ [row[id] EXCEPT !.claim = ClaimTtl] \in Rows
                            /\ [row[id] EXCEPT !.claim = ClaimTtl].state = row[id].state
        <4>1. ClaimTtl \in 0 .. ClaimTtl
          BY OutboxAssumption
        <4> QED BY Zenon, <1>0, <4>1 DEF Rows
      <3> QED BY Zenon, <1>0, <2>2, <3>1
    <2>8. UNCHANGED <<applied, wait, stops, resets>>
      BY Zenon, <2>1 DEF Claim
    <2>9. \A id \in Ids : row'[id].state = "published" => id \in applied'
      BY Zenon, <2>7, <2>8 DEF OutboxInv
    <2> HIDE DEF job, Jobs
    <2> QED BY Zenon, <1>0, <1>b, <2>5, <2>6, <2>7, <2>8, <2>9
  <1>6. CASE \E w \in Workers : Apply(w)
    <2>1. PICK w \in Workers : Apply(w) BY Zenon, <1>6
    <2>2. PICK copy \in work[w].rows, step \in {"publish", "fail"} :
             /\ work' = [work EXCEPT ![w] = [rows |-> @.rows \ {copy}, step |-> step, copy |-> copy]]
             /\ applied' = IF step = "publish" THEN applied \union {copy.id} ELSE applied
      BY Zenon, <2>1 DEF Apply
    <2> DEFINE job == [rows |-> work[w].rows \ {copy}, step |-> step, copy |-> copy]
    <2>3. copy \in Copies /\ copy.id \in Ids /\ work[w].rows \in SUBSET Copies
      BY <1>0 DEF Copies
    <2>4. /\ job \in Jobs /\ job.copy \in Copies /\ job.step = step /\ job.copy = copy
      BY Zenon, <2>3 DEF Steps
    <2>5. applied' \in SUBSET Ids /\ applied \subseteq applied'
          /\ (job.step = "publish" => job.copy.id \in applied')
      BY Zenon, <1>0, <2>2, <2>3, <2>4
    <2>6. work' = [work EXCEPT ![w] = job] BY Zenon, <1>0, <2>2
    <2>7. UNCHANGED <<row, wait, stops, resets>> BY Zenon, <2>1 DEF Apply
    <2>8. \A id \in Ids : row'[id].state = "published" => id \in applied'
      BY Zenon, <2>5, <2>7 DEF OutboxInv
    <2> HIDE DEF job, Jobs
    <2> QED BY Zenon, <1>0, <1>b, <2>4, <2>5, <2>6, <2>7, <2>8
  <1>c. ASSUME NEW w \in Workers, NextRow(w)
        PROVE  \E job \in Jobs : job.step = "next" /\ work' = [work EXCEPT ![w] = job]
    <2> DEFINE job == [rows |-> work[w].rows, step |-> "next", copy |-> NoCopy]
    <2>1. work[w] \in Jobs BY Zenon, <1>0
    <2>2. job \in Jobs /\ job.step = "next" BY Zenon, <2>1 DEF Steps
    <2>3. work' = [work EXCEPT ![w] = job] BY Zenon, <1>c, <1>0, <2>1 DEF NextRow
    <2> QED BY Zenon, <2>2, <2>3
  <1>d. ASSUME NEW w \in Workers, work[w].step # "next" PROVE work[w].copy.id \in Ids
    BY Zenon, <1>d DEF OutboxInv, Copies
  <1>7. CASE \E w \in Workers : MarkPublished(w)
    <2>1. PICK w \in Workers : MarkPublished(w) BY Zenon, <1>7
    <2>2. PICK job \in Jobs : job.step = "next" /\ work' = [work EXCEPT ![w] = job]
      BY Zenon, <2>1, <1>c DEF MarkPublished
    <2>3. work[w].copy.id \in Ids /\ work[w].copy.id \in applied
      BY Zenon, <2>1, <1>d DEF MarkPublished, OutboxInv
    <2>4. row' = [row EXCEPT ![work[w].copy.id] = Published(row[work[w].copy.id])]
          /\ UNCHANGED <<applied, wait, stops, resets>>
      BY Zenon, <2>1 DEF MarkPublished
    <2>5. row' \in [Ids -> Rows]
      <3>1. Published(row[work[w].copy.id]) \in Rows
        <4>1. row[work[w].copy.id] \in Rows
          BY Zenon, <1>0, <2>3
        <4> QED BY Zenon, <4>1, MarkTypes
      <3> QED BY Zenon, <1>0, <2>3, <2>4, <3>1
    <2>6. \A id \in Ids : row'[id].state = "published" => id \in applied'
      BY Zenon, <1>0, <2>3, <2>4 DEF OutboxInv
    <2> HIDE DEF Jobs
    <2> QED BY Zenon, <1>0, <1>b, <2>2, <2>4, <2>5, <2>6
  <1>8. CASE \E w \in Workers : MarkFailed(w)
    <2>1. PICK w \in Workers : MarkFailed(w) BY Zenon, <1>8
    <2>2. PICK job \in Jobs : job.step = "next" /\ work' = [work EXCEPT ![w] = job]
      BY Zenon, <2>1, <1>c DEF MarkFailed
    <2>3. work[w].copy.id \in Ids
      BY Zenon, <2>1, <1>d DEF MarkFailed
    <2>4. row' = [row EXCEPT ![work[w].copy.id] = Failed(row[work[w].copy.id], Exhausted(w))]
          /\ UNCHANGED <<applied, wait, stops, resets>>
      BY Zenon, <2>1 DEF MarkFailed
    <2>5. Exhausted(w) \in BOOLEAN BY DEF Exhausted
    <2>6. row' \in [Ids -> Rows]
      <3>1. Failed(row[work[w].copy.id], Exhausted(w)) \in Rows
        <4>1. row[work[w].copy.id] \in Rows
          BY Zenon, <1>0, <2>3
        <4> QED BY Zenon, <4>1, <2>5, MarkTypes
      <3> QED BY Zenon, <1>0, <2>3, <2>4, <3>1
    <2>7. \A id \in Ids : row'[id].state = "published" => id \in applied'
      BY Zenon, <1>0, <2>3, <2>4, <2>5, MarkTypes DEF OutboxInv
    <2> HIDE DEF Jobs
    <2> QED BY Zenon, <1>0, <1>b, <2>2, <2>4, <2>6, <2>7
  <1>9. CASE \E w \in Workers : Stop(w)
    <2>1. PICK w \in Workers : Stop(w) BY Zenon, <1>9
    <2>2. work' = [work EXCEPT ![w] = Rest] /\ UNCHANGED <<row, applied, wait, resets>>
      BY Zenon, <2>1 DEF Stop
    <2>3. stops' \in 0 .. MaxStops
      BY <1>0, <2>1, OutboxAssumption DEF Stop
    <2>4. Rest \in Jobs /\ Rest.step = "next"
      BY Zenon DEF Rest, Steps
    <2>5. \A id \in Ids : row'[id].state = "published" => id \in applied'
      BY Zenon, <2>2 DEF OutboxInv
    <2> HIDE DEF Jobs
    <2> QED BY Zenon, <1>0, <1>b, <2>2, <2>3, <2>4, <2>5
  <1>10. CASE UNCHANGED vars
    BY Zenon, <1>10 DEF vars, OutboxInv, TypeOK, SatisfiedMeansApplied
  <1> QED
    BY Zenon, <1>1, <1>2, <1>3, <1>4, <1>5, <1>6, <1>7, <1>8, <1>9, <1>10 DEF Next

\* Under any interleaving of the workers, their crashes, the resets and the clock, the
\* outbox's state keeps its types.
THEOREM OutboxTypes == Spec => []TypeOK
  BY InitHolds, StepHolds, PTL DEF Spec, OutboxInv

\* InvalidationWait reports a commit satisfied only when every invalidation of its
\* transaction was applied, for every number of workers, rows, crashes and resets.
THEOREM ReadYourWrites == Spec => []SatisfiedMeansApplied
  BY InitHolds, StepHolds, PTL DEF Spec, OutboxInv
=============================================================================
