------------------------- MODULE RaftMetadataProofs -------------------------
(***************************************************************************)
(* Proofs about RaftMetadata, for any number of runtimes, nodes and         *)
(* generations and logs of any length: commands take effect once, none is   *)
(* forgotten, the topology stamp fences the members (from the inductive     *)
(* invariant RaftInv), and runtimes that applied the same entries, in       *)
(* batches or by a snapshot, have one view (from RaftInv and ViewInv).      *)
(*                                                                          *)
(* stage_metadata_snapshot and restore_committed_state walk over many       *)
(* commands.  Both are recursive functions over an interval; that such a    *)
(* function exists, and what its links preserve, follows by induction from  *)
(* the least element of a set of naturals.                                  *)
(***************************************************************************)
EXTENDS RaftMetadata, TLAPS

-----------------------------------------------------------------------------
Cmds == Upserts \cup Leaves

(* What a step of a running process may do to the stamp of its image. *)
Fenced(m, r) ==
    /\ r.stamp >= m.stamp
    /\ r.members # m.members => r.stamp > m.stamp

LEMMA EmptyIsImage == EmptyImage \in Images
  BY Zenon DEF EmptyImage, Images, Entry, Absent

LEMMA FailedIsNoImage == Failed \notin Images
  BY Zenon DEF Failed, Images

LEMMA CommandKinds ==
    ASSUME NEW c \in Cmds
    PROVE  \/ c.kind = "member" /\ c \in Upserts
           \/ c.kind = "client" /\ c \in Upserts
           \/ c.kind = "left" /\ c \in Leaves
  BY Zenon DEF Cmds, Upserts, Leaves, Roles

LEMMA CommandFields ==
    /\ \A c \in Upserts : c.node \in Names /\ c.generation \in Generations
    /\ \A c \in Leaves : c.node \in Names /\ c.role \in Roles /\ c.epoch \in Nat
  BY Zenon DEF Upserts, Leaves

LEMMA ImageFields ==
    ASSUME NEW m \in Images
    PROVE  /\ m.members \in [Names -> Entry] /\ m.clients \in [Names -> Entry]
           /\ m.epoch \in Nat /\ m.stamp \in Nat
           /\ m = [members |-> m.members, clients |-> m.clients,
                   epoch |-> m.epoch, stamp |-> m.stamp]
  BY Zenon DEF Images

LEMMA EntryFields ==
    ASSUME NEW e \in Entry
    PROVE  /\ e.generation \in Nat /\ e.epoch \in Nat
           /\ e # Absent => e.generation \in Generations
           /\ e.generation = 0 <=> e = Absent
  BY GenerationAssumption DEF Entry, Absent, Generations

(* The operations of the membership lead from image to image. *)
LEMMA JoinMemberType ==
    ASSUME NEW m \in Images, NEW x \in Names, NEW g \in Generations
    PROVE  /\ JoinMember(m, x, g) \in Images
           /\ JoinMember(m, x, g).epoch >= m.epoch
           /\ AdvancesEpoch(m, x, g) => Fenced(m, JoinMember(m, x, g))
  <1> DEFINE step == IF AdvancesEpoch(m, x, g) THEN 1 ELSE 0
             e == [generation |-> g, epoch |-> m.epoch + step]
             ms == [m.members EXCEPT ![x] = e]
             cs == [m.clients EXCEPT ![x] = Absent]
  <1>1. /\ m.members \in [Names -> Entry] /\ m.clients \in [Names -> Entry]
        /\ m.epoch \in Nat /\ m.stamp \in Nat
    BY Zenon, ImageFields
  <1>2. step \in {0, 1}
    BY Zenon
  <1> HIDE DEF step
  <1>3. e \in Entry /\ Absent \in Entry
    BY <1>1, <1>2 DEF Entry
  <1> HIDE DEF e
  <1>4. ms \in [Names -> Entry] /\ cs \in [Names -> Entry]
    BY Zenon, <1>1, <1>3
  <1> HIDE DEF ms, cs
  <1>5. JoinMember(m, x, g) = [members |-> ms, clients |-> cs,
                               epoch |-> m.epoch + step, stamp |-> m.stamp + step]
    BY Zenon DEF JoinMember, ms, cs, e, step
  <1>6. m.epoch + step \in Nat /\ m.stamp + step \in Nat
    BY <1>1, <1>2
  <1>7. JoinMember(m, x, g) \in Images
    BY <1>4, <1>5, <1>6 DEF Images
  <1>8. AdvancesEpoch(m, x, g) => step = 1
    BY Zenon DEF step
  <1> QED BY <1>1, <1>2, <1>5, <1>7, <1>8 DEF Fenced

LEMMA JoinClientType ==
    ASSUME NEW m \in Images, NEW x \in Names, NEW g \in Generations
    PROVE  /\ JoinClient(m, x, g) \in Images
           /\ JoinClient(m, x, g).epoch = m.epoch
           /\ Fenced(m, JoinClient(m, x, g))
  <1> DEFINE e == [generation |-> g, epoch |-> m.epoch]
             cs == [m.clients EXCEPT ![x] = e]
  <1>1. /\ m.members \in [Names -> Entry] /\ m.clients \in [Names -> Entry]
        /\ m.epoch \in Nat /\ m.stamp \in Nat
    BY Zenon, ImageFields
  <1>2. e \in Entry
    BY Zenon, <1>1 DEF Entry
  <1>3. JoinClient(m, x, g) = [members |-> m.members, clients |-> cs,
                               epoch |-> m.epoch, stamp |-> m.stamp]
    BY DEF JoinClient, Images
  <1> HIDE DEF e
  <1>4. cs \in [Names -> Entry]
    BY Zenon, <1>1, <1>2
  <1> HIDE DEF cs
  <1> QED BY <1>1, <1>3, <1>4 DEF Images, Fenced

LEMMA LeaveType ==
    ASSUME NEW m \in Images, NEW x \in Names
    PROVE  /\ Leave(m, x) \in Images
           /\ Leave(m, x).epoch >= m.epoch
           /\ Fenced(m, Leave(m, x))
  <1> DEFINE step == IF IsMember(m, x) THEN 1 ELSE 0
             ms == [m.members EXCEPT ![x] = Absent]
             cs == [m.clients EXCEPT ![x] = Absent]
  <1>1. /\ m.members \in [Names -> Entry] /\ m.clients \in [Names -> Entry]
        /\ m.epoch \in Nat /\ m.stamp \in Nat /\ Absent \in Entry
    BY Zenon, ImageFields DEF Entry
  <1>2. step \in {0, 1}
    BY Zenon
  <1>3. step = 0 => ms = m.members
    BY <1>1 DEF IsMember
  <1>4. ms \in [Names -> Entry] /\ cs \in [Names -> Entry]
    BY Zenon, <1>1
  <1>5. Leave(m, x) = [members |-> ms, clients |-> cs,
                       epoch |-> m.epoch + step, stamp |-> m.stamp + step]
    BY Zenon DEF Leave
  <1> HIDE DEF ms, cs, step
  <1>6. m.epoch + step \in Nat /\ m.stamp + step \in Nat
    BY <1>1, <1>2
  <1>7. Leave(m, x) \in Images
    BY <1>4, <1>5, <1>6 DEF Images
  <1> QED BY <1>1, <1>2, <1>3, <1>5, <1>7 DEF Fenced

(* materialize_command answers an image, or fails. *)
LEMMA MaterializeType ==
    ASSUME NEW m \in Images, NEW c \in Cmds
    PROVE  Materialize(m, c) \in Images \cup {Failed}
  <1>1. CASE c.kind = "member" /\ c \in Upserts
    BY Zenon, <1>1, JoinMemberType, CommandFields DEF Materialize
  <1>2. CASE c.kind = "client" /\ c \in Upserts
    BY Zenon, <1>2, JoinClientType, CommandFields DEF Materialize
  <1>3. CASE c.kind = "left" /\ c \in Leaves
    BY Zenon, <1>3, LeaveType, CommandFields DEF Materialize
  <1> QED BY Zenon, <1>1, <1>2, <1>3, CommandKinds

LEMMA SnapshotType ==
    ASSUME NEW m \in Images, NEW c \in Cmds
    PROVE  MaterializeSnapshot(m, c) \in Images \cup {Failed}
  BY Zenon, MaterializeType DEF MaterializeSnapshot

(* A committed command that succeeds leaves an image under a later stamp if *)
(* it changed the members: the skip of an upsert that is already there is   *)
(* what keeps its entry.                                                    *)
LEMMA CommittedType ==
    ASSUME NEW m \in Images, NEW c \in Cmds, MaterializeCommitted(m, c) # Failed
    PROVE  /\ MaterializeCommitted(m, c) \in Images
           /\ MaterializeCommitted(m, c).epoch >= m.epoch
           /\ Fenced(m, MaterializeCommitted(m, c))
  <1> DEFINE r == MaterializeCommitted(m, c)
  <1>0. m.epoch \in Nat /\ m.stamp \in Nat
    BY Zenon, ImageFields
  <1>1. CASE r = m
    BY <1>0, <1>1 DEF Fenced
  <1>2. CASE r # m
    <2>0. r = Materialize(m, c)
      BY Zenon, <1>2 DEF MaterializeCommitted
    <2>1. CASE c.kind = "member" /\ c \in Upserts
      <3>1. c.node \in Names /\ c.generation \in Generations
        BY Zenon, <2>1, CommandFields
      <3>2. ~(m.members[c.node].generation >= c.generation)
        BY Zenon, <1>2, <2>1 DEF MaterializeCommitted
      <3>3. m.members[c.node].generation \in Nat /\ c.generation \in Nat
        BY <3>1, ImageFields, EntryFields, GenerationAssumption DEF Generations
      <3>4. AdvancesEpoch(m, c.node, c.generation)
        BY <3>2, <3>3 DEF AdvancesEpoch
      <3>5. r = JoinMember(m, c.node, c.generation)
        BY Zenon, <2>0, <2>1 DEF Materialize
      <3> QED BY Zenon, <3>1, <3>4, <3>5, JoinMemberType
    <2>2. CASE c.kind = "client" /\ c \in Upserts
      <3>1. c.node \in Names /\ c.generation \in Generations
        BY Zenon, <2>2, CommandFields
      <3>2. r = JoinClient(m, c.node, c.generation)
        BY Zenon, <2>0, <2>2 DEF Materialize
      <3>3. r \in Images /\ r.epoch = m.epoch /\ Fenced(m, r)
        BY Zenon, <3>1, <3>2, JoinClientType
      <3> QED BY <1>0, <3>3
    <2>3. CASE c.kind = "left" /\ c \in Leaves
      <3>1. c.node \in Names
        BY Zenon, <2>3, CommandFields
      <3>2. r = Leave(m, c.node)
        BY Zenon, <1>2, <2>0, <2>3 DEF Materialize
      <3> QED BY Zenon, <3>1, <3>2, LeaveType
    <2> QED BY Zenon, <2>1, <2>2, <2>3, CommandKinds
  <1> QED BY Zenon, <1>1, <1>2

(* replace_membership_from keeps the stamp a fence as well. *)
LEMMA ReplaceType ==
    ASSUME NEW m \in Images, NEW staged \in Images
    PROVE  /\ ReplaceMembership(m, staged) \in Images
           /\ Fenced(m, ReplaceMembership(m, staged))
  <1> DEFINE high == IF m.stamp > staged.stamp THEN m.stamp ELSE staged.stamp
             bump == IF staged.members # m.members /\ high = m.stamp THEN 1 ELSE 0
  <1>1. m.stamp \in Nat /\ staged.stamp \in Nat
    BY Zenon, ImageFields
  <1>2. high \in Nat /\ bump \in {0, 1} /\ high >= m.stamp
    BY <1>1
  <1>3. staged.members # m.members => high + bump > m.stamp
    BY <1>1
  <1> HIDE DEF high, bump
  <1>4. ReplaceMembership(m, staged) =
          [members |-> staged.members, clients |-> staged.clients,
           epoch |-> staged.epoch, stamp |-> high + bump]
    BY DEF ReplaceMembership, Images, high, bump
  <1>5. high + bump \in Nat /\ high + bump >= m.stamp
    BY <1>1, <1>2
  <1> QED BY <1>3, <1>4, <1>5, ImageFields DEF Images, Fenced

-----------------------------------------------------------------------------
(* Two images show the same view: all but the stamp, which is local to a    *)
(* process.                                                                 *)
Agree(m, s) == m.members = s.members /\ m.clients = s.clients /\ m.epoch = s.epoch

LEMMA AgreeIsView ==
    ASSUME NEW m \in Images, NEW s \in Images, Agree(m, s)
    PROVE  [m EXCEPT !.stamp = 0] = [s EXCEPT !.stamp = 0]
  BY Zenon, ImageFields DEF Agree, Images

LEMMA ReplaceAgrees ==
    ASSUME NEW m \in Images, NEW staged \in Images
    PROVE  Agree(ReplaceMembership(m, staged), staged)
  BY Zenon, ImageFields DEF ReplaceMembership, Agree, Images

LEMMA MaterializeAgrees ==
    ASSUME NEW m \in Images, NEW s \in Images, Agree(m, s), NEW c \in Cmds
    PROVE  /\ Materialize(m, c) = Failed <=> Materialize(s, c) = Failed
           /\ Materialize(m, c) # Failed => Agree(Materialize(m, c), Materialize(s, c))
    (* No operation of the membership reads the stamp, but to advance it. *)
  <1>OperationsAgree.
        ASSUME NEW p \in Images, NEW q \in Images, Agree(p, q),
               NEW x \in Names, NEW g \in Generations
        PROVE  /\ CanJoin(p, x, g) <=> CanJoin(q, x, g)
               /\ IsPresent(p, x) <=> IsPresent(q, x)
               /\ Agree(JoinMember(p, x, g), JoinMember(q, x, g))
               /\ Agree(JoinClient(p, x, g), JoinClient(q, x, g))
               /\ Agree(Leave(p, x), Leave(q, x))
    <2> USE <1>OperationsAgree
    <2>1. p.members = q.members /\ p.clients = q.clients /\ p.epoch = q.epoch
      BY Zenon DEF Agree
    <2>2. (CanJoin(p, x, g) <=> CanJoin(q, x, g)) /\ (IsPresent(p, x) <=> IsPresent(q, x))
      BY <2>1, Zenon DEF CanJoin, CurrentGeneration, IsPresent, IsMember, IsClient
    <2>3. Agree(JoinMember(p, x, g), JoinMember(q, x, g))
      BY Zenon, <2>1 DEF Agree, JoinMember, AdvancesEpoch
    <2>4. Agree(JoinClient(p, x, g), JoinClient(q, x, g))
      BY Zenon, <2>1 DEF Agree, JoinClient, Images
    <2>5. Agree(Leave(p, x), Leave(q, x))
      BY Zenon, <2>1 DEF Agree, Leave, IsMember
    <2> QED BY <2>2, <2>3, <2>4, <2>5, Zenon
  <1>1. CASE c.kind = "member" /\ c \in Upserts
    <2>1. c.node \in Names /\ c.generation \in Generations
      BY Zenon, <1>1, CommandFields
    <2>2. /\ JoinMember(m, c.node, c.generation) # Failed
          /\ JoinMember(s, c.node, c.generation) # Failed
      BY Zenon, <2>1, JoinMemberType, FailedIsNoImage
    <2> QED BY Zenon, <1>1, <2>1, <2>2, <1>OperationsAgree DEF Materialize
  <1>2. CASE c.kind = "client" /\ c \in Upserts
    <2>1. c.node \in Names /\ c.generation \in Generations
      BY Zenon, <1>2, CommandFields
    <2>2. /\ JoinClient(m, c.node, c.generation) # Failed
          /\ JoinClient(s, c.node, c.generation) # Failed
      BY Zenon, <2>1, JoinClientType, FailedIsNoImage
    <2> QED BY Zenon, <1>2, <2>1, <2>2, <1>OperationsAgree DEF Materialize
  <1>3. CASE c.kind = "left" /\ c \in Leaves
    <2>1. c.node \in Names /\ 1 \in Generations
      BY <1>3, CommandFields, GenerationAssumption DEF Generations
    <2>2. Leave(m, c.node) # Failed /\ Leave(s, c.node) # Failed /\ m # Failed /\ s # Failed
      BY Zenon, <2>1, LeaveType, FailedIsNoImage
    <2> QED BY Zenon, <1>3, <2>1, <2>2, <1>OperationsAgree DEF Materialize
  <1> QED BY Zenon, <1>1, <1>2, <1>3, CommandKinds

LEMMA CommittedAgrees ==
    ASSUME NEW m \in Images, NEW s \in Images, Agree(m, s), NEW c \in Cmds,
           MaterializeCommitted(s, c) # Failed
    PROVE  /\ MaterializeCommitted(m, c) # Failed
           /\ Agree(MaterializeCommitted(m, c), MaterializeCommitted(s, c))
  <1>1. m # Failed
    BY Zenon, FailedIsNoImage
  <1> QED BY <1>1, MaterializeAgrees, Zenon DEF MaterializeCommitted, Agree

(* The command asks nothing of a node that is there in the other role, and  *)
(* none that repeats what the role's map holds.                             *)
Fits(m, c) ==
    /\ c.kind = "member" => /\ m.clients[c.node] = Absent
                            /\ m.members[c.node].generation # c.generation
    /\ c.kind = "client" => /\ m.members[c.node] = Absent
                            /\ m.clients[c.node].generation # c.generation

(* Where the snapshot's way of applying it succeeds, so does the committed  *)
(* way, with the same view: materialize_committed_command has no reason to  *)
(* skip it.                                                                 *)
LEMMA StagedIsLive ==
    ASSUME NEW m \in Images, NEW s \in Images, Agree(s, m), NEW c \in Cmds, Fits(m, c),
           MaterializeSnapshot(s, c) # Failed
    PROVE  Agree(MaterializeSnapshot(s, c), MaterializeCommitted(m, c))
  <1>1. MaterializeSnapshot(s, c) = Materialize(s, c)
    BY Zenon DEF MaterializeSnapshot
  <1>2. Materialize(m, c) # Failed /\ Agree(Materialize(s, c), Materialize(m, c))
    BY Zenon, <1>1, MaterializeAgrees
  <1>3. MaterializeCommitted(m, c) = Materialize(m, c)
    <2>1. CASE c.kind = "member" /\ c \in Upserts
      <3>1. c.node \in Names /\ c.generation \in Generations /\ c.generation \in Nat
        BY <2>1, CommandFields, GenerationAssumption DEF Generations
      <3>2. /\ m.members[c.node].generation \in Nat
            /\ m.members[c.node] = Absent => m.members[c.node].generation = 0
        BY Zenon, <3>1, ImageFields, EntryFields
      <3>3. CanJoin(m, c.node, c.generation)
        BY Zenon, <1>2, <2>1 DEF Materialize
      <3>4. ~(m.members[c.node].generation >= c.generation)
        BY <2>1, <3>1, <3>2, <3>3, GenerationAssumption
           DEF CanJoin, CurrentGeneration, IsMember, Fits, Generations
      <3> QED BY Zenon, <2>1, <3>4 DEF MaterializeCommitted
    <2>2. CASE c.kind = "client" /\ c \in Upserts
      <3>1. c.node \in Names /\ c.generation \in Generations /\ c.generation \in Nat
        BY <2>2, CommandFields, GenerationAssumption DEF Generations
      <3>2. m.clients[c.node].generation \in Nat /\ ~IsMember(m, c.node)
        BY Zenon, <2>2, <3>1, ImageFields, EntryFields DEF Fits, IsMember
      <3>3. CanJoin(m, c.node, c.generation)
        BY Zenon, <1>2, <2>2 DEF Materialize
      <3>4. ~(m.clients[c.node].generation >= c.generation)
        BY <2>2, <3>1, <3>2, <3>3 DEF CanJoin, CurrentGeneration, Fits
      <3> QED BY Zenon, <2>2, <3>4 DEF MaterializeCommitted
    <2>3. CASE c.kind = "left" /\ c \in Leaves
      BY Zenon, <2>3 DEF MaterializeCommitted
    <2> QED BY Zenon, <2>1, <2>2, <2>3, CommandKinds
  <1> QED BY Zenon, <1>1, <1>2, <1>3

(* Every entry of the image stems from an upsert with an id of K. *)
Known(m, K) ==
    \A x \in Names :
        /\ m.members[x] # Absent => <<"member", x, m.members[x].generation>> \in K
        /\ m.clients[x] # Absent => <<"client", x, m.clients[x].generation>> \in K

-----------------------------------------------------------------------------
Unique(cs) == \A i, j \in 1 .. Len(cs) : Id(cs[i]) = Id(cs[j]) => i = j

LEMMA AppendIds ==
    ASSUME NEW cs \in Seq(Cmds), NEW c \in Cmds
    PROVE  /\ IdsOf(Append(cs, c)) = IdsOf(cs) \cup {Id(c)}
           /\ Unique(cs) /\ Id(c) \notin IdsOf(cs) => Unique(Append(cs, c))
  <1> DEFINE d == Append(cs, c)
  <1>1. /\ Len(cs) \in Nat /\ Len(d) = Len(cs) + 1 /\ d[Len(cs) + 1] = c
        /\ \A i \in 1 .. Len(cs) : d[i] = cs[i]
    OBVIOUS
  <1> HIDE DEF d
  <1>2. \A i \in 1 .. Len(d) : i \in 1 .. Len(cs) \/ i = Len(cs) + 1
    BY <1>1
  <1>3. \A i \in 1 .. Len(cs) : i \in 1 .. Len(d)
    BY <1>1
  <1>4. Len(cs) + 1 \in 1 .. Len(d)
    BY <1>1
  <1>5. IdsOf(d) = IdsOf(cs) \cup {Id(c)}
    BY Zenon, <1>1, <1>2, <1>3, <1>4 DEF IdsOf
  <1>6. ASSUME Unique(cs), Id(c) \notin IdsOf(cs),
               NEW i \in 1 .. Len(d), NEW j \in 1 .. Len(d), Id(d[i]) = Id(d[j])
        PROVE  i = j
    <2>1. \A k \in 1 .. Len(cs) : Id(cs[k]) # Id(c)
      BY Zenon, <1>6 DEF IdsOf
    <2>2. CASE i \in 1 .. Len(cs) /\ j \in 1 .. Len(cs)
      BY Zenon, <2>2, <1>1, <1>6 DEF Unique
    <2>3. CASE i = Len(cs) + 1 /\ j \in 1 .. Len(cs)
      BY Zenon, <2>1, <2>3, <1>1, <1>6
    <2>4. CASE i \in 1 .. Len(cs) /\ j = Len(cs) + 1
      BY Zenon, <2>1, <2>4, <1>1, <1>6
    <2> QED BY Zenon, <2>2, <2>3, <2>4, <1>2, <1>6
  <1>7. Unique(cs) /\ Id(c) \notin IdsOf(cs) => Unique(d)
    BY Zenon, <1>6 DEF Unique
  <1> QED BY Zenon, <1>5, <1>7 DEF d

LEMMA EmptyIds == IdsOf(<<>>) = {} /\ Unique(<<>>) /\ <<>> \in Seq(Cmds)
  BY DEF IdsOf, Unique

-----------------------------------------------------------------------------
(* Induction over the naturals, for a set of them: the hypothesis of what    *)
(* follows, up to SetInduction.                                             *)
Induction ==
    \A T \in SUBSET Nat : 0 \in T /\ (\A n \in T : n + 1 \in T) => T = Nat

(* A walk from base, by step, over a .. b. *)
IsChain(f, a, b, base, step) ==
    /\ f[a] = base
    /\ \A i \in a + 1 .. b : f[i] = step[<<i, f[i - 1]>>]

(* A chain over an interval exists. *)
LEMMA ChainExists ==
    ASSUME Induction, NEW S, NEW a \in Nat, NEW b \in Nat, a <= b, NEW base \in S,
           NEW step \in [(a .. b) \X S -> S]
    PROVE  \E f \in [a .. b -> S] : IsChain(f, a, b, base, step)
  <1> DEFINE Chained(k) == \E f \in [a .. a + k -> S] : IsChain(f, a, a + k, base, step)
             T == {k \in Nat : a + k <= b => Chained(k)}
  <1>1. 0 \in T
    <2> DEFINE f == [i \in a .. a |-> base]
    <2>1. f \in [a .. a + 0 -> S] /\ f[a] = base /\ a + 1 .. a + 0 = {}
      OBVIOUS
    <2>2. IsChain(f, a, a + 0, base, step)
      BY Zenon, <2>1 DEF IsChain
    <2> HIDE DEF f
    <2> QED BY Zenon, <2>1, <2>2
  <1>2. ASSUME NEW k \in T PROVE k + 1 \in T
    <2> SUFFICES ASSUME a + (k + 1) <= b PROVE Chained(k + 1)
      OBVIOUS
    <2>1. k \in Nat /\ a + k <= b
      OBVIOUS
    <2>2. PICK f \in [a .. a + k -> S] : IsChain(f, a, a + k, base, step)
      BY Zenon, <2>1
    <2> DEFINE n == a + k + 1
               g == [i \in a .. a + (k + 1) |-> IF i = n THEN step[<<n, f[n - 1]>>] ELSE f[i]]
    <2>3. n \in a .. b /\ n - 1 \in a .. a + k /\ f[n - 1] \in S
      BY <2>1
    <2>4. step[<<n, f[n - 1]>>] \in S
      BY Zenon, <2>3
    <2>5. g \in [a .. a + (k + 1) -> S]
      BY <2>1, <2>4
    <2>6. ASSUME NEW i \in a .. a + k PROVE i # n /\ g[i] = f[i]
      BY <2>1
    <2>7. g[n] = step[<<n, f[n - 1]>>] /\ a \in a .. a + k
      BY <2>1
    <2> HIDE DEF g
    <2>8. g[a] = base
      BY Zenon, <2>2, <2>6, <2>7 DEF IsChain
    <2>9. ASSUME NEW i \in a + 1 .. a + (k + 1) PROVE g[i] = step[<<i, g[i - 1]>>]
      <3>1. i - 1 \in a .. a + k
        BY <2>1
      <3>2. g[i - 1] = f[i - 1]
        BY Zenon, <3>1, <2>6
      <3>3. CASE i = n
        BY Zenon, <3>2, <3>3, <2>7
      <3>4. CASE i # n
        <4>1. i \in a + 1 .. a + k /\ i \in a .. a + k
          BY <2>1, <3>4
        <4>2. f[i] = step[<<i, f[i - 1]>>]
          BY Zenon, <4>1, <2>2 DEF IsChain
        <4> QED BY Zenon, <4>1, <4>2, <3>2, <2>6
      <3> QED BY Zenon, <3>3, <3>4
    <2>10. IsChain(g, a, a + (k + 1), base, step)
      BY Zenon, <2>8, <2>9 DEF IsChain
    <2> QED BY Zenon, <2>5, <2>10
  <1>3. T \in SUBSET Nat
    BY Zenon
  <1> HIDE DEF T
  <1>4. T = Nat
    BY Zenon, <1>1, <1>2, <1>3 DEF Induction
  <1>5. b - a \in Nat /\ a + (b - a) = b
    OBVIOUS
  <1>6. Chained(b - a)
    <2> HIDE DEF Chained
    <2> QED BY <1>4, <1>5 DEF T
  <1> QED BY Zenon, <1>5, <1>6

(* What every link keeps holds all along. *)
LEMMA ChainKeeps ==
    ASSUME Induction, NEW f, NEW S, NEW a \in Nat, NEW b \in Nat, f[a] \in S[a],
           \A i \in a + 1 .. b : f[i - 1] \in S[i - 1] => f[i] \in S[i]
    PROVE  \A i \in a .. b : f[i] \in S[i]
  <1> DEFINE T == {k \in Nat : a + k <= b => f[a + k] \in S[a + k]}
  <1>1. 0 \in T
    OBVIOUS
  <1>2. ASSUME NEW k \in T PROVE k + 1 \in T
    <2> DEFINE i == a + k + 1
    <2>1. i - 1 = a + k /\ a + (k + 1) = i /\ k \in Nat
      OBVIOUS
    <2>2. ASSUME i <= b PROVE f[i] \in S[i]
      <3>1. i \in a + 1 .. b /\ a + k <= b
        BY <2>2, <2>1
      <3>2. f[i - 1] \in S[i - 1]
        BY Zenon, <3>1, <2>1
      <3> QED BY Zenon, <3>1, <3>2
    <2> QED BY <2>1, <2>2
  <1>3. T \in SUBSET Nat
    BY Zenon
  <1> HIDE DEF T
  <1>4. T = Nat
    BY Zenon, <1>1, <1>2, <1>3 DEF Induction
  <1>5. ASSUME NEW i \in a .. b PROVE f[i] \in S[i]
    <2>1. i - a \in Nat /\ a + (i - a) = i /\ i <= b
      OBVIOUS
    <2> QED BY <2>1, <1>4, Zenon DEF T
  <1> QED BY Zenon, <1>5

-----------------------------------------------------------------------------
StageOf(cs, at) ==
    at = [i \in 0 .. Len(cs) |->
            IF i = 0 THEN EmptyImage
            ELSE IF at[i - 1] = Failed THEN Failed
            ELSE MaterializeSnapshot(at[i - 1], cs[i])]

LEMMA StageUnfolds ==
    ASSUME NEW cs, Stage(cs) # Failed
    PROVE  /\ Stage(cs) = (CHOOSE at : StageOf(cs, at))[Len(cs)]
           /\ \A i, j \in 1 .. Len(cs) : i < j => Id(cs[i]) # Id(cs[j])
  BY Zenon DEF Stage, StageOf

LEMMA StageOfExists ==
    ASSUME Induction, NEW cs \in Seq(Cmds)
    PROVE  \E at : StageOf(cs, at)
  <1> DEFINE S == Images \cup {Failed}
             step == [p \in (0 .. Len(cs)) \X S |->
                        IF p[1] = 0 \/ p[2] = Failed THEN Failed
                        ELSE MaterializeSnapshot(p[2], cs[p[1]])]
  <1>1. Len(cs) \in Nat /\ 0 <= Len(cs) /\ 0 \in Nat /\ EmptyImage \in S
    BY EmptyIsImage
  <1>2. step \in [(0 .. Len(cs)) \X S -> S]
    <2>1. ASSUME NEW p \in (0 .. Len(cs)) \X S, p[1] # 0, p[2] # Failed
          PROVE  MaterializeSnapshot(p[2], cs[p[1]]) \in S
      <3>1. p[1] \in 1 .. Len(cs) /\ p[2] \in Images
        BY <1>1, <2>1
      <3>2. cs[p[1]] \in Cmds
        BY <3>1
      <3> QED BY Zenon, <3>1, <3>2, SnapshotType
    <2> QED BY Zenon, <2>1
  <1>3. ASSUME NEW i \in 0 .. Len(cs), NEW s \in S
        PROVE  step[<<i, s>>] = IF i = 0 \/ s = Failed THEN Failed
                                ELSE MaterializeSnapshot(s, cs[i])
    <2> HIDE DEF S
    <2> QED BY Zenon
  <1> HIDE DEF step, S
  <1>4. PICK at \in [0 .. Len(cs) -> S] : IsChain(at, 0, Len(cs), EmptyImage, step)
    BY ONLY Induction, <1>1, <1>2, ChainExists, Zenon
  <1>5. ASSUME NEW i \in 0 .. Len(cs)
        PROVE  at[i] = IF i = 0 THEN EmptyImage
                       ELSE IF at[i - 1] = Failed THEN Failed
                       ELSE MaterializeSnapshot(at[i - 1], cs[i])
    <2>1. CASE i = 0
      BY Zenon, <2>1, <1>4 DEF IsChain
    <2>2. CASE i # 0
      <3>1. i \in 0 + 1 .. Len(cs) /\ i - 1 \in 0 .. Len(cs)
        BY <2>2, <1>1
      <3>2. at[i] = step[<<i, at[i - 1]>>] /\ at[i - 1] \in S
        BY Zenon, <3>1, <1>4 DEF IsChain
      <3> QED BY Zenon, <2>2, <3>2, <1>3
    <2> QED BY Zenon, <2>1, <2>2
  <1>6. StageOf(cs, at)
    BY Zenon, <1>4, <1>5 DEF StageOf
  <1> QED BY Zenon, <1>6

(* stage_metadata_snapshot answers an image, and only for envelopes whose   *)
(* ids are all different.                                                   *)
LEMMA StageType ==
    ASSUME Induction, NEW cs \in Seq(Cmds), Stage(cs) # Failed
    PROVE  /\ Stage(cs) \in Images
           /\ \A i, j \in 1 .. Len(cs) : Id(cs[i]) = Id(cs[j]) => i = j
  <1> DEFINE at == CHOOSE f : StageOf(cs, f)
             S == [i \in 0 .. Len(cs) |-> Images \cup {Failed}]
  <1>1. StageOf(cs, at)
    BY Zenon, StageOfExists
  <1>2. Stage(cs) = at[Len(cs)] /\ Len(cs) \in Nat
    BY StageUnfolds
  <1> HIDE DEF at
  <1>3. at[0] \in S[0]
    BY <1>1, <1>2, EmptyIsImage DEF StageOf
  <1>4. ASSUME NEW i \in 0 + 1 .. Len(cs), at[i - 1] \in S[i - 1] PROVE at[i] \in S[i]
    <2>1. i \in 0 .. Len(cs) /\ i # 0 /\ i - 1 \in 0 .. Len(cs) /\ cs[i] \in Cmds
      BY <1>2
    <2>2. at[i - 1] \in Images \cup {Failed}
      BY Zenon, <1>4, <2>1
    <2>3. at[i] = IF at[i - 1] = Failed THEN Failed
                  ELSE MaterializeSnapshot(at[i - 1], cs[i])
      BY Zenon, <1>1, <2>1 DEF StageOf
    <2>4. at[i] \in Images \cup {Failed}
      BY Zenon, <2>1, <2>2, <2>3, SnapshotType
    <2> QED BY Zenon, <2>1, <2>4
  <1> HIDE DEF S
  <1>5. at[Len(cs)] \in S[Len(cs)]
    <2>1. \A i \in 0 .. Len(cs) : at[i] \in S[i]
      BY <1>2, <1>3, <1>4, ChainKeeps, Zenon
    <2> QED BY <2>1, <1>2
  <1>6. Stage(cs) \in Images
    BY <1>2, <1>5 DEF S
  <1>7. ASSUME NEW i \in 1 .. Len(cs), NEW j \in 1 .. Len(cs), Id(cs[i]) = Id(cs[j])
        PROVE  i = j
    <2>1. ~(i < j) /\ ~(j < i)
      BY Zenon, <1>7, StageUnfolds
    <2> QED BY <2>1, <1>2
  <1> QED BY Zenon, <1>6, <1>7

(* stage_metadata_snapshot goes on where the envelopes before the last one  *)
(* led it.                                                                  *)
LEMMA StageAppend ==
    ASSUME Induction, NEW cs \in Seq(Cmds), NEW c \in Cmds, Stage(Append(cs, c)) # Failed
    PROVE  /\ Stage(cs) # Failed
           /\ Stage(Append(cs, c)) = MaterializeSnapshot(Stage(cs), c)
  <1> DEFINE d == Append(cs, c)
             at == CHOOSE f : StageOf(d, f)
             bt == CHOOSE f : StageOf(cs, f)
             S == [i \in 0 .. Len(cs) |-> {at[i]}]
  <1>1. /\ d \in Seq(Cmds) /\ Len(cs) \in Nat /\ Len(d) = Len(cs) + 1
        /\ d[Len(cs) + 1] = c /\ \A i \in 1 .. Len(cs) : d[i] = cs[i]
    OBVIOUS
  <1>2. StageOf(d, at) /\ StageOf(cs, bt)
    BY <1>1, StageOfExists, Zenon
  <1>3. /\ Stage(d) # Failed /\ Stage(d) = at[Len(d)]
        /\ \A i, j \in 1 .. Len(d) : i < j => Id(d[i]) # Id(d[j])
    BY Zenon, StageUnfolds
  <1>4. Stage(cs) = bt[Len(cs)]
    <2>1. \A i, j \in 1 .. Len(cs) : i < j => Id(cs[i]) # Id(cs[j])
      BY <1>1, <1>3
    <2> QED BY Zenon, <2>1 DEF Stage, StageOf
  <1> HIDE DEF at, bt, d
  <1>5. \A i \in 0 .. Len(cs) : bt[i] = at[i]
    <2>1. bt[0] \in S[0]
      BY <1>1, <1>2 DEF StageOf
    <2>2. ASSUME NEW i \in 0 + 1 .. Len(cs), bt[i - 1] \in S[i - 1] PROVE bt[i] \in S[i]
      <3>1. /\ i \in 0 .. Len(cs) /\ i # 0 /\ i - 1 \in 0 .. Len(cs) /\ i \in 0 .. Len(d)
            /\ i \in 1 .. Len(cs)
        BY <1>1
      <3>2. bt[i - 1] = at[i - 1] /\ d[i] = cs[i]
        BY Zenon, <1>1, <2>2, <3>1
      <3>3. bt[i] = IF bt[i - 1] = Failed THEN Failed
                    ELSE MaterializeSnapshot(bt[i - 1], cs[i])
        BY Zenon, <1>2, <3>1 DEF StageOf
      <3>4. at[i] = IF at[i - 1] = Failed THEN Failed
                    ELSE MaterializeSnapshot(at[i - 1], d[i])
        BY Zenon, <1>2, <3>1 DEF StageOf
      <3>5. bt[i] = at[i]
        BY Zenon, <3>2, <3>3, <3>4
      <3> QED BY Zenon, <3>1, <3>5
    <2>3. ASSUME NEW i \in 0 .. Len(cs) PROVE S[i] = {at[i]}
      BY Zenon
    <2> HIDE DEF S
    <2>4. \A i \in 0 .. Len(cs) : bt[i] \in S[i]
      BY <1>1, <2>1, <2>2, ChainKeeps, Zenon
    <2> QED BY Zenon, <2>3, <2>4
  <1>6. at[Len(d)] = IF at[Len(cs)] = Failed THEN Failed
                     ELSE MaterializeSnapshot(at[Len(cs)], c)
    <2>1. Len(d) \in 0 .. Len(d) /\ Len(d) # 0 /\ Len(d) - 1 = Len(cs) /\ d[Len(d)] = c
      BY <1>1
    <2> QED BY Zenon, <1>2, <2>1 DEF StageOf
  <1>7. bt[Len(cs)] = at[Len(cs)]
    BY <1>1, <1>5
  <1> QED BY Zenon, <1>3, <1>4, <1>6, <1>7 DEF d

LEMMA StageOfNone ==
    ASSUME Induction, Stage(<<>>) # Failed
    PROVE  Stage(<<>>) = EmptyImage
  <1> DEFINE at == CHOOSE f : StageOf(<<>>, f)
  <1>1. StageOf(<<>>, at)
    BY StageOfExists, EmptyIds, Zenon
  <1>2. at[0] = EmptyImage
    <2> HIDE DEF at
    <2> QED BY <1>1 DEF StageOf
  <1> QED BY <1>2, StageUnfolds

-----------------------------------------------------------------------------
IdsUpTo(l, i) == {Id(l[j]) : j \in 1 .. i}

LEMMA IdsGrow ==
    ASSUME NEW i \in Nat
    PROVE  IdsUpTo(log, i + 1) = IdsUpTo(log, i) \cup {Id(log[i + 1])}
  <1>1. \A j \in 1 .. i + 1 : j \in 1 .. i \/ j = i + 1
    OBVIOUS
  <1>2. \A j \in 1 .. i : j \in 1 .. i + 1
    OBVIOUS
  <1>3. i + 1 \in 1 .. i + 1
    OBVIOUS
  <1> QED BY Zenon, <1>1, <1>2, <1>3 DEF IdsUpTo

(* The images that the committed log builds when it is applied one entry    *)
(* after the other, the repeated ids left out.                              *)
LiveTo(l, f) ==
    /\ f[0] = EmptyImage
    /\ \A i \in 1 .. Len(l) :
          f[i] = IF Id(l[i]) \in IdsUpTo(l, i - 1) THEN f[i - 1]
                 ELSE MaterializeCommitted(f[i - 1], l[i])

(* The envelopes cs are those of the first k entries, and build the same    *)
(* view when they can be staged.                                            *)
Builds(l, f, cs, k) ==
    /\ k \in 0 .. Len(l) /\ f[k] \in Images /\ Known(f[k], IdsUpTo(l, k))
    /\ IdsOf(cs) = IdsUpTo(l, k)
    /\ Stage(cs) # Failed => Agree(Stage(cs), f[k])

LEMMA LiveEntry ==
    ASSUME log \in Seq(Cmds), OneRole, NEW f, LiveTo(log, f), NEW i \in Nat,
           i + 1 \in 1 .. Len(log), f[i] \in Images, Known(f[i], IdsUpTo(log, i))
    PROVE  /\ f[i + 1] \in Images /\ Known(f[i + 1], IdsUpTo(log, i + 1))
           /\ Id(log[i + 1]) \in IdsUpTo(log, i) => f[i + 1] = f[i] /\ IdsUpTo(log, i + 1) = IdsUpTo(log, i)
           /\ Id(log[i + 1]) \notin IdsUpTo(log, i) =>
                 /\ f[i + 1] = MaterializeCommitted(f[i], log[i + 1])
                 /\ MaterializeCommitted(f[i], log[i + 1]) # Failed
                 /\ Fits(f[i], log[i + 1])
    (* Such a command does not fail (materialize_committed_command). *)
  <1>FittingSucceeds.
        ASSUME NEW m \in Images, NEW c \in Cmds, Fits(m, c)
        PROVE  MaterializeCommitted(m, c) # Failed
    <2> USE <1>FittingSucceeds
    <2>0. m # Failed
      BY Zenon, FailedIsNoImage
    <2>1. CASE c.kind = "member" /\ c \in Upserts
      <3>1. c.node \in Names /\ c.generation \in Generations /\ c.generation \in Nat
        BY <2>1, CommandFields, GenerationAssumption DEF Generations
      <3>2. /\ m.members[c.node].generation \in Nat
            /\ m.clients[c.node].generation = 0
        BY Zenon, <2>1, <3>1, ImageFields, EntryFields DEF Fits, Absent
      <3>3. JoinMember(m, c.node, c.generation) # Failed
        BY Zenon, <3>1, JoinMemberType, FailedIsNoImage
      <3>4. ASSUME ~(m.members[c.node].generation >= c.generation)
            PROVE  CanJoin(m, c.node, c.generation)
        BY <3>1, <3>2, <3>4 DEF CanJoin, CurrentGeneration
      <3> QED BY Zenon, <2>0, <2>1, <3>3, <3>4 DEF MaterializeCommitted, Materialize
    <2>2. CASE c.kind = "client" /\ c \in Upserts
      <3>1. c.node \in Names /\ c.generation \in Generations /\ c.generation \in Nat
        BY <2>2, CommandFields, GenerationAssumption DEF Generations
      <3>2. m.clients[c.node].generation \in Nat /\ ~IsMember(m, c.node)
        BY Zenon, <2>2, <3>1, ImageFields, EntryFields DEF Fits, IsMember
      <3>3. JoinClient(m, c.node, c.generation) # Failed
        BY Zenon, <3>1, JoinClientType, FailedIsNoImage
      <3>4. ASSUME ~(m.clients[c.node].generation >= c.generation)
            PROVE  CanJoin(m, c.node, c.generation)
        BY <3>1, <3>2, <3>4 DEF CanJoin, CurrentGeneration
      <3> QED BY Zenon, <2>0, <2>2, <3>3, <3>4 DEF MaterializeCommitted, Materialize
    <2>3. CASE c.kind = "left" /\ c \in Leaves
      <3>1. Leave(m, c.node) # Failed
        BY Zenon, <2>3, CommandFields, LeaveType, FailedIsNoImage
      <3> QED BY Zenon, <2>0, <2>3, <3>1 DEF MaterializeCommitted, Materialize
    <2> QED BY Zenon, <2>1, <2>2, <2>3, CommandKinds
  <1>StaysKnown.
        ASSUME NEW m \in Images, NEW c \in Cmds, NEW K, Known(m, K),
               MaterializeCommitted(m, c) # Failed
        PROVE  Known(MaterializeCommitted(m, c), K \cup {Id(c)})
    <2> USE <1>StaysKnown
    <2> DEFINE r == MaterializeCommitted(m, c)
    <2>1. CASE r = m
      BY <2>1, Zenon DEF Known
    <2>2. CASE r # m
      <3>0. r = Materialize(m, c)
        BY Zenon, <2>2 DEF MaterializeCommitted
      <3>f. m.members \in [Names -> Entry] /\ m.clients \in [Names -> Entry]
        BY Zenon, ImageFields
      <3>1. CASE c.kind = "member" /\ c \in Upserts
        <4>1. r = JoinMember(m, c.node, c.generation) /\ Id(c) = <<"member", c.node, c.generation>>
          BY Zenon, <3>0, <3>1 DEF Materialize, Id
        <4>2. ASSUME NEW x \in Names
              PROVE  /\ r.clients[x] = m.clients[x] \/ r.clients[x] = Absent
                     /\ x # c.node => r.members[x] = m.members[x]
                     /\ x = c.node => r.members[x].generation = c.generation
          BY <4>1, <3>f DEF JoinMember
        <4>3. ASSUME NEW x \in Names
              PROVE  /\ r.members[x] # Absent =>
                            <<"member", x, r.members[x].generation>> \in K \cup {Id(c)}
                     /\ r.clients[x] # Absent =>
                            <<"client", x, r.clients[x].generation>> \in K \cup {Id(c)}
          <5> HIDE DEF r
          <5>1. CASE x = c.node
            BY Zenon, <5>1, <4>1, <4>2 DEF Known
          <5>2. CASE x # c.node
            BY Zenon, <5>2, <4>2 DEF Known
          <5> QED BY Zenon, <5>1, <5>2
        <4> QED BY <4>3, Zenon DEF Known
      <3>2. CASE c.kind = "client" /\ c \in Upserts
        <4>1. r = JoinClient(m, c.node, c.generation) /\ Id(c) = <<"client", c.node, c.generation>>
          BY Zenon, <3>0, <3>2 DEF Materialize, Id
        <4>2. ASSUME NEW x \in Names
              PROVE  /\ r.members[x] = m.members[x]
                     /\ x # c.node => r.clients[x] = m.clients[x]
                     /\ x = c.node => r.clients[x].generation = c.generation
          BY <4>1, <3>f DEF JoinClient, Images
        <4>3. ASSUME NEW x \in Names
              PROVE  /\ r.members[x] # Absent =>
                            <<"member", x, r.members[x].generation>> \in K \cup {Id(c)}
                     /\ r.clients[x] # Absent =>
                            <<"client", x, r.clients[x].generation>> \in K \cup {Id(c)}
          <5> HIDE DEF r
          <5>1. CASE x = c.node
            BY Zenon, <5>1, <4>1, <4>2 DEF Known
          <5>2. CASE x # c.node
            BY Zenon, <5>2, <4>2 DEF Known
          <5> QED BY Zenon, <5>1, <5>2
        <4> QED BY <4>3, Zenon DEF Known
      <3>3. CASE c.kind = "left" /\ c \in Leaves
        <4>1. r = Leave(m, c.node)
          BY Zenon, <2>2, <3>0, <3>3 DEF Materialize
        <4>2. ASSUME NEW x \in Names
              PROVE  /\ r.members[x] = m.members[x] \/ r.members[x] = Absent
                     /\ r.clients[x] = m.clients[x] \/ r.clients[x] = Absent
          BY <4>1, <3>f DEF Leave
        <4>3. ASSUME NEW x \in Names
              PROVE  /\ r.members[x] # Absent =>
                            <<"member", x, r.members[x].generation>> \in K \cup {Id(c)}
                     /\ r.clients[x] # Absent =>
                            <<"client", x, r.clients[x].generation>> \in K \cup {Id(c)}
          <5> HIDE DEF r
          <5> QED BY Zenon, <4>2 DEF Known
        <4> QED BY <4>3, Zenon DEF Known
      <3> QED BY Zenon, <3>1, <3>2, <3>3, CommandKinds
    <2> QED BY Zenon, <2>1, <2>2
    (* While every node keeps to one role, a committed command with an id of    *)
    (* its own fits an image that stems from the entries before it.             *)
  <1>NewCommandFits.
        ASSUME log \in Seq(Cmds), OneRole, NEW h \in Nat, h + 1 \in 1 .. Len(log),
               NEW m \in Images, Known(m, IdsUpTo(log, h)), Id(log[h + 1]) \notin IdsUpTo(log, h)
        PROVE  Fits(m, log[h + 1])
    <2> USE <1>NewCommandFits
    <2> DEFINE c == log[h + 1]
    <2>1. c \in Cmds
      OBVIOUS
    <2>2. ASSUME NEW r \in Roles, NEW x, NEW g, <<r, x, g>> \in IdsUpTo(log, h)
          PROVE  \E j \in 1 .. Len(log) : log[j].kind = r /\ log[j].node = x
      <3>1. PICK j \in 1 .. h : <<r, x, g>> = Id(log[j])
        BY Zenon, <2>2 DEF IdsUpTo
      <3>2. j \in 1 .. Len(log)
        OBVIOUS
      <3>3. log[j].kind # "left"
        BY Zenon, <3>1 DEF Id, Roles
      <3> QED BY Zenon, <3>1, <3>2, <3>3 DEF Id
    <2>3. CASE c.kind = "member" /\ c \in Upserts
      <3>1. c.node \in Names /\ c.generation \in Generations
        BY Zenon, <2>3, CommandFields
      <3>2. m.clients[c.node] = Absent
        <4> SUFFICES ASSUME m.clients[c.node] # Absent PROVE FALSE
          BY Zenon
        <4>1. PICK j \in 1 .. Len(log) : log[j].kind = "client" /\ log[j].node = c.node
          BY Zenon, <2>2, <3>1 DEF Known, Roles
        <4> QED BY Zenon, <4>1, <2>3 DEF OneRole, Roles
      <3>3. m.members[c.node].generation # c.generation
        <4> SUFFICES ASSUME m.members[c.node].generation = c.generation PROVE FALSE
          BY Zenon
        <4>1. m.members[c.node] # Absent
          BY <3>1, GenerationAssumption DEF Absent, Generations
        <4>2. Id(c) = <<"member", c.node, c.generation>>
          BY Zenon, <2>3 DEF Id
        <4> QED BY Zenon, <3>1, <4>1, <4>2 DEF Known
      <3> QED BY Zenon, <2>3, <3>2, <3>3 DEF Fits
    <2>4. CASE c.kind = "client" /\ c \in Upserts
      <3>1. c.node \in Names /\ c.generation \in Generations
        BY Zenon, <2>4, CommandFields
      <3>2. m.members[c.node] = Absent
        <4> SUFFICES ASSUME m.members[c.node] # Absent PROVE FALSE
          BY Zenon
        <4>1. PICK j \in 1 .. Len(log) : log[j].kind = "member" /\ log[j].node = c.node
          BY Zenon, <2>2, <3>1 DEF Known, Roles
        <4> QED BY Zenon, <4>1, <2>4 DEF OneRole, Roles
      <3>3. m.clients[c.node].generation # c.generation
        <4> SUFFICES ASSUME m.clients[c.node].generation = c.generation PROVE FALSE
          BY Zenon
        <4>1. m.clients[c.node] # Absent
          BY <3>1, GenerationAssumption DEF Absent, Generations
        <4>2. Id(c) = <<"client", c.node, c.generation>>
          BY Zenon, <2>4 DEF Id
        <4> QED BY Zenon, <3>1, <4>1, <4>2 DEF Known
      <3> QED BY Zenon, <2>4, <3>2, <3>3 DEF Fits
    <2>5. CASE c.kind = "left" /\ c \in Leaves
      BY Zenon, <2>5 DEF Fits
    <2> QED BY Zenon, <2>1, <2>3, <2>4, <2>5, CommandKinds
  <1> DEFINE c == log[i + 1]
  <1>1. /\ c \in Cmds /\ IdsUpTo(log, i + 1) = IdsUpTo(log, i) \cup {Id(c)}
        /\ f[i + 1] = IF Id(c) \in IdsUpTo(log, i) THEN f[i] ELSE MaterializeCommitted(f[i], c)
    <2>1. (i + 1) - 1 = i
      OBVIOUS
    <2>2. f[i + 1] = IF Id(c) \in IdsUpTo(log, i) THEN f[i] ELSE MaterializeCommitted(f[i], c)
      BY Zenon, <2>1 DEF LiveTo
    <2> QED BY <2>2, IdsGrow
  <1>2. CASE Id(c) \in IdsUpTo(log, i)
    <2>1. IdsUpTo(log, i + 1) = IdsUpTo(log, i)
      BY Zenon, <1>1, <1>2
    <2> QED BY Zenon, <1>1, <1>2, <2>1
  <1>3. CASE Id(c) \notin IdsUpTo(log, i)
    <2>1. Fits(f[i], c)
      BY Zenon, <1>3, <1>NewCommandFits
    <2>2. MaterializeCommitted(f[i], c) # Failed
      BY Zenon, <1>1, <2>1, <1>FittingSucceeds
    <2> HIDE DEF c
    <2>3. MaterializeCommitted(f[i], c) \in Images
      BY Zenon, <1>1, <2>2, CommittedType
    <2>4. Known(MaterializeCommitted(f[i], c), IdsUpTo(log, i) \cup {Id(c)})
      BY Zenon, <1>1, <2>2, <1>StaysKnown
    <2> QED BY Zenon, <1>1, <1>3, <2>1, <2>2, <2>3, <2>4 DEF c
  <1> QED BY Zenon, <1>2, <1>3

-----------------------------------------------------------------------------
(* What is committed up to index k is among cs, or a failed batch dropped it. *)
Covered(cs, k) == \A i \in 1 .. k : Id(log[i]) \in IdsOf(cs) \cup skipped

Types ==
    /\ log \in Seq(Cmds) /\ Len(log) <= MaxLog
    /\ proposed \subseteq Cmds
    /\ calls \subseteq [at : up, command : Cmds]
    /\ up \subseteq Nodes
    /\ image \in [Nodes -> Images]
    /\ ids \in [Nodes -> SUBSET IdsOf(log)]
    /\ commands \in [Nodes -> Seq(Cmds)]
    /\ saved \in [Nodes -> Snapshots]
    /\ applied \in [Nodes -> Nat] /\ handed \in [Nodes -> Nat]
    /\ batch \in [Nodes -> Nat] /\ durable \in [Nodes -> Nat]
    /\ skipped \subseteq IdsOf(log) /\ crashed \in BOOLEAN

(* The ledger of one runtime: its indices are in order, its applied         *)
(* envelopes have different ids, ids differs from them by dropped ones      *)
(* only, and nothing that was handed over or is behind the stored snapshot  *)
(* is missing but dropped ones.                                             *)
Ledger(n) ==
    /\ applied[n] <= handed[n] /\ handed[n] <= batch[n] /\ batch[n] <= Len(log)
    /\ durable[n] <= Len(log) /\ saved[n].index <= Len(log)
    /\ n \in up => saved[n].index <= applied[n]
    /\ Unique(commands[n]) /\ IdsOf(commands[n]) \subseteq ids[n]
    /\ ids[n] \subseteq IdsOf(commands[n]) \cup skipped
    /\ Covered(commands[n], handed[n])
    /\ IdsOf(saved[n].commands) \subseteq IdsOf(log)
    /\ Covered(saved[n].commands, saved[n].index)

RaftInv == Types /\ \A n \in Nodes : Ledger(n)

LEMMA SnapshotFields ==
    ASSUME NEW s \in Snapshots
    PROVE  s.index \in 0 .. MaxLog /\ s.index \in Nat /\ s.commands \in Seq(Cmds)
  BY LogAssumption DEF Snapshots, Cmds

LEMMA InitInv == Init => RaftInv
  <1> SUFFICES ASSUME Init PROVE RaftInv
    BY Zenon
  <1>1. NoSnapshot.index = 0 /\ NoSnapshot.commands = <<>>
    BY Zenon DEF NoSnapshot
  <1>2. ASSUME NEW n \in Nodes PROVE NoSnapshot \in Snapshots
    <2>1. (CHOOSE k \in Nodes : TRUE) \in Nodes
      BY Zenon
    <2> QED BY <2>1, LogAssumption DEF NoSnapshot, Snapshots
  <1>3. IdsOf(log) = {} /\ log \in Seq(Cmds) /\ Len(log) = 0 /\ Len(log) <= MaxLog
    BY EmptyIds, LogAssumption DEF Init
  <1>4. Types
    BY <1>2, <1>3, EmptyIsImage, EmptyIds, Zenon DEF Init, Types
  <1>5. ASSUME NEW n \in Nodes PROVE Ledger(n)
    <2>1. commands[n] = <<>> /\ saved[n] = NoSnapshot
      BY Zenon DEF Init
    <2>2. /\ applied[n] = 0 /\ handed[n] = 0 /\ batch[n] = 0 /\ durable[n] = 0
          /\ ids[n] = {}
      BY Zenon DEF Init
    <2>3. Covered(<<>>, 0)
      BY DEF Covered
    <2> QED BY <1>1, <1>3, <2>1, <2>2, <2>3, EmptyIds DEF Ledger
  <1> QED BY Zenon, <1>4, <1>5 DEF RaftInv

(* A step of runtime n that leaves the log alone: the values it sets, and   *)
(* the ids it drops.                                                        *)
Writes(n, m, ds, cs, a, h, b, d, s, lost) ==
    /\ UNCHANGED <<log, proposed>> /\ crashed' \in BOOLEAN
    /\ up' \subseteq up \cup {n} /\ calls' \subseteq [at : up', command : Cmds]
    /\ image' = [image EXCEPT ![n] = m] /\ ids' = [ids EXCEPT ![n] = ds]
    /\ commands' = [commands EXCEPT ![n] = cs] /\ applied' = [applied EXCEPT ![n] = a]
    /\ handed' = [handed EXCEPT ![n] = h] /\ batch' = [batch EXCEPT ![n] = b]
    /\ durable' = [durable EXCEPT ![n] = d] /\ saved' = [saved EXCEPT ![n] = s]
    /\ skipped' = skipped \cup lost

(* Those values make up a ledger again. *)
Balanced(n, m, ds, cs, a, h, b, d, s, lost) ==
    /\ m \in Images /\ cs \in Seq(Cmds) /\ s \in Snapshots
    /\ ds \subseteq IdsOf(log) /\ lost \subseteq IdsOf(log)
    /\ a \in Nat /\ h \in Nat /\ b \in Nat /\ d \in Nat
    /\ a <= h /\ h <= b /\ b <= Len(log) /\ d <= Len(log) /\ s.index <= Len(log)
    /\ n \in up' => s.index <= a
    /\ Unique(cs) /\ IdsOf(cs) \subseteq ds /\ ds \subseteq IdsOf(cs) \cup skipped \cup lost
    /\ \A i \in 1 .. h : Id(log[i]) \in IdsOf(cs) \cup skipped \cup lost
    /\ IdsOf(s.commands) \subseteq IdsOf(log) /\ Covered(s.commands, s.index)

(* The ledger of n, fact by fact: its indices, what it holds, and that what *)
(* a step leaves alone it also sets to what it was.                         *)
Numbers(n) ==
    /\ applied[n] \in Nat /\ handed[n] \in Nat /\ batch[n] \in Nat
    /\ durable[n] \in Nat /\ saved[n].index \in Nat /\ Len(log) \in Nat
    /\ applied[n] <= handed[n] /\ handed[n] <= batch[n] /\ batch[n] <= Len(log)
    /\ durable[n] <= Len(log) /\ saved[n].index <= Len(log) /\ Len(log) <= MaxLog
    /\ n \in up => saved[n].index <= applied[n]

Holdings(n) ==
    /\ image[n] \in Images /\ commands[n] \in Seq(Cmds) /\ saved[n] \in Snapshots
    /\ ids[n] \subseteq IdsOf(log) /\ Unique(commands[n])
    /\ IdsOf(commands[n]) \subseteq ids[n]
    /\ ids[n] \subseteq IdsOf(commands[n]) \cup skipped \cup {}
    /\ \A i \in 1 .. handed[n] : Id(log[i]) \in IdsOf(commands[n]) \cup skipped \cup {}
    /\ IdsOf(saved[n].commands) \subseteq IdsOf(log)
    /\ Covered(saved[n].commands, saved[n].index)

Same(n) ==
    /\ image = [image EXCEPT ![n] = image[n]] /\ ids = [ids EXCEPT ![n] = ids[n]]
    /\ commands = [commands EXCEPT ![n] = commands[n]]
    /\ applied = [applied EXCEPT ![n] = applied[n]]
    /\ handed = [handed EXCEPT ![n] = handed[n]]
    /\ batch = [batch EXCEPT ![n] = batch[n]]
    /\ durable = [durable EXCEPT ![n] = durable[n]]
    /\ saved = [saved EXCEPT ![n] = saved[n]]
    /\ skipped = skipped \cup {} /\ {} \subseteq IdsOf(log)
    /\ up \subseteq up \cup {n} /\ calls \subseteq [at : up, command : Cmds]
    /\ crashed \in BOOLEAN

LEMMA LedgerFacts ==
    ASSUME RaftInv, NEW n \in Nodes
    PROVE  Numbers(n) /\ Holdings(n) /\ Same(n)
  <1>1. /\ image[n] \in Images /\ commands[n] \in Seq(Cmds)
        /\ ids[n] \subseteq IdsOf(log) /\ saved[n] \in Snapshots
        /\ applied[n] \in Nat /\ handed[n] \in Nat /\ batch[n] \in Nat
        /\ durable[n] \in Nat /\ Len(log) \in Nat /\ Len(log) <= MaxLog
    BY DEF RaftInv, Types
  <1>2. saved[n].index \in Nat
    BY Zenon, <1>1, SnapshotFields
  <1>3. Ledger(n)
    BY Zenon DEF RaftInv
  <1>4. Numbers(n)
    BY <1>1, <1>2, <1>3, Zenon DEF Numbers, Ledger
  <1>5. Holdings(n)
    BY <1>1, <1>3, Zenon DEF Holdings, Ledger, Covered
  <1>6. Same(n)
    BY Zenon DEF Same, RaftInv, Types
  <1> QED BY Zenon, <1>4, <1>5, <1>6

(* The entry that Apply takes. *)
LEMMA AppliedEntry ==
    ASSUME RaftInv, NEW n \in Nodes, handed[n] < batch[n]
    PROVE  /\ handed[n] + 1 \in 1 .. Len(log) /\ handed[n] + 1 \in Nat
           /\ handed[n] + 1 <= batch[n] /\ handed[n] + 1 <= handed[n] + 1
           /\ handed[n] + 1 <= Len(log) /\ batch[n] <= batch[n]
           /\ n \in up => saved[n].index <= handed[n] + 1
           /\ handed[n] + 1 \in handed[n] + 1 .. batch[n]
           /\ \A j \in handed[n] + 1 .. batch[n] : j \in 1 .. Len(log)
           /\ \A j \in 1 .. handed[n] + 1 : j = handed[n] + 1 \/ j \in 1 .. handed[n]
           /\ \A j \in 1 .. batch[n] :
                 j \in 1 .. handed[n] \/ j \in handed[n] + 1 .. batch[n]
           /\ log[handed[n] + 1] \in Cmds /\ Id(log[handed[n] + 1]) \in IdsOf(log)
  <1>NextIndex.
        ASSUME NEW a \in Nat, NEW h \in Nat, NEW b \in Nat, NEW l \in Nat,
               a <= h, h < b, b <= l
        PROVE  /\ h + 1 \in 1 .. l /\ h + 1 \in Nat /\ h + 1 <= b /\ h + 1 <= l
               /\ h + 1 <= h + 1 /\ b <= b /\ h + 1 \in h + 1 .. b
               /\ \A x \in Nat : x <= a => x <= h + 1
               /\ \A j \in h + 1 .. b : j \in 1 .. l
               /\ \A j \in 1 .. h + 1 : j = h + 1 \/ j \in 1 .. h
               /\ \A j \in 1 .. b : j \in 1 .. h \/ j \in h + 1 .. b
    BY <1>NextIndex
  <1>1. Numbers(n)
    BY LedgerFacts, Zenon
  <1>2. /\ applied[n] \in Nat /\ handed[n] \in Nat /\ batch[n] \in Nat /\ Len(log) \in Nat
        /\ applied[n] <= handed[n] /\ batch[n] <= Len(log)
    BY <1>1, Zenon DEF Numbers
  <1> DEFINE h == handed[n]
             b == batch[n]
             l == Len(log)
  <1>3. /\ h + 1 \in 1 .. l /\ h + 1 \in Nat /\ h + 1 <= b /\ h + 1 <= l
        /\ h + 1 <= h + 1 /\ b <= b /\ h + 1 \in h + 1 .. b
        /\ \A x \in Nat : x <= applied[n] => x <= h + 1
        /\ \A j \in h + 1 .. b : j \in 1 .. l
        /\ \A j \in 1 .. h + 1 : j = h + 1 \/ j \in 1 .. h
        /\ \A j \in 1 .. b : j \in 1 .. h \/ j \in h + 1 .. b
    <2> HIDE DEF h, b, l
    <2>1. h \in Nat /\ b \in Nat /\ l \in Nat /\ applied[n] <= h /\ h < b /\ b <= l
      BY Zenon, <1>2 DEF h, b, l
    <2> QED BY ONLY <1>2, <2>1, <1>NextIndex
  <1>4. n \in up => saved[n].index <= handed[n] + 1
    BY <1>1, <1>3, Zenon DEF Numbers
  <1>5. log \in Seq(Cmds)
    BY Zenon DEF RaftInv, Types
  <1>6. log[handed[n] + 1] \in Cmds /\ Id(log[handed[n] + 1]) \in IdsOf(log)
    BY <1>3, <1>5 DEF IdsOf
  <1> QED BY <1>3, <1>4, <1>6, Zenon

-----------------------------------------------------------------------------
(* What restore_committed_state walks over. *)
Last(n) == IF durable[n] > saved[n].index THEN durable[n] ELSE saved[n].index

Base(n) == IF Stage(saved[n].commands) = Failed THEN Failed
           ELSE [image    |-> ReplaceMembership(EmptyImage, Stage(saved[n].commands)),
                 ids      |-> IdsOf(saved[n].commands),
                 commands |-> saved[n].commands]

RestoreOf(n, at) ==
    at = [i \in saved[n].index .. Last(n) |->
            IF i = saved[n].index THEN Base(n)
            ELSE IF at[i - 1] = Failed THEN Failed
            ELSE Recover(at[i - 1], log[i])]

(* The states of a recovery. *)
Recoveries == [image : Images, ids : SUBSET IdsOf(log), commands : Seq(Cmds)]

(* Those that have seen the snapshot of n and the entries after it up to i. *)
Sound(n, i) ==
    {s \in Recoveries :
        /\ s.ids = IdsOf(s.commands) /\ Unique(s.commands)
        /\ IdsOf(saved[n].commands) \subseteq s.ids
        /\ \A j \in saved[n].index + 1 .. i : Id(log[j]) \in s.ids}

LEMMA InvStep == Induction /\ RaftInv /\ [Next]_vars => RaftInv'
    (* Nothing a step does elsewhere disturbs the ledger of a runtime it leaves *)
    (* alone: the log may grow, and more ids may be dropped.                    *)
  <1>Unaffected.
        ASSUME Types, NEW n \in Nodes, Ledger(n),
               Len(log) <= Len(log'), Len(log') \in Nat,
               \A i \in 1 .. Len(log) : log'[i] = log[i],
               IdsOf(log) \subseteq IdsOf(log)', skipped \subseteq skipped',
               n \in up' => n \in up,
               ids'[n] = ids[n], commands'[n] = commands[n], applied'[n] = applied[n],
               handed'[n] = handed[n], batch'[n] = batch[n], durable'[n] = durable[n],
               saved'[n] = saved[n]
        PROVE  Ledger(n)'
    <2> USE <1>Unaffected
    <2>1. /\ Len(log) \in Nat /\ applied[n] \in Nat /\ handed[n] \in Nat /\ batch[n] \in Nat
          /\ durable[n] \in Nat /\ saved[n].index \in Nat
      BY SnapshotFields DEF Types
    <2>2. /\ applied[n] <= handed[n] /\ handed[n] <= batch[n] /\ batch[n] <= Len(log)
          /\ durable[n] <= Len(log) /\ saved[n].index <= Len(log)
      BY Zenon DEF Ledger
    <2>3. /\ applied'[n] <= handed'[n] /\ handed'[n] <= batch'[n] /\ batch'[n] <= Len(log')
          /\ durable'[n] <= Len(log') /\ saved'[n].index <= Len(log')
      BY <2>1, <2>2
    <2>4. \A i \in 1 .. handed[n] : log'[i] = log[i]
      BY <2>1, <2>2
    <2>5. \A i \in 1 .. saved[n].index : log'[i] = log[i]
      BY <2>1, <2>2
    <2>6. Covered(commands[n], handed[n])' /\ Covered(saved[n].commands, saved[n].index)'
      BY Zenon, <2>4, <2>5 DEF Ledger, Covered
    <2>7. n \in up' => saved'[n].index <= applied'[n]
      BY Zenon DEF Ledger
    <2> QED BY Zenon, <2>3, <2>6, <2>7 DEF Ledger
    (* The same for a step that leaves the log and the dropped ids alone. *)
  <1>UnaffectedByRuntime.
        ASSUME Types, NEW n \in Nodes, Ledger(n), UNCHANGED <<log, skipped>>,
               n \in up' => n \in up,
               ids'[n] = ids[n], commands'[n] = commands[n], applied'[n] = applied[n],
               handed'[n] = handed[n], batch'[n] = batch[n], durable'[n] = durable[n],
               saved'[n] = saved[n]
        PROVE  Ledger(n)'
    <2> USE <1>UnaffectedByRuntime
    <2>1. /\ Len(log) <= Len(log') /\ Len(log') \in Nat
          /\ \A i \in 1 .. Len(log) : log'[i] = log[i]
          /\ IdsOf(log) \subseteq IdsOf(log)' /\ skipped \subseteq skipped'
      BY DEF Types
    <2> QED BY Zenon, <2>1, <1>Unaffected
    (* The steps that touch no runtime: calls, proposals and the log. *)
  <1>CallStep.
        ASSUME RaftInv, NEW n \in Nodes, NEW c \in Cmds, n \in up, Prepare(n, c)
        PROVE  RaftInv'
    <2> USE <1>CallStep
    <2>1. [at |-> n, command |-> c] \in [at : up, command : Cmds]
      BY Zenon
    <2>2. Types'
      BY Zenon, <2>1 DEF RaftInv, Types, Prepare, memory
    <2>3. ASSUME NEW k \in Nodes PROVE Ledger(k)'
      BY Zenon, <1>UnaffectedByRuntime DEF RaftInv, Prepare, memory
    <2> QED BY Zenon, <2>2, <2>3 DEF RaftInv
  <1>ProposalStep.
        ASSUME RaftInv, NEW n \in Nodes, NEW c, CommitCommand(n, c)
        PROVE  RaftInv'
    <2> USE <1>ProposalStep
    <2>1. c \in Cmds
      <3>1. [at |-> n, command |-> c] \in [at : up, command : Cmds]
        BY Zenon DEF RaftInv, Types, CommitCommand
      <3>2. [at |-> n, command |-> c].command \in Cmds
        BY Zenon, <3>1
      <3> QED BY Zenon, <3>2
    <2>2. Types'
      BY Zenon, <2>1 DEF RaftInv, Types, CommitCommand, memory
    <2>3. ASSUME NEW k \in Nodes PROVE Ledger(k)'
      BY Zenon, <1>UnaffectedByRuntime DEF RaftInv, CommitCommand, memory
    <2> QED BY Zenon, <2>2, <2>3 DEF RaftInv
  <1>LoseStep.
        ASSUME RaftInv, NEW c, Lose(c)
        PROVE  RaftInv'
    <2> USE <1>LoseStep
    <2>1. Types'
      BY Zenon DEF RaftInv, Types, Lose, memory
    <2>2. ASSUME NEW k \in Nodes PROVE Ledger(k)'
      BY Zenon, <1>UnaffectedByRuntime DEF RaftInv, Lose, memory
    <2> QED BY Zenon, <2>1, <2>2 DEF RaftInv
  <1>CommitStep.
        ASSUME RaftInv, NEW c, Commit(c)
        PROVE  RaftInv'
        (* The committed log only grows at its end. *)
    <2> USE <1>CommitStep
    <2>LogGrows.
          ASSUME NEW l \in Seq(Cmds), NEW e \in Cmds
          PROVE  /\ Append(l, e) \in Seq(Cmds) /\ Len(Append(l, e)) = Len(l) + 1
                 /\ \A i \in 1 .. Len(l) : Append(l, e)[i] = l[i]
                 /\ IdsOf(l) \subseteq IdsOf(Append(l, e))
      BY <2>LogGrows, AppendIds
    <2>1. c \in Cmds /\ log \in Seq(Cmds) /\ Len(log) \in Nat /\ Len(log) < MaxLog
      BY DEF RaftInv, Types, Commit
    <2>2. log' = Append(log, c)
      BY Zenon DEF Commit
    <2>3. /\ log' \in Seq(Cmds) /\ Len(log') = Len(log) + 1
          /\ \A i \in 1 .. Len(log) : log'[i] = log[i]
          /\ IdsOf(log) \subseteq IdsOf(log')
      BY Zenon, <2>1, <2>2, <2>LogGrows
    <2>4. Len(log') <= MaxLog /\ Len(log) <= Len(log') /\ Len(log') \in Nat
      BY <2>1, <2>3, LogAssumption
    <2>5. ids \in [Nodes -> SUBSET IdsOf(log)']
      <3>1. ids \in [Nodes -> SUBSET IdsOf(log)] /\ IdsOf(log)' = IdsOf(log')
        BY Zenon DEF RaftInv, Types, IdsOf
      <3> QED BY Zenon, <3>1, <2>3
    <2>6. Types'
      BY Zenon, <2>3, <2>4, <2>5 DEF RaftInv, Types, Commit, memory
    <2>7. ASSUME NEW k \in Nodes PROVE Ledger(k)'
      BY Zenon, <2>3, <2>4, <1>Unaffected DEF RaftInv, Commit, memory
    <2> QED BY Zenon, <2>6, <2>7 DEF RaftInv
    (* What RaftInv asks of such a step. *)
  <1>RuntimeStep.
        ASSUME RaftInv, NEW n \in Nodes, NEW m, NEW ds, NEW cs, NEW a, NEW h, NEW b, NEW d,
               NEW s, NEW lost,
               Writes(n, m, ds, cs, a, h, b, d, s, lost),
               Balanced(n, m, ds, cs, a, h, b, d, s, lost)
        PROVE  RaftInv'
    <2> USE <1>RuntimeStep
    <2>0. /\ m \in Images /\ ds \in SUBSET IdsOf(log) /\ cs \in Seq(Cmds) /\ a \in Nat
          /\ h \in Nat /\ b \in Nat /\ d \in Nat /\ s \in Snapshots
          /\ lost \in SUBSET IdsOf(log)
      BY Zenon DEF Balanced
    <2>1. Types'
      <3>1. up' \subseteq Nodes /\ skipped' \subseteq IdsOf(log')
        BY Zenon, <2>0 DEF RaftInv, Types, Writes
      <3>2. image' \in [Nodes -> Images] /\ commands' \in [Nodes -> Seq(Cmds)]
        BY Zenon, <2>0 DEF RaftInv, Types, Writes
      <3>3. ids' \in [Nodes -> SUBSET IdsOf(log')]
        <4>1. ids' = [ids EXCEPT ![n] = ds] /\ IdsOf(log') = IdsOf(log)
          BY Zenon DEF Writes
        <4>2. ids \in [Nodes -> SUBSET IdsOf(log)]
          BY Zenon DEF RaftInv, Types
        <4> QED BY Zenon, <2>0, <4>1, <4>2
      <3>4. /\ applied' \in [Nodes -> Nat] /\ handed' \in [Nodes -> Nat]
            /\ batch' \in [Nodes -> Nat] /\ durable' \in [Nodes -> Nat]
            /\ saved' \in [Nodes -> Snapshots]
        BY Zenon, <2>0 DEF RaftInv, Types, Writes
      <3>5. log' \in Seq(Cmds) /\ Len(log') <= MaxLog /\ proposed' \subseteq Cmds
        BY Zenon, <2>0 DEF RaftInv, Types, Writes
      <3>6. calls' \subseteq [at : up', command : Cmds] /\ crashed' \in BOOLEAN
        BY Zenon DEF Writes
      <3> QED BY <3>1, <3>2, <3>3, <3>4, <3>5, <3>6, Zenon DEF Types
    <2>2. ASSUME NEW k \in Nodes, k # n PROVE Ledger(k)'
      <3>1. /\ ids'[k] = ids[k] /\ commands'[k] = commands[k] /\ applied'[k] = applied[k]
            /\ handed'[k] = handed[k] /\ batch'[k] = batch[k] /\ durable'[k] = durable[k]
            /\ saved'[k] = saved[k] /\ (k \in up' => k \in up)
        BY Zenon, <2>2 DEF RaftInv, Types, Writes
      <3>2. IdsOf(log) \subseteq IdsOf(log)' /\ skipped \subseteq skipped'
        BY Zenon DEF Writes
      <3>3. /\ Len(log) <= Len(log') /\ Len(log') \in Nat
            /\ \A j \in 1 .. Len(log) : log'[j] = log[j]
        BY <2>0 DEF RaftInv, Types, Writes
      <3>4. Types /\ Ledger(k)
        BY Zenon DEF RaftInv
      <3> QED BY <3>1, <3>2, <3>3, <3>4, <1>Unaffected, Zenon
    <2>3. Ledger(n)'
      <3>1. /\ ids'[n] = ds /\ commands'[n] = cs /\ applied'[n] = a /\ handed'[n] = h
            /\ batch'[n] = b /\ durable'[n] = d /\ saved'[n] = s
        BY Zenon, <2>0 DEF RaftInv, Types, Writes
      <3>2. Covered(commands[n], handed[n])' /\ Covered(saved[n].commands, saved[n].index)'
        BY Zenon, <3>1 DEF Covered, Writes, Balanced
      <3>3. /\ IdsOf(saved[n].commands)' = IdsOf(s.commands) /\ IdsOf(commands[n])' = IdsOf(cs)
            /\ IdsOf(log)' = IdsOf(log)
        BY Zenon, <3>1 DEF Writes
      <3>4. Unique(commands[n])'
        BY Zenon, <3>1 DEF Balanced
      <3> QED BY Zenon, <3>1, <3>2, <3>3, <3>4 DEF Ledger, Writes, Balanced
    <2> QED BY Zenon, <2>1, <2>2, <2>3 DEF RaftInv
    (* drain_ready takes the entries committed since the last hand-over. *)
  <1>ReadyStep.
        ASSUME RaftInv, NEW n \in Nodes, NEW i \in 1 .. MaxLog, Ready(n, i)
        PROVE  RaftInv'
    <2> USE <1>ReadyStep
    <2>f. Numbers(n) /\ Holdings(n) /\ Same(n)
      BY LedgerFacts, Zenon
    <2>1. i \in Nat /\ handed[n] < i /\ i <= Len(log)
      BY LogAssumption DEF RaftInv, Types, Ready
    <2>2. /\ batch' = [batch EXCEPT ![n] = i] /\ up' = up /\ calls' = calls
          /\ UNCHANGED <<log, proposed, crashed, image, ids, commands, applied, handed,
                         durable, saved, skipped>>
      BY Zenon DEF Ready
    <2>3. handed[n] <= i
      BY <2>1, <2>f DEF Numbers
    <2>w. Writes(n, image[n], ids[n], commands[n], applied[n], handed[n], i, durable[n],
                 saved[n], {})
      BY Zenon, <2>2, <2>f DEF Writes, Same
    <2>b. Balanced(n, image[n], ids[n], commands[n], applied[n], handed[n], i,
                   durable[n], saved[n], {})
      BY Zenon, <2>1, <2>2, <2>3, <2>f DEF Balanced, Numbers, Holdings, Same
    <2> QED BY <2>w, <2>b, <1>RuntimeStep, Zenon
  <1>MarkAppliedStep.
        ASSUME RaftInv, NEW n \in Nodes, MarkApplied(n)
        PROVE  RaftInv'
    <2> USE <1>MarkAppliedStep
    <2>f. Numbers(n) /\ Holdings(n) /\ Same(n)
      BY LedgerFacts, Zenon
    <2>1. /\ durable' = [durable EXCEPT ![n] = applied[n]] /\ up' = up /\ calls' = calls
          /\ UNCHANGED <<log, proposed, crashed, image, ids, commands, applied, handed,
                         batch, saved, skipped>>
      BY Zenon DEF MarkApplied, memory
    <2>2. applied[n] <= Len(log)
      BY <2>f DEF Numbers
    <2>w. Writes(n, image[n], ids[n], commands[n], applied[n], handed[n], batch[n],
                 applied[n], saved[n], {})
      BY Zenon, <2>1, <2>f DEF Writes, Same
    <2>b. Balanced(n, image[n], ids[n], commands[n], applied[n], handed[n], batch[n],
                   applied[n], saved[n], {})
      BY Zenon, <2>1, <2>2, <2>f DEF Balanced, Numbers, Holdings, Same
    <2> QED BY <2>w, <2>b, <1>RuntimeStep, Zenon
    (* compact_applied_log_to_snapshot: the applied index is not beyond what was *)
    (* handed over, so the envelopes cover it.                                  *)
  <1>CompactStep.
        ASSUME RaftInv, NEW n \in Nodes, Compact(n)
        PROVE  RaftInv'
        (* The arithmetic of a runtime's indices: applied, handed over, end of the  *)
        (* batch, end of the log; and of the entry after the one handed over last.  *)
    <2> USE <1>CompactStep
    <2>IndexOrder.
          ASSUME NEW a \in Nat, NEW h \in Nat, NEW b \in Nat, NEW l \in Nat,
                 a <= h, h <= b, b <= l
          PROVE  /\ a <= l /\ a <= a /\ 1 .. a \subseteq 1 .. h
                 /\ \A k \in Nat : l <= k => a \in 0 .. k
      BY <2>IndexOrder
    <2> DEFINE s == [index |-> applied[n], commands |-> commands[n], source |-> n]
    <2>f. Numbers(n) /\ Holdings(n) /\ Same(n)
      BY LedgerFacts, Zenon
    <2>1. /\ saved' = [saved EXCEPT ![n] = s] /\ up' = up /\ calls' = calls
          /\ UNCHANGED <<log, proposed, crashed, image, ids, commands, applied, handed,
                         batch, durable, skipped>>
      BY Zenon DEF Compact, memory
    <2>2. applied[n] <= Len(log) /\ applied[n] \in 0 .. MaxLog /\ applied[n] <= applied[n]
      <3>1. Len(log) <= MaxLog
        BY Zenon DEF RaftInv, Types
      <3> QED BY <3>1, <2>f, LogAssumption, <2>IndexOrder, Zenon DEF Numbers
    <2>3. s \in Snapshots
      BY Zenon, <2>2, <2>f DEF Snapshots, Cmds, Numbers, Holdings
    <2>4. s.index = applied[n] /\ s.commands = commands[n]
      BY Zenon
    <2> HIDE DEF s
    <2>5. 1 .. applied[n] \subseteq 1 .. handed[n]
      BY <2>f, <2>IndexOrder, Zenon DEF Numbers
    <2>6. Covered(s.commands, s.index) /\ IdsOf(s.commands) \subseteq IdsOf(log)
      BY Zenon, <2>4, <2>5, <2>f DEF Covered, Numbers, Holdings
    <2>w. Writes(n, image[n], ids[n], commands[n], applied[n], handed[n], batch[n],
                 durable[n], s, {})
      BY Zenon, <2>1, <2>f DEF Writes, Same
    <2>b. Balanced(n, image[n], ids[n], commands[n], applied[n], handed[n], batch[n],
                   durable[n], s, {})
      BY Zenon, <2>1, <2>2, <2>3, <2>4, <2>6, <2>f DEF Balanced, Numbers, Holdings, Same
    <2> QED BY <2>w, <2>b, <1>RuntimeStep, Zenon
    (* A process that stops keeps its store, perhaps with a peer's snapshot. *)
  <1>StopStep.
        ASSUME RaftInv, NEW n \in Nodes, Stop(n), UNCHANGED <<log, skipped, proposed, durable>>,
               NEW s \in Snapshots, saved' = [saved EXCEPT ![n] = s],
               s.index <= Len(log), IdsOf(s.commands) \subseteq IdsOf(log),
               Covered(s.commands, s.index)
        PROVE  RaftInv'
    <2> USE <1>StopStep
    <2>f. Numbers(n) /\ Holdings(n) /\ Same(n)
      BY LedgerFacts, Zenon
    <2>1. /\ up' = up \ {n} /\ crashed' \in BOOLEAN /\ calls' = {k \in calls : k.at # n}
          /\ image' = [image EXCEPT ![n] = EmptyImage]
          /\ ids' = [ids EXCEPT ![n] = {}]
          /\ commands' = [commands EXCEPT ![n] = <<>>]
          /\ applied' = [applied EXCEPT ![n] = 0]
          /\ handed' = [handed EXCEPT ![n] = 0]
          /\ batch' = [batch EXCEPT ![n] = 0]
      BY Zenon DEF Stop
    <2>2. calls' \subseteq [at : up', command : Cmds]
      BY Zenon, <2>1, <2>f DEF Same
    <2>3. up' \subseteq up \cup {n} /\ n \notin up'
      BY Zenon, <2>1
    <2>4. /\ <<>> \in Seq(Cmds) /\ {} \in SUBSET IdsOf(log) /\ EmptyImage \in Images
          /\ Unique(<<>>) /\ IdsOf(<<>>) \subseteq {} /\ {} \subseteq IdsOf(<<>>) \cup skipped'
      BY Zenon, EmptyIsImage, EmptyIds
    <2>5. /\ 0 \in Nat /\ 0 <= 0 /\ 0 <= Len(log) /\ 1 .. 0 = {}
      BY <2>f DEF Numbers
    <2>6. \A i \in 1 .. 0 : Id(log[i]) \in IdsOf(<<>>) \cup skipped'
      BY Zenon, <2>5
    <2>w. Writes(n, EmptyImage, {}, <<>>, 0, 0, 0, durable[n], s, {})
      BY Zenon, <2>1, <2>2, <2>3, <2>f DEF Writes, Same
    <2>b. Balanced(n, EmptyImage, {}, <<>>, 0, 0, 0, durable[n], s, {})
      BY Zenon, <2>1, <2>3, <2>4, <2>5, <2>6, <2>f DEF Balanced, Numbers, Holdings, Same
    <2> QED BY <2>w, <2>b, <1>RuntimeStep, Zenon
  <1>CrashStep.
        ASSUME RaftInv, NEW n \in Nodes, Crash(n)
        PROVE  RaftInv'
    <2> USE <1>CrashStep
    <2>f. Numbers(n) /\ Holdings(n) /\ Same(n)
      BY LedgerFacts, Zenon
    <2>1. Stop(n) /\ UNCHANGED <<log, skipped, proposed, durable>> /\ saved' = saved
      BY Zenon DEF Crash
    <2> QED BY Zenon, <2>1, <2>f, <1>StopStep DEF Numbers, Holdings, Same
    (* A runtime whose memory is set anew, from a snapshot or by recovery. *)
  <1>RenewStep.
        ASSUME RaftInv, NEW n \in Nodes, NEW m \in Images, NEW ds \in SUBSET IdsOf(log),
               NEW cs \in Seq(Cmds), NEW x \in Nat, NEW s \in Snapshots,
               UNCHANGED <<log, proposed, calls, skipped, crashed>>,
               up' = up \cup {n},
               image' = [image EXCEPT ![n] = m], ids' = [ids EXCEPT ![n] = ds],
               commands' = [commands EXCEPT ![n] = cs], applied' = [applied EXCEPT ![n] = x],
               handed' = [handed EXCEPT ![n] = x], batch' = [batch EXCEPT ![n] = x],
               durable' = [durable EXCEPT ![n] = x], saved' = [saved EXCEPT ![n] = s],
               ds = IdsOf(cs), Unique(cs), Covered(cs, x), x <= Len(log), s.index <= x,
               IdsOf(s.commands) \subseteq IdsOf(log), Covered(s.commands, s.index)
        PROVE  RaftInv'
    <2> USE <1>RenewStep
    <2>f. Numbers(n) /\ Holdings(n) /\ Same(n)
      BY LedgerFacts, Zenon
    <2>1. calls' \subseteq [at : up', command : Cmds] /\ up' \subseteq up \cup {n}
      BY Zenon, <2>f DEF Same
    <2>2. x <= x /\ s.index <= Len(log)
      BY <2>f, SnapshotFields, SMT, Z3 DEF Numbers
    <2>3. IdsOf(cs) \subseteq ds /\ ds \subseteq IdsOf(cs) \cup skipped'
      BY Zenon
    <2>4. \A i \in 1 .. x : Id(log[i]) \in IdsOf(cs) \cup skipped'
      BY Zenon DEF Covered
    <2>w. Writes(n, m, ds, cs, x, x, x, x, s, {})
      BY Zenon, <2>1, <2>f DEF Writes, Same
    <2>b. Balanced(n, m, ds, cs, x, x, x, x, s, {})
      BY Zenon, <2>1, <2>2, <2>3, <2>4, <2>f DEF Balanced, Numbers, Holdings, Same
    <2> QED BY <2>w, <2>b, <1>RuntimeStep, Zenon
    (* apply_committed_entries takes entry i, which is new or repeats an id. *)
  <1>AppliedBalance.
        ASSUME RaftInv, NEW n \in Nodes, NEW i, NEW c, NEW cs, NEW m \in Images,
               NEW d \in {i, durable[n]},
               handed[n] < batch[n], i = handed[n] + 1, c = log[i], up' = up,
               \/ Id(c) \notin ids[n] /\ cs = Append(commands[n], c)
               \/ Id(c) \in ids[n] /\ cs = commands[n]
        PROVE  Balanced(n, m, ids[n] \cup {Id(c)}, cs, i, i, batch[n], d, saved[n], {})
    <2> USE <1>AppliedBalance
    <2>0. Holdings(n)
      BY LedgerFacts, Zenon
    <2>n. Numbers(n)
      BY LedgerFacts, Zenon
    <2>1. i \in 1 .. Len(log) /\ i <= batch[n] /\ c \in Cmds /\ Id(c) \in IdsOf(log)
      BY AppliedEntry, Zenon
    <2>2. /\ i \in Nat /\ d \in Nat /\ batch[n] \in Nat /\ i <= i /\ batch[n] <= Len(log)
          /\ d <= Len(log) /\ saved[n].index <= Len(log)
          /\ n \in up' => saved[n].index <= i
      BY <2>n, AppliedEntry, Zenon DEF Numbers
    <2>3. /\ cs \in Seq(Cmds) /\ IdsOf(cs) \subseteq ids[n] \cup {Id(c)} /\ Unique(cs)
          /\ ids[n] \cup {Id(c)} \subseteq IdsOf(cs) \cup skipped \cup {}
          /\ IdsOf(commands[n]) \subseteq IdsOf(cs)
      <3>1. CASE Id(c) \notin ids[n] /\ cs = Append(commands[n], c)
        <4>1. IdsOf(cs) = IdsOf(commands[n]) \cup {Id(c)} /\ Unique(cs)
          BY Zenon, <2>0, <2>1, <3>1, AppendIds DEF Holdings
        <4>2. cs \in Seq(Cmds)
          BY <2>0, <2>1, <3>1 DEF Holdings
        <4> QED BY Zenon, <2>0, <4>1, <4>2 DEF Holdings
      <3>2. CASE Id(c) \in ids[n] /\ cs = commands[n]
        BY Zenon, <2>0, <3>2 DEF Holdings
      <3> QED BY Zenon, <3>1, <3>2
    <2>4. ASSUME NEW j \in 1 .. i PROVE Id(log[j]) \in IdsOf(cs) \cup skipped \cup {}
      <3>1. j = i \/ j \in 1 .. handed[n]
        BY AppliedEntry, Zenon
      <3> QED BY Zenon, <2>0, <2>3, <3>1 DEF Holdings
    <2>5. ids[n] \cup {Id(c)} \subseteq IdsOf(log) /\ {} \subseteq IdsOf(log)
      BY Zenon, <2>0, <2>1 DEF Holdings
    <2> QED BY <2>0, <2>1, <2>2, <2>3, <2>4, <2>5, Zenon DEF Balanced, Holdings
  <1>AppliedStep.
        ASSUME RaftInv, NEW n \in Nodes, Apply(n),
               Id(log[handed[n] + 1]) \in ids[n]
                 \/ MaterializeCommitted(image[n], log[handed[n] + 1]) # Failed
        PROVE  RaftInv'
    <2> USE <1>AppliedStep
    <2> DEFINE i == handed[n] + 1
               c == log[i]
               isNew == Id(c) \notin ids[n]
               m == IF isNew THEN MaterializeCommitted(image[n], c) ELSE image[n]
               cs == IF isNew THEN Append(commands[n], c) ELSE commands[n]
               d == IF i = batch[n] THEN i ELSE durable[n]
    <2>f. Numbers(n) /\ Holdings(n) /\ Same(n)
      BY LedgerFacts, Zenon
    <2>1. m # Failed /\ m \in Images
      <3>1. c \in Cmds /\ image[n] \in Images
        <4>1. handed[n] < batch[n] /\ image[n] \in Images
          BY <2>f, Zenon DEF Apply, Numbers, Holdings
        <4> QED BY <4>1, AppliedEntry, Zenon
      <3> QED BY Zenon, <3>1, CommittedType, FailedIsNoImage
    <2>2. Writes(n, m, ids[n] \cup {Id(c)}, cs, i, i, batch[n], d, saved[n], {})
      BY <2>1, <2>f, Zenon DEF Apply, Writes, Same
    <2>3. handed[n] < batch[n] /\ up' = up
      BY Zenon DEF Apply
    <2>4. /\ d \in {i, durable[n]}
          /\ \/ Id(c) \notin ids[n] /\ cs = Append(commands[n], c)
             \/ Id(c) \in ids[n] /\ cs = commands[n]
      BY Zenon
    <2> HIDE DEF m, cs, d
    <2>5. Balanced(n, m, ids[n] \cup {Id(c)}, cs, i, i, batch[n], d, saved[n], {})
      BY <2>1, <2>3, <2>4, <1>AppliedBalance, Zenon
    <2> HIDE DEF i, c
    <2> QED BY <2>2, <2>5, <1>RuntimeStep, Zenon
    (* apply_committed_entries, when the entry fails: the rest of the batch goes *)
    (* with it, and is remembered as dropped.                                   *)
  <1>FailedBalance.
        ASSUME RaftInv, NEW n \in Nodes, NEW i, NEW c, NEW lost,
               handed[n] < batch[n], i = handed[n] + 1, c = log[i], up' = up,
               lost = {Id(log[j]) : j \in i .. batch[n]}
        PROVE  Balanced(n, image[n], ids[n] \cup {Id(c)}, commands[n], i, batch[n], batch[n],
                        durable[n], saved[n], lost)
    <2> USE <1>FailedBalance
    <2>0. Holdings(n)
      BY LedgerFacts, Zenon
    <2>n. Numbers(n)
      BY LedgerFacts, Zenon
    <2>1. i \in 1 .. Len(log) /\ i <= batch[n] /\ Id(c) \in IdsOf(log)
      BY AppliedEntry, Zenon
    <2>2. /\ i \in Nat /\ durable[n] \in Nat /\ batch[n] \in Nat /\ batch[n] <= batch[n]
          /\ batch[n] <= Len(log) /\ durable[n] <= Len(log) /\ saved[n].index <= Len(log)
          /\ n \in up' => saved[n].index <= i
      BY <2>n, AppliedEntry, Zenon DEF Numbers
    <2>3. lost \subseteq IdsOf(log) /\ Id(c) \in lost
      <3>1. i \in i .. batch[n] /\ \A j \in i .. batch[n] : j \in 1 .. Len(log)
        BY AppliedEntry, Zenon
      <3> QED BY Zenon, <3>1 DEF IdsOf
    <2>4. ASSUME NEW j \in 1 .. batch[n]
          PROVE  Id(log[j]) \in IdsOf(commands[n]) \cup skipped \cup lost
      <3>1. j \in 1 .. handed[n] \/ j \in i .. batch[n]
        BY AppliedEntry, Zenon
      <3> QED BY Zenon, <2>0, <3>1 DEF Holdings
    <2>5. /\ IdsOf(commands[n]) \subseteq ids[n] \cup {Id(c)}
          /\ ids[n] \cup {Id(c)} \subseteq IdsOf(commands[n]) \cup skipped \cup lost
          /\ ids[n] \cup {Id(c)} \subseteq IdsOf(log)
      BY Zenon, <2>0, <2>1, <2>3 DEF Holdings
    <2> QED BY <2>0, <2>1, <2>2, <2>3, <2>4, <2>5, Zenon DEF Balanced, Holdings
  <1>FailedStep.
        ASSUME RaftInv, NEW n \in Nodes, Apply(n),
               Id(log[handed[n] + 1]) \notin ids[n],
               MaterializeCommitted(image[n], log[handed[n] + 1]) = Failed
        PROVE  RaftInv'
    <2> USE <1>FailedStep
    <2> DEFINE i == handed[n] + 1
               c == log[i]
               lost == {Id(log[j]) : j \in i .. batch[n]}
    <2>f. Numbers(n) /\ Holdings(n) /\ Same(n)
      BY LedgerFacts, Zenon
    <2>1. Writes(n, image[n], ids[n] \cup {Id(c)}, commands[n], i, batch[n], batch[n],
                 durable[n], saved[n], lost)
      BY Zenon, <2>f DEF Apply, Writes, Same
    <2>2. handed[n] < batch[n] /\ up' = up
      BY Zenon DEF Apply
    <2>3. Balanced(n, image[n], ids[n] \cup {Id(c)}, commands[n], i, batch[n], batch[n],
                   durable[n], saved[n], lost)
      BY <2>2, <1>FailedBalance, Zenon
    <2> HIDE DEF i, c, lost
    <2> QED BY <2>1, <2>3, <1>RuntimeStep, Zenon
  <1>JoinStep.
        ASSUME RaftInv, NEW n \in Nodes, NEW x \in Names, NEW g \in Generations,
               NEW role \in Roles, Join(n, role, x, g)
        PROVE  RaftInv'
    <2> USE <1>JoinStep
    <2> DEFINE c == [kind |-> role, node |-> x, generation |-> g]
    <2>1. c \in Cmds
      BY Zenon DEF Cmds, Upserts
    <2>2. n \in up /\ Prepare(n, c)
      BY Zenon DEF Join
    <2> HIDE DEF c
    <2> QED BY Zenon, <2>1, <2>2, <1>CallStep
  <1>LeaveCallStep.
        ASSUME RaftInv, NEW n \in Nodes, NEW x \in Names, NEW g \in Generations,
               LeaveCall(n, x, g)
        PROVE  RaftInv'
    <2> USE <1>LeaveCallStep
    <2> DEFINE role == IF IsMember(image[n], x) THEN "member" ELSE "client"
               e == IF IsMember(image[n], x) THEN image[n].epoch + 1 ELSE image[n].epoch
               c == [kind |-> "left", node |-> x, role |-> role, epoch |-> e]
    <2>1. role \in Roles
      BY Zenon DEF Roles
    <2>2. e \in Nat
      BY ImageFields DEF RaftInv, Types
    <2>3. n \in up /\ Prepare(n, c)
      BY Zenon DEF LeaveCall
    <2> HIDE DEF role, e
    <2>4. c \in Cmds
      BY Zenon, <2>1, <2>2 DEF Cmds, Leaves
    <2> HIDE DEF c
    <2> QED BY Zenon, <2>3, <2>4, <1>CallStep
  <1>ApplyStep.
        ASSUME RaftInv, NEW n \in Nodes, Apply(n)
        PROVE  RaftInv'
    BY Zenon, <1>ApplyStep, <1>AppliedStep, <1>FailedStep
  <1>RestoreUnfolds.
        ASSUME NEW n
        PROVE  /\ Restored(n).index = Last(n)
               /\ Restored(n).state = (CHOOSE at : RestoreOf(n, at))[Last(n)]
    BY Zenon, <1>RestoreUnfolds DEF Restored, RestoreOf, Last, Base
    (* apply_recovered_envelope_at records the id of the entry, once. *)
  <1>RecoverType.
        ASSUME Types, NEW s \in Recoveries, NEW i \in 1 .. Len(log), Recover(s, log[i]) # Failed
        PROVE  /\ Recover(s, log[i]) \in Recoveries
               /\ Recover(s, log[i]).ids = s.ids \cup {Id(log[i])}
               /\ s.ids = IdsOf(s.commands) /\ Unique(s.commands) =>
                     /\ Recover(s, log[i]).ids = IdsOf(Recover(s, log[i]).commands)
                     /\ Unique(Recover(s, log[i]).commands)
    <2> USE <1>RecoverType
    <2> DEFINE c == log[i]
               m == MaterializeCommitted(s.image, c)
               t == [s EXCEPT !.image = m]
    <2>1. c \in Cmds /\ Id(c) \in IdsOf(log)
      BY DEF Types, IdsOf
    <2>2. /\ s.image \in Images /\ s.ids \in SUBSET IdsOf(log) /\ s.commands \in Seq(Cmds)
          /\ s = [image |-> s.image, ids |-> s.ids, commands |-> s.commands]
      BY Zenon DEF Recoveries
    <2>3. m # Failed /\ Recover(s, c) = Record(t, c)
      BY Zenon DEF Recover
    <2>4. m \in Images
      BY Zenon, <2>1, <2>2, <2>3, CommittedType
    <2>5. t = [image |-> m, ids |-> s.ids, commands |-> s.commands]
      BY <2>2
    <2> HIDE DEF m, t, c
    <2>6. t \in Recoveries
      BY Zenon, <2>2, <2>4, <2>5 DEF Recoveries
    <2>7. CASE Id(c) \in s.ids
      <3>1. Recover(s, c) = t
        BY Zenon, <2>3, <2>5, <2>7 DEF Record
      <3> QED BY <3>1, <2>5, <2>6, <2>7 DEF c
    <2>8. CASE Id(c) \notin s.ids
      <3> DEFINE r == [image |-> m, ids |-> s.ids \cup {Id(c)}, commands |-> Append(s.commands, c)]
      <3>1. Recover(s, c) = r
        BY <2>3, <2>5, <2>8, Zenon DEF Record
      <3>2. Append(s.commands, c) \in Seq(Cmds) /\ s.ids \cup {Id(c)} \in SUBSET IdsOf(log)
        BY <2>1, <2>2
      <3>3. r \in Recoveries
        BY Zenon, <2>4, <3>2 DEF Recoveries
      <3>4. r.ids = s.ids \cup {Id(c)} /\ r.commands = Append(s.commands, c)
        BY Zenon
      <3> HIDE DEF r
      <3>5. ASSUME s.ids = IdsOf(s.commands), Unique(s.commands)
            PROVE  r.ids = IdsOf(r.commands) /\ Unique(r.commands)
        BY <3>4, <3>5, <2>1, <2>2, <2>8, AppendIds
      <3> QED BY Zenon, <3>1, <3>3, <3>4, <3>5 DEF c
    <2> QED BY Zenon, <2>7, <2>8
    (* A recovery starts from the stored snapshot. *)
  <1>BaseIsSound.
        ASSUME Induction, Types, NEW n \in Nodes, Ledger(n), Base(n) # Failed
        PROVE  Base(n) \in Sound(n, saved[n].index)
    <2> USE <1>BaseIsSound
    <2> DEFINE cs == saved[n].commands
               b == [image |-> ReplaceMembership(EmptyImage, Stage(cs)),
                     ids |-> IdsOf(cs), commands |-> cs]
    <2>1. saved[n].index \in Nat /\ cs \in Seq(Cmds)
      BY Zenon, SnapshotFields DEF Types
    <2>2. Stage(cs) # Failed /\ Base(n) = b
      BY Zenon DEF Base
    <2>3. Stage(cs) \in Images /\ Unique(cs)
      BY Zenon, <2>1, <2>2, StageType DEF Unique
    <2>4. ReplaceMembership(EmptyImage, Stage(cs)) \in Images
      BY Zenon, <2>3, EmptyIsImage, ReplaceType
    <2>5. IdsOf(cs) \in SUBSET IdsOf(log)
      BY Zenon DEF Ledger
    <2> HIDE DEF cs
    <2>6. b \in Recoveries /\ b.ids = IdsOf(cs) /\ b.commands = cs
      BY Zenon, <2>1, <2>4, <2>5 DEF Recoveries
    <2>7. saved[n].index + 1 .. saved[n].index = {}
      BY <2>1
    <2> HIDE DEF b
    <2> QED BY Zenon, <2>2, <2>3, <2>6, <2>7 DEF Sound, cs
  <1>LastIsCommitted.
        ASSUME Types, NEW n \in Nodes, Ledger(n)
        PROVE  /\ saved[n].index \in Nat /\ Last(n) \in Nat /\ Len(log) \in Nat
               /\ saved[n].index <= Last(n) /\ Last(n) <= Len(log)
               /\ \A i \in saved[n].index + 1 .. Last(n) :
                     i \in 1 .. Len(log) /\ i \in saved[n].index .. Last(n)
                     /\ i - 1 \in saved[n].index .. Last(n) /\ i # saved[n].index
    <2> USE <1>LastIsCommitted
    <2>1. saved[n].index \in Nat /\ durable[n] \in Nat /\ Len(log) \in Nat
      BY SnapshotFields DEF Types
    <2>2. saved[n].index <= Len(log) /\ durable[n] <= Len(log)
      BY Zenon DEF Ledger
    <2> QED BY <2>1, <2>2 DEF Last
  <1>RestoreOfExists.
        ASSUME Induction, Types, NEW n \in Nodes, Ledger(n)
        PROVE  \E at : RestoreOf(n, at)
    <2> USE <1>RestoreOfExists
    <2> DEFINE a == saved[n].index
               b == Last(n)
               S == Recoveries \cup {Failed}
               step == [p \in (a .. b) \X S |->
                          IF p[1] = a \/ p[2] = Failed THEN Failed
                          ELSE Recover(p[2], log[p[1]])]
    <2>1. a \in Nat /\ b \in Nat /\ a <= b
      BY Zenon, <1>LastIsCommitted
    <2>2. Base(n) \in S
      BY Zenon, <1>BaseIsSound DEF Sound
    <2>3. ASSUME NEW i \in a + 1 .. b
          PROVE  i \in 1 .. Len(log) /\ i \in a .. b /\ i - 1 \in a .. b /\ i # a
      BY Zenon, <1>LastIsCommitted
    <2> HIDE DEF a, b
    <2>4. step \in [(a .. b) \X S -> S]
      <3>1. ASSUME NEW p \in (a .. b) \X S, p[1] # a, p[2] # Failed
            PROVE  Recover(p[2], log[p[1]]) \in S
        <4>1. p[1] \in a + 1 .. b /\ p[2] \in Recoveries
          BY <2>1, <3>1
        <4>2. p[1] \in 1 .. Len(log)
          BY Zenon, <4>1, <2>3
        <4> QED BY Zenon, <4>1, <4>2, <1>RecoverType
      <3> QED BY Zenon, <3>1
    <2>5. ASSUME NEW i \in a .. b, NEW s \in S
          PROVE  step[<<i, s>>] = IF i = a \/ s = Failed THEN Failed ELSE Recover(s, log[i])
      <3> HIDE DEF S
      <3> QED BY Zenon
    <2> HIDE DEF step, S
    <2>6. PICK at \in [a .. b -> S] : IsChain(at, a, b, Base(n), step)
      BY ONLY Induction, <2>1, <2>2, <2>4, ChainExists, Zenon
    <2>7. ASSUME NEW i \in a .. b
          PROVE  at[i] = IF i = a THEN Base(n)
                         ELSE IF at[i - 1] = Failed THEN Failed
                         ELSE Recover(at[i - 1], log[i])
      <3>1. CASE i = a
        BY Zenon, <3>1, <2>6 DEF IsChain
      <3>2. CASE i # a
        <4>1. i \in a + 1 .. b
          BY <3>2, <2>1
        <4>2. at[i] = step[<<i, at[i - 1]>>] /\ at[i - 1] \in S
          BY Zenon, <4>1, <2>3, <2>6 DEF IsChain
        <4> QED BY Zenon, <3>2, <4>2, <2>5
      <3> QED BY Zenon, <3>1, <3>2
    <2>8. RestoreOf(n, at)
      BY Zenon, <2>6, <2>7 DEF RestoreOf, a, b
    <2> QED BY Zenon, <2>8
    (* restore_committed_state: what a runtime that starts has seen. *)
  <1>RestoredType.
        ASSUME Induction, Types, NEW n \in Nodes, Ledger(n), Restored(n).state # Failed
        PROVE  /\ Restored(n).index = Last(n)
               /\ Restored(n).state \in Sound(n, Last(n))
    <2> USE <1>RestoredType
    <2> DEFINE at == CHOOSE f : RestoreOf(n, f)
               a == saved[n].index
               b == Last(n)
               S == [i \in a .. b |-> Sound(n, i) \cup {Failed}]
    <2>1. RestoreOf(n, at)
      BY Zenon, <1>RestoreOfExists
    <2>2. Restored(n).state = at[b] /\ Restored(n).index = b
      BY Zenon, <1>RestoreUnfolds
    <2> HIDE DEF at
    <2>3. a \in Nat /\ b \in Nat /\ a <= b
      BY Zenon, <1>LastIsCommitted
    <2>4. ASSUME NEW i \in a + 1 .. b
          PROVE  i \in 1 .. Len(log) /\ i \in a .. b /\ i - 1 \in a .. b /\ i # a
      BY Zenon, <1>LastIsCommitted
    <2>5. /\ at[a] = Base(n)
          /\ \A i \in a + 1 .. b : at[i] = IF at[i - 1] = Failed THEN Failed
                                           ELSE Recover(at[i - 1], log[i])
      <3>1. a \in a .. b
        BY <2>3
      <3>2. at = [i \in a .. b |->
                    IF i = a THEN Base(n)
                    ELSE IF at[i - 1] = Failed THEN Failed ELSE Recover(at[i - 1], log[i])]
        BY Zenon, <2>1 DEF RestoreOf
      <3>3. ASSUME NEW i \in a .. b
            PROVE  at[i] = IF i = a THEN Base(n)
                           ELSE IF at[i - 1] = Failed THEN Failed
                                ELSE Recover(at[i - 1], log[i])
        BY Zenon, <3>2
      <3> QED BY Zenon, <3>1, <3>3, <2>4
    <2> HIDE DEF b
    <2>6. at[a] \in S[a]
      BY <2>3, <2>5, <1>BaseIsSound
    <2>7. ASSUME NEW i \in a + 1 .. b, at[i - 1] \in S[i - 1] PROVE at[i] \in S[i]
      <3> SUFFICES ASSUME at[i] # Failed PROVE at[i] \in Sound(n, i)
        BY Zenon, <2>4
      <3>1. at[i - 1] # Failed /\ at[i] = Recover(at[i - 1], log[i])
        BY Zenon, <2>5
      <3>2. at[i - 1] \in Sound(n, i - 1)
        BY Zenon, <3>1, <2>4, <2>7
      <3> DEFINE s == at[i - 1]
                 r == at[i]
      <3> HIDE DEF s, r
      <3>3. s \in Recoveries /\ s.ids = IdsOf(s.commands) /\ Unique(s.commands)
        BY Zenon, <3>2 DEF Sound, s
      <3>4. r = Recover(s, log[i]) /\ r # Failed /\ i \in 1 .. Len(log)
        BY Zenon, <3>1, <2>4 DEF s, r
      <3>5. /\ r \in Recoveries /\ r.ids = s.ids \cup {Id(log[i])}
            /\ r.ids = IdsOf(r.commands) /\ Unique(r.commands)
        BY Zenon, <3>3, <3>4, <1>RecoverType
      <3>6. ASSUME NEW j \in a + 1 .. i PROVE Id(log[j]) \in r.ids
        <4>1. j = i \/ j \in a + 1 .. i - 1
          BY <2>3
        <4>2. \A k \in a + 1 .. i - 1 : Id(log[k]) \in s.ids
          BY Zenon, <3>2 DEF Sound, s
        <4> QED BY Zenon, <4>1, <4>2, <3>5
      <3>7. IdsOf(saved[n].commands) \subseteq r.ids
        BY Zenon, <3>2, <3>5 DEF Sound, s
      <3>8. r \in Sound(n, i)
        BY Zenon, <3>5, <3>6, <3>7 DEF Sound
      <3> QED BY Zenon, <3>8 DEF r
    <2> HIDE DEF S, a
    <2>8. \A i \in a .. b : at[i] \in S[i]
      BY ONLY Induction, <2>3, <2>6, <2>7, ChainKeeps, Zenon
    <2>9. at[b] \in S[b] /\ b \in a .. b
      BY <2>8, <2>3
    <2>10. at[b] \in Sound(n, b)
      BY Zenon, <2>2, <2>9 DEF S
    <2> QED BY Zenon, <2>2, <2>10 DEF b
    (* install_metadata_snapshot, and a crash between the save and the publish. *)
  <1>InstallStep.
        ASSUME Induction, RaftInv, NEW n \in Nodes, NEW m \in Nodes, NEW crash \in BOOLEAN,
               InstallSnapshot(n, m, crash)
        PROVE  RaftInv'
    <2> USE <1>InstallStep
    <2> DEFINE s == saved[m]
    <2>1. s \in Snapshots /\ s.index \in Nat /\ s.commands \in Seq(Cmds)
      BY Zenon, SnapshotFields DEF RaftInv, Types
    <2>2. /\ s.index <= Len(log) /\ IdsOf(s.commands) \subseteq IdsOf(log)
          /\ Covered(s.commands, s.index)
      BY Zenon DEF RaftInv, Ledger
    <2>3. saved' = [saved EXCEPT ![n] = s] /\ Stage(s.commands) # Failed /\ n \in up
      BY Zenon DEF InstallSnapshot, Deliverable, Idle
    <2>4. CASE crash
      <3>1. Stop(n) /\ UNCHANGED <<log, skipped, proposed, durable>>
        BY Zenon, <2>4 DEF InstallSnapshot
      <3> HIDE DEF s
      <3> QED BY <2>1, <2>2, <2>3, <3>1, <1>StopStep, Zenon
    <2>5. CASE ~crash
      <3> DEFINE i == ReplaceMembership(image[n], Stage(s.commands))
      <3>1. Stage(s.commands) \in Images /\ Unique(s.commands)
        BY Zenon, <2>1, <2>3, StageType DEF Unique
      <3>2. i \in Images
        BY Zenon, <3>1, ReplaceType DEF RaftInv, Types
      <3>3. /\ UNCHANGED <<log, proposed, calls, skipped, crashed>> /\ up' = up \cup {n}
            /\ image' = [image EXCEPT ![n] = i]
            /\ ids' = [ids EXCEPT ![n] = IdsOf(s.commands)]
            /\ commands' = [commands EXCEPT ![n] = s.commands]
            /\ applied' = [applied EXCEPT ![n] = s.index]
            /\ handed' = [handed EXCEPT ![n] = s.index]
            /\ batch' = [batch EXCEPT ![n] = s.index]
            /\ durable' = [durable EXCEPT ![n] = s.index]
        BY Zenon, <2>3, <2>5 DEF InstallSnapshot
      <3> HIDE DEF s, i
      <3>4. s.index <= s.index /\ IdsOf(s.commands) \in SUBSET IdsOf(log)
        BY <2>1, <2>2
      <3> QED BY <2>1, <2>2, <2>3, <3>1, <3>2, <3>3, <3>4, <1>RenewStep, Zenon
    <2> QED BY Zenon, <2>4, <2>5
    (* build_with_storage: recovery has seen all that the store covers. *)
  <1>RestartStep.
        ASSUME Induction, RaftInv, NEW n \in Nodes, Restart(n)
        PROVE  RaftInv'
    <2> USE <1>RestartStep
    <2> DEFINE r == Restored(n).state
               x == Restored(n).index
               s == saved[n]
    <2>1. Types /\ Ledger(n) /\ r # Failed
      BY Zenon DEF RaftInv, Restart
    <2>2. x = Last(n) /\ r \in Sound(n, Last(n))
      BY Zenon, <2>1, <1>RestoredType
    <2>3. /\ s.index \in Nat /\ Last(n) \in Nat /\ s.index <= Last(n) /\ Last(n) <= Len(log)
      BY Zenon, <2>1, <1>LastIsCommitted
    <2>4. /\ r.image \in Images /\ r.ids \in SUBSET IdsOf(log) /\ r.commands \in Seq(Cmds)
          /\ r.ids = IdsOf(r.commands) /\ Unique(r.commands)
          /\ IdsOf(s.commands) \subseteq r.ids
          /\ \A j \in s.index + 1 .. Last(n) : Id(log[j]) \in r.ids
      BY Zenon, <2>2 DEF Sound, Recoveries
    <2>5. /\ UNCHANGED <<log, proposed, calls, skipped, crashed>> /\ up' = up \cup {n}
          /\ image' = [image EXCEPT ![n] = r.image]
          /\ ids' = [ids EXCEPT ![n] = r.ids]
          /\ commands' = [commands EXCEPT ![n] = r.commands]
          /\ applied' = [applied EXCEPT ![n] = x]
          /\ handed' = [handed EXCEPT ![n] = x]
          /\ batch' = [batch EXCEPT ![n] = x]
          /\ durable' = [durable EXCEPT ![n] = x]
          /\ saved' = saved
      BY Zenon DEF Restart
    <2>6. saved' = [saved EXCEPT ![n] = s] /\ s \in Snapshots
      BY Zenon, <2>1, <2>5 DEF Types
    <2>7. IdsOf(s.commands) \subseteq IdsOf(log) /\ Covered(s.commands, s.index)
      BY Zenon, <2>1 DEF Ledger
    <2>8. ASSUME NEW j \in 1 .. Last(n) PROVE Id(log[j]) \in r.ids \cup skipped
      <3>1. j \in 1 .. s.index \/ j \in s.index + 1 .. Last(n)
        BY <2>3
      <3>2. ASSUME j \in 1 .. s.index PROVE Id(log[j]) \in r.ids \cup skipped
        BY Zenon, <3>2, <2>4, <2>7 DEF Covered
      <3> QED BY Zenon, <3>1, <3>2, <2>4
    <2> HIDE DEF r, x, s
    <2>9. Covered(r.commands, Last(n))
      BY Zenon, <2>4, <2>8 DEF Covered
    <2> QED BY <2>2, <2>3, <2>4, <2>5, <2>6, <2>7, <2>9, <1>RenewStep, Zenon
  <1> SUFFICES ASSUME Induction, RaftInv, [Next]_vars PROVE RaftInv'
    BY Zenon
  <1>1. ASSUME NEW n \in Nodes, NEW x \in Names, NEW g \in Generations,
               (\E role \in Roles : Join(n, role, x, g)) \/ LeaveCall(n, x, g)
        PROVE  RaftInv'
    BY Zenon, <1>1, <1>JoinStep, <1>LeaveCallStep
  <1>2. ASSUME NEW n \in Nodes, NEW k \in calls, CommitCommand(n, k.command) PROVE RaftInv'
    BY Zenon, <1>2, <1>ProposalStep
  <1>3. ASSUME NEW n \in Nodes, NEW i \in 1 .. MaxLog, Ready(n, i) PROVE RaftInv'
    BY Zenon, <1>3, <1>ReadyStep
  <1>4. ASSUME NEW n \in Nodes,
               Apply(n) \/ MarkApplied(n) \/ Compact(n) \/ Crash(n) \/ Restart(n)
        PROVE  RaftInv'
    BY Zenon, <1>4, <1>ApplyStep, <1>MarkAppliedStep, <1>CompactStep, <1>CrashStep, <1>RestartStep
  <1>5. ASSUME NEW n \in Nodes, NEW m \in Nodes, NEW crash \in BOOLEAN,
               InstallSnapshot(n, m, crash)
        PROVE  RaftInv'
    BY Zenon, <1>5, <1>InstallStep
  <1>6. ASSUME NEW c \in proposed, Commit(c) \/ Lose(c) PROVE RaftInv'
    BY Zenon, <1>6, <1>CommitStep, <1>LoseStep
  <1>7. CASE UNCHANGED vars
    <2>1. Types'
      BY Zenon, <1>7 DEF vars, RaftInv, Types
    <2>2. ASSUME NEW k \in Nodes PROVE Ledger(k)'
      BY <1>7, <1>UnaffectedByRuntime, Zenon DEF vars, RaftInv
    <2> QED BY Zenon, <2>1, <2>2 DEF RaftInv
  <1> QED BY Zenon, <1>1, <1>2, <1>3, <1>4, <1>5, <1>6, <1>7 DEF Next

(* RaftInv says at least what TypeOK does.                                  *)
LEMMA InvTypes ==
  RaftInv => TypeOK
  <1> SUFFICES ASSUME RaftInv PROVE TypeOK
    BY Zenon
  <1>1. /\ log \in Seq(Upserts \cup Leaves) /\ Len(log) <= MaxLog
        /\ proposed \subseteq Upserts \cup Leaves
        /\ calls \subseteq [at : up, command : Upserts \cup Leaves]
        /\ up \subseteq Nodes /\ image \in [Nodes -> Images]
        /\ commands \in [Nodes -> Seq(Upserts \cup Leaves)]
        /\ saved \in [Nodes -> Snapshots]
        /\ skipped \subseteq IdsOf(log) /\ crashed \in BOOLEAN
    BY Zenon DEF RaftInv, Types, Cmds
  <1>2. \A n \in Nodes : ids[n] \subseteq IdsOf(log)
    BY Zenon DEF RaftInv, Types
  <1>3. ASSUME NEW n \in Nodes
        PROVE  /\ applied[n] <= handed[n] /\ handed[n] <= batch[n]
               /\ batch[n] <= Len(log) /\ saved[n].index <= Len(log)
               /\ durable[n] \in 0 .. Len(log)
    <2>1. durable[n] \in Nat /\ Len(log) \in Nat
      BY DEF RaftInv, Types
    <2> QED BY <2>1 DEF RaftInv, Ledger
  <1> QED BY Zenon, <1>1, <1>2, <1>3 DEF TypeOK

(* Covered, read at the applied index.                                      *)
LEMMA InvKnown ==
  RaftInv => AppliedIsKnown
  <1> SUFFICES ASSUME RaftInv, NEW n \in up, NEW i \in 1 .. applied[n]
               PROVE  Id(log[i]) \in ids[n] \cup skipped
    BY Zenon DEF AppliedIsKnown
  <1>1. n \in Nodes
    BY Zenon DEF RaftInv, Types
  <1>2. applied[n] \in Nat /\ handed[n] \in Nat /\ applied[n] <= handed[n]
    BY Zenon, <1>1 DEF RaftInv, Types, Ledger
  <1>3. i \in 1 .. handed[n]
    BY <1>2
  <1>4. Covered(commands[n], handed[n]) /\ IdsOf(commands[n]) \subseteq ids[n]
    BY Zenon, <1>1 DEF RaftInv, Ledger
  <1> QED BY Zenon, <1>3, <1>4 DEF Covered

(* The step of StampFencesMembers.                                          *)
LEMMA StampStep ==
  Induction /\ RaftInv /\ [Next]_vars =>
          [image' # image =>
             \A n \in up \cap up' :
                /\ image'[n].stamp >= image[n].stamp
                /\ image'[n].members # image[n].members =>
                       image'[n].stamp > image[n].stamp
                /\ image'[n].epoch >= image[n].epoch \/ saved'[n] # saved[n]]_vars
    (* A step either leaves the image of a running process alone, or moves its  *)
    (* stamp with its members and keeps its epoch from going back, or installs  *)
    (* a snapshot that is new to it.                                            *)
  <1>ImageStep.
        ASSUME Induction, RaftInv, Next, NEW n \in up, n \in up'
        PROVE  \/ image'[n] = image[n]
               \/ Fenced(image[n], image'[n]) /\ image'[n].epoch >= image[n].epoch
               \/ Fenced(image[n], image'[n]) /\ saved'[n] # saved[n]
    <2> USE <1>ImageStep
    <2> USE DEF memory
    <2>0. n \in Nodes /\ image \in [Nodes -> Images]
      BY Zenon DEF RaftInv, Types
    <2>1. ASSUME NEW k \in Nodes, NEW x \in Names, NEW g \in Generations,
                 (\E role \in Roles : Join(k, role, x, g)) \/ LeaveCall(k, x, g)
          PROVE  image' = image
      BY <2>1, Zenon DEF Join, LeaveCall, Prepare
    <2>2. ASSUME NEW k \in Nodes, NEW c, CommitCommand(k, c) PROVE image' = image
      BY Zenon, <2>2 DEF CommitCommand
    <2>3. ASSUME NEW k \in Nodes, NEW i, Ready(k, i) PROVE image' = image
      BY Zenon, <2>3 DEF Ready
    <2>4. ASSUME NEW k \in Nodes, MarkApplied(k) \/ Compact(k) PROVE image' = image
      BY Zenon, <2>4 DEF MarkApplied, Compact
    <2>5. ASSUME NEW c, Commit(c) \/ Lose(c) PROVE image' = image
      BY Zenon, <2>5 DEF Commit, Lose
    <2>6. ASSUME NEW k \in Nodes, Apply(k)
          PROVE  \/ image'[n] = image[n]
                 \/ Fenced(image[n], image'[n]) /\ image'[n].epoch >= image[n].epoch
      <3> DEFINE c == log[handed[k] + 1]
                 r == MaterializeCommitted(image[k], c)
      <3>1. c \in Cmds
        BY Zenon, <2>6, AppliedEntry DEF Apply
      <3>2. image' = image \/ image' = [image EXCEPT ![k] = image[k]]
            \/ (image' = [image EXCEPT ![k] = r] /\ r # Failed)
        BY Zenon, <2>6 DEF Apply
      <3>3. r # Failed => Fenced(image[k], r) /\ r.epoch >= image[k].epoch
        BY Zenon, <3>1, <2>0, CommittedType
      <3> HIDE DEF r
      <3> QED BY Zenon, <2>0, <3>2, <3>3
    <2>7. ASSUME NEW k \in Nodes, Crash(k) PROVE image'[n] = image[n]
      <3>1. n # k /\ image' = [image EXCEPT ![k] = EmptyImage]
        BY Zenon, <2>7 DEF Crash, Stop
      <3> QED BY Zenon, <2>0, <3>1
    <2>8. ASSUME NEW k \in Nodes, Restart(k) PROVE image'[n] = image[n]
      <3>1. n # k /\ image' = [image EXCEPT ![k] = Restored(k).state.image]
        BY Zenon, <2>8 DEF Restart
      <3> QED BY Zenon, <2>0, <3>1
    <2>9. ASSUME NEW k \in Nodes, NEW m \in Nodes, NEW crash \in BOOLEAN,
                 InstallSnapshot(k, m, crash)
          PROVE  \/ image'[n] = image[n]
                 \/ Fenced(image[n], image'[n]) /\ saved'[n] # saved[n]
      <3>1. CASE crash
        <4>1. n # k /\ image' = [image EXCEPT ![k] = EmptyImage]
          BY Zenon, <2>9, <3>1 DEF InstallSnapshot, Stop
        <4>2. image'[n] = image[n]
          BY Zenon, <2>0, <4>1
        <4> QED BY Zenon, <4>2
      <3>2. CASE ~crash
        <4> DEFINE st == Stage(saved[m].commands)
        <4>1. /\ image' = [image EXCEPT ![k] = ReplaceMembership(image[k], st)]
              /\ saved' = [saved EXCEPT ![k] = saved[m]]
              /\ st # Failed /\ saved[m].index > handed[k]
          BY Zenon, <2>9, <3>2 DEF InstallSnapshot, Deliverable
        <4>2. saved[m].commands \in Seq(Cmds) /\ saved[m].index \in Nat /\ saved[k].index \in Nat
          BY Zenon, SnapshotFields DEF RaftInv, Types
        <4>3. st \in Images
          BY Zenon, <4>1, <4>2, StageType
        <4> HIDE DEF st
        <4>4. Fenced(image[k], ReplaceMembership(image[k], st))
          BY Zenon, <2>0, <4>3, ReplaceType
        <4>5. CASE n # k
          <5>1. image'[n] = image[n]
            BY Zenon, <2>0, <4>1, <4>5
          <5> QED BY Zenon, <5>1
        <4>6. CASE n = k
          <5>1. saved[n].index <= applied[n] /\ applied[n] <= handed[n]
            BY Zenon, <2>0 DEF RaftInv, Ledger
          <5>2. applied[n] \in Nat /\ handed[n] \in Nat
            BY Zenon, <2>0 DEF RaftInv, Types
          <5>3. saved[m].index # saved[n].index
            BY <4>1, <4>2, <4>6, <5>1, <5>2
          <5>4. saved'[n] = saved[m]
            BY Zenon, <2>0, <4>1, <4>6 DEF RaftInv, Types
          <5>5. image'[n] = ReplaceMembership(image[k], st)
            BY Zenon, <2>0, <4>1, <4>6
          <5> QED BY Zenon, <4>4, <4>6, <5>3, <5>4, <5>5
        <4> QED BY Zenon, <4>5, <4>6
      <3> QED BY Zenon, <3>1, <3>2
    <2> QED BY Zenon, <2>1, <2>2, <2>3, <2>4, <2>5, <2>6, <2>7, <2>8, <2>9 DEF Next
  <1> SUFFICES ASSUME Induction, RaftInv, Next, NEW n \in up \cap up'
               PROVE  /\ image'[n].stamp >= image[n].stamp
                      /\ image'[n].members # image[n].members =>
                             image'[n].stamp > image[n].stamp
                      /\ image'[n].epoch >= image[n].epoch \/ saved'[n] # saved[n]
    BY Zenon
  <1>1. image[n].stamp \in Nat /\ image[n].epoch \in Nat
    BY Zenon, ImageFields DEF RaftInv, Types
  <1> QED BY <1>1, <1>ImageStep DEF Fenced

-----------------------------------------------------------------------------
Tracks(f, n) ==
    /\ handed[n] = applied[n] /\ ids[n] = IdsUpTo(log, applied[n])
    /\ Agree(image[n], f[applied[n]])
    /\ Builds(log, f, commands[n], applied[n])
    /\ Builds(log, f, saved[n].commands, saved[n].index)

(* Every runtime runs, and has the image of the entries it applied. *)
OneView == up = Nodes /\ \E f : LiveTo(log, f) /\ \A n \in Nodes : Tracks(f, n)

ViewInv == ~crashed /\ OneRole => OneView

LEMMA ViewInit == Induction /\ Init => ViewInv
  <1> SUFFICES ASSUME Induction, Init PROVE OneView
    BY Zenon DEF ViewInv
  <1> DEFINE f == [i \in {0} |-> EmptyImage]
  <1>1. f[0] = EmptyImage /\ Len(log) = 0
    BY Zenon DEF Init
  <1> HIDE DEF f
  <1>2. LiveTo(log, f)
    BY <1>1 DEF LiveTo
  <1>3. Builds(log, f, <<>>, 0) /\ IdsUpTo(log, 0) = {}
    <2>1. IdsUpTo(log, 0) = {}
      BY DEF IdsUpTo
    <2>2. Known(EmptyImage, {})
      BY Zenon DEF Known, EmptyImage
    <2>3. Agree(EmptyImage, EmptyImage)
      BY Zenon DEF Agree
    <2>4. Stage(<<>>) # Failed => Agree(Stage(<<>>), f[0])
      BY <1>1, <2>3, StageOfNone, Zenon
    <2>5. 0 \in 0 .. Len(log) /\ IdsOf(<<>>) = {} /\ EmptyImage \in Images
      BY <1>1, EmptyIds, EmptyIsImage
    <2> QED BY <1>1, <2>1, <2>2, <2>4, <2>5, Zenon DEF Builds
  <1>4. ASSUME NEW n \in Nodes PROVE Tracks(f, n)
    <2>1. /\ handed[n] = 0 /\ applied[n] = 0 /\ ids[n] = {} /\ image[n] = EmptyImage
          /\ commands[n] = <<>> /\ saved[n].commands = <<>> /\ saved[n].index = 0
      BY Zenon DEF Init, NoSnapshot
    <2> QED BY <1>1, <1>3, <2>1, Zenon DEF Tracks, Agree
  <1> QED BY <1>2, <1>4, Zenon DEF OneView, Init

(* Calls, proposals and Readys, and what they do to the store's index. *)
LEMMA QuietView ==
    ASSUME OneView, UNCHANGED <<log, up, image, ids, commands, applied, handed, saved>>
    PROVE  OneView'
  <1>1. PICK f : LiveTo(log, f) /\ \A n \in Nodes : Tracks(f, n)
    BY Zenon DEF OneView
  <1>2. LiveTo(log', f)
    BY Zenon, <1>1
  <1>3. ASSUME NEW n \in Nodes PROVE Tracks(f, n)'
    BY Zenon, <1>1 DEF Tracks
  <1> QED BY <1>2, <1>3, Zenon DEF OneView

(* raft-rs commits a command: the images so far stay. *)
LEMMA CommitView ==
    ASSUME RaftInv, OneView, NEW c, Commit(c)
    PROVE  OneView'
  <1>1. PICK f : LiveTo(log, f) /\ \A n \in Nodes : Tracks(f, n)
    BY Zenon DEF OneView
  <1> DEFINE l == Len(log)
             G == [i \in 0 .. l + 1 |->
                     IF i <= l THEN f[i]
                     ELSE IF Id(c) \in IdsUpTo(log, l) THEN f[l] ELSE MaterializeCommitted(f[l], c)]
  <1>g. PICK g : g = G
    BY Zenon
  <1>2. c \in Cmds /\ log \in Seq(Cmds) /\ l \in Nat
    BY DEF RaftInv, Types, Commit
  <1>3. Len(log') = l + 1 /\ log'[l + 1] = c /\ \A i \in 1 .. l : log'[i] = log[i]
    BY <1>2 DEF Commit
  <1>4. ASSUME NEW i \in 0 .. l PROVE IdsUpTo(log', i) = IdsUpTo(log, i) /\ g[i] = f[i]
    <2>1. \A j \in 1 .. i : log'[j] = log[j]
      BY <1>2, <1>3
    <2>2. IdsUpTo(log', i) = IdsUpTo(log, i)
      BY Zenon, <2>1 DEF IdsUpTo
    <2>3. g[i] = f[i]
      BY <1>2, <1>g
    <2> QED BY Zenon, <2>2, <2>3
  <1>5. g[l + 1] = IF Id(c) \in IdsUpTo(log, l) THEN f[l] ELSE MaterializeCommitted(f[l], c)
    BY <1>2, <1>g
  <1> HIDE DEF G, l
  <1>6. LiveTo(log', g)
    <2>1. g[0] = EmptyImage
      BY <1>1, <1>2, <1>4 DEF LiveTo
    <2>2. ASSUME NEW i \in 1 .. l + 1
          PROVE  g[i] = IF Id(log'[i]) \in IdsUpTo(log', i - 1) THEN g[i - 1]
                        ELSE MaterializeCommitted(g[i - 1], log'[i])
      <3>1. i - 1 \in 0 .. l /\ (i \in 1 .. l \/ i = l + 1)
        BY <1>2
      <3>2. IdsUpTo(log', i - 1) = IdsUpTo(log, i - 1) /\ g[i - 1] = f[i - 1]
        BY Zenon, <3>1, <1>4
      <3>3. CASE i \in 1 .. l
        <4>1. i \in 0 .. l
          BY <3>3, <1>2
        <4>2. f[i] = IF Id(log[i]) \in IdsUpTo(log, i - 1) THEN f[i - 1]
                     ELSE MaterializeCommitted(f[i - 1], log[i])
          BY Zenon, <1>1, <3>3 DEF LiveTo, l
        <4> QED BY Zenon, <1>3, <1>4, <3>2, <3>3, <4>1, <4>2
      <3>4. CASE i = l + 1
        <4>1. i - 1 = l
          BY <3>4, <1>2
        <4> QED BY Zenon, <1>3, <1>5, <3>2, <3>4, <4>1
      <3> QED BY Zenon, <3>1, <3>3, <3>4
    <2> QED BY Zenon, <1>3, <2>1, <2>2 DEF LiveTo
  <1>7. ASSUME NEW cs, NEW k, Builds(log, f, cs, k) PROVE Builds(log', g, cs, k)
    <2>1. k \in 0 .. l /\ k \in 0 .. l + 1
      BY <1>2, <1>7 DEF Builds, l
    <2> QED BY Zenon, <1>3, <1>4, <1>7, <2>1 DEF Builds
  <1>8. ASSUME NEW n \in Nodes PROVE Tracks(g, n)'
    <2>1. Tracks(f, n) /\ UNCHANGED <<image, ids, commands, applied, handed, saved>>
      BY Zenon, <1>1 DEF Commit, memory
    <2>2. applied[n] \in 0 .. l
      BY Zenon, <2>1 DEF Tracks, Builds, l
    <2>3. /\ Builds(log', g, commands[n], applied[n])
          /\ Builds(log', g, saved[n].commands, saved[n].index)
      <3>1. /\ Builds(log, f, commands[n], applied[n])
            /\ Builds(log, f, saved[n].commands, saved[n].index)
        BY Zenon, <2>1 DEF Tracks
      <3> QED BY Zenon, <3>1, <1>7
    <2> QED BY Zenon, <2>1, <2>2, <2>3, <1>4 DEF Tracks
  <1> QED BY Zenon, <1>6, <1>8 DEF OneView, Commit

(* What a step of one runtime leaves alone. *)
LEMMA OtherTracks ==
    ASSUME NEW f, NEW k \in Nodes, Tracks(f, k), log' = log, handed'[k] = handed[k],
           applied'[k] = applied[k], ids'[k] = ids[k], image'[k] = image[k],
           commands'[k] = commands[k], saved'[k] = saved[k]
    PROVE  Tracks(f, k)'
  BY Zenon DEF Tracks

(* apply_committed_entries: the entry does not fail, and the envelope it    *)
(* adds does to the staged image what it does to the live one.              *)
LEMMA ApplyView ==
    ASSUME Induction, RaftInv, OneRole, OneView, NEW n \in Nodes, Apply(n)
    PROVE  OneView'
  <1>1. PICK f : LiveTo(log, f) /\ \A k \in Nodes : Tracks(f, k)
    BY Zenon DEF OneView
  <1> DEFINE a == applied[n]
             c == log[a + 1]
             cs == commands[n]
  <1>2. /\ handed[n] = a /\ ids[n] = IdsUpTo(log, a) /\ Agree(image[n], f[a])
        /\ Builds(log, f, cs, a) /\ Builds(log, f, saved[n].commands, saved[n].index)
    BY Zenon, <1>1 DEF Tracks
  <1>3. f[a] \in Images /\ Known(f[a], IdsUpTo(log, a)) /\ IdsOf(cs) = IdsUpTo(log, a)
    BY <1>2, Zenon DEF Builds
  <1>4. /\ a \in Nat /\ a + 1 \in 1 .. Len(log) /\ c \in Cmds /\ log \in Seq(Cmds)
        /\ a + 1 \in 0 .. Len(log) /\ image[n] \in Images /\ cs \in Seq(Cmds)
    <2>1. handed[n] < batch[n] /\ log \in Seq(Cmds) /\ image[n] \in Images
      BY Zenon DEF Apply, RaftInv, Types
    <2>2. handed[n] + 1 \in 1 .. Len(log) /\ log[handed[n] + 1] \in Cmds
      BY <2>1, AppliedEntry, Zenon
    <2>3. a \in Nat /\ cs \in Seq(Cmds) /\ Len(log) \in Nat
      BY <2>1 DEF RaftInv, Types
    <2>4. a + 1 \in 0 .. Len(log)
      BY <1>2, <2>2, <2>3
    <2> QED BY Zenon, <1>2, <2>1, <2>2, <2>3, <2>4
  <1>5. /\ f[a + 1] \in Images /\ Known(f[a + 1], IdsUpTo(log, a + 1))
        /\ IdsUpTo(log, a + 1) = IdsUpTo(log, a) \cup {Id(c)}
        /\ Id(c) \in IdsUpTo(log, a) => f[a + 1] = f[a]
        /\ Id(c) \notin IdsUpTo(log, a) =>
              /\ f[a + 1] = MaterializeCommitted(f[a], c)
              /\ MaterializeCommitted(f[a], c) # Failed
              /\ Fits(f[a], c)
    BY Zenon, <1>1, <1>3, <1>4, LiveEntry, IdsGrow
  <1>6. /\ UNCHANGED <<log, up, saved>>
        /\ ids' = [ids EXCEPT ![n] = ids[n] \cup {Id(c)}]
        /\ applied' = [applied EXCEPT ![n] = a + 1]
        /\ handed' = [handed EXCEPT ![n] = a + 1]
        /\ Id(c) \in ids[n] => image' = [image EXCEPT ![n] = image[n]] /\ commands' = commands
        /\ Id(c) \notin ids[n] =>
              /\ image' = [image EXCEPT ![n] = MaterializeCommitted(image[n], c)]
              /\ commands' = [commands EXCEPT ![n] = Append(cs, c)]
    <2>1. Id(c) \notin ids[n] => MaterializeCommitted(image[n], c) # Failed
      BY Zenon, <1>2, <1>3, <1>4, <1>5, CommittedAgrees
    <2>2. image[n] # Failed
      BY Zenon, <1>4, FailedIsNoImage
    <2>3. c = log[handed[n] + 1] /\ handed[n] + 1 = a + 1
      BY Zenon, <1>2
    <2> HIDE DEF a, c
    <2> QED BY Zenon, <2>1, <2>2, <2>3 DEF Apply, cs
  <1>7. n \in DOMAIN image /\ n \in DOMAIN ids /\ n \in DOMAIN applied
        /\ n \in DOMAIN handed /\ n \in DOMAIN commands
    BY Zenon DEF RaftInv, Types
  <1> HIDE DEF a, c, cs
  <1>8. /\ handed'[n] = a + 1 /\ applied'[n] = a + 1
        /\ ids'[n] = IdsUpTo(log, a + 1) /\ saved'[n] = saved[n]
    BY Zenon, <1>2, <1>5, <1>6, <1>7
  <1>9. Agree(image'[n], f[a + 1]) /\ Builds(log, f, commands'[n], a + 1)
    <2>1. CASE Id(c) \in ids[n]
      <3>1. image'[n] = image[n] /\ commands'[n] = cs /\ f[a + 1] = f[a]
        BY Zenon, <2>1, <1>2, <1>5, <1>6, <1>7 DEF cs
      <3>2. IdsUpTo(log, a + 1) = IdsUpTo(log, a)
        BY Zenon, <2>1, <1>2, <1>5
      <3> QED BY <3>1, <3>2, <1>2, <1>4, Zenon DEF Builds
    <2>2. CASE Id(c) \notin ids[n]
      <3>1. image'[n] = MaterializeCommitted(image[n], c) /\ commands'[n] = Append(cs, c)
        BY Zenon, <2>2, <1>6, <1>7
      <3>2. /\ f[a + 1] = MaterializeCommitted(f[a], c) /\ Fits(f[a], c)
            /\ MaterializeCommitted(f[a], c) # Failed
        BY Zenon, <2>2, <1>2, <1>5
      <3>3. Agree(image'[n], f[a + 1])
        BY Zenon, <3>1, <3>2, <1>2, <1>3, <1>4, CommittedAgrees
      <3>4. IdsOf(Append(cs, c)) = IdsUpTo(log, a + 1)
        BY Zenon, <1>3, <1>4, <1>5, AppendIds
      <3>5. ASSUME Stage(Append(cs, c)) # Failed
            PROVE  Agree(Stage(Append(cs, c)), f[a + 1])
        <4>1. /\ Stage(cs) # Failed
              /\ Stage(Append(cs, c)) = MaterializeSnapshot(Stage(cs), c)
          BY Zenon, <3>5, <1>4, StageAppend
        <4>2. Stage(cs) \in Images /\ Agree(Stage(cs), f[a])
          BY Zenon, <4>1, <1>2, <1>4, StageType DEF Builds
        <4> QED BY Zenon, <4>1, <4>2, <3>2, <3>5, <1>3, <1>4, StagedIsLive
      <3> QED BY <3>1, <3>3, <3>4, <3>5, <1>4, <1>5, Zenon DEF Builds
    <2> QED BY Zenon, <2>1, <2>2
  <1>10. ASSUME NEW k \in Nodes PROVE Tracks(f, k)'
    <2>1. CASE k = n
      BY Zenon, <2>1, <1>2, <1>6, <1>8, <1>9 DEF Tracks
    <2>2. CASE k # n
      <3>1. /\ handed'[k] = handed[k] /\ applied'[k] = applied[k] /\ ids'[k] = ids[k]
            /\ image'[k] = image[k] /\ commands'[k] = commands[k] /\ saved'[k] = saved[k]
        BY Zenon, <2>2, <1>6 DEF RaftInv, Types
      <3> QED BY Zenon, <3>1, <1>1, <1>6, OtherTracks
    <2> QED BY Zenon, <2>1, <2>2
  <1> QED BY <1>1, <1>6, <1>10, Zenon DEF OneView

(* compact_applied_log_to_snapshot stores what the runtime has. *)
LEMMA CompactView ==
    ASSUME RaftInv, OneView, NEW n \in Nodes, Compact(n)
    PROVE  OneView'
  <1>1. PICK f : LiveTo(log, f) /\ \A k \in Nodes : Tracks(f, k)
    BY Zenon DEF OneView
  <1>2. /\ UNCHANGED <<log, up, image, ids, commands, applied, handed>>
        /\ saved' = [saved EXCEPT ![n] = [index |-> applied[n], commands |-> commands[n],
                                          source |-> n]]
    BY Zenon DEF Compact, memory
  <1>3. ASSUME NEW k \in Nodes PROVE Tracks(f, k)'
    <2>0. saved \in [Nodes -> Snapshots]
      BY Zenon DEF RaftInv, Types
    <2>1. CASE k = n
      <3>1. saved'[n].index = applied[n] /\ saved'[n].commands = commands[n]
        BY Zenon, <1>2, <2>0
      <3> QED BY Zenon, <2>1, <3>1, <1>1, <1>2 DEF Tracks
    <2>2. CASE k # n
      <3>1. saved'[k] = saved[k]
        BY Zenon, <2>0, <2>2, <1>2
      <3> QED BY Zenon, <3>1, <1>1, <1>2, OtherTracks
    <2> QED BY Zenon, <2>1, <2>2
  <1> QED BY <1>1, <1>2, <1>3, Zenon DEF OneView

(* install_metadata_snapshot: the runtime takes over the view of the peer   *)
(* at the snapshot's index.                                                 *)
LEMMA InstallView ==
    ASSUME Induction, RaftInv, OneView, NEW n \in Nodes, NEW m \in Nodes,
           InstallSnapshot(n, m, FALSE)
    PROVE  OneView'
  <1>1. PICK f : LiveTo(log, f) /\ \A k \in Nodes : Tracks(f, k)
    BY Zenon DEF OneView
  <1> DEFINE s == saved[m]
             r == ReplaceMembership(image[n], Stage(s.commands))
  <1>2. /\ UNCHANGED <<log, up>> /\ Stage(s.commands) # Failed
        /\ saved' = [saved EXCEPT ![n] = s]
        /\ image' = [image EXCEPT ![n] = r]
        /\ ids' = [ids EXCEPT ![n] = IdsOf(s.commands)]
        /\ commands' = [commands EXCEPT ![n] = s.commands]
        /\ applied' = [applied EXCEPT ![n] = s.index]
        /\ handed' = [handed EXCEPT ![n] = s.index]
    BY Zenon DEF InstallSnapshot, Deliverable
  <1>3. Builds(log, f, s.commands, s.index)
    BY Zenon, <1>1 DEF Tracks
  <1>4. Agree(r, f[s.index])
    <2>1. s.commands \in Seq(Cmds) /\ image[n] \in Images
      BY Zenon, SnapshotFields DEF RaftInv, Types
    <2>2. Stage(s.commands) \in Images
      BY Zenon, <1>2, <2>1, StageType
    <2>3. Agree(r, Stage(s.commands)) /\ Agree(Stage(s.commands), f[s.index])
      BY Zenon, <1>2, <1>3, <2>1, <2>2, ReplaceAgrees DEF Builds
    <2> QED BY Zenon, <2>3 DEF Agree
  <1> HIDE DEF s, r
  <1>5. /\ saved'[n] = s /\ image'[n] = r /\ ids'[n] = IdsOf(s.commands)
        /\ commands'[n] = s.commands /\ applied'[n] = s.index /\ handed'[n] = s.index
    BY Zenon, <1>2 DEF RaftInv, Types
  <1>6. ASSUME NEW k \in Nodes PROVE Tracks(f, k)'
    <2>1. CASE k = n
      <3>1. IdsOf(s.commands) = IdsUpTo(log, s.index)
        BY <1>3, Zenon DEF Builds
      <3> QED BY Zenon, <2>1, <3>1, <1>2, <1>3, <1>4, <1>5 DEF Tracks
    <2>2. CASE k # n
      <3>1. /\ handed'[k] = handed[k] /\ applied'[k] = applied[k] /\ ids'[k] = ids[k]
            /\ image'[k] = image[k] /\ commands'[k] = commands[k] /\ saved'[k] = saved[k]
        BY Zenon, <2>2, <1>2 DEF RaftInv, Types
      <3> QED BY Zenon, <3>1, <1>1, <1>2, OtherTracks
    <2> QED BY Zenon, <2>1, <2>2
  <1> QED BY <1>1, <1>2, <1>6, Zenon DEF OneView

LEMMA ViewStep == Induction /\ RaftInv /\ ViewInv /\ [Next]_vars => ViewInv'
  <1> SUFFICES ASSUME Induction, RaftInv, ViewInv, [Next]_vars, ~crashed', OneRole' PROVE OneView'
    BY Zenon DEF ViewInv
  <1>1. ASSUME NEW n \in Nodes, Crash(n) PROVE FALSE
    BY Zenon, <1>1 DEF Crash, Stop
  <1>2. ASSUME NEW n \in Nodes, NEW m \in Nodes, InstallSnapshot(n, m, TRUE) PROVE FALSE
    BY Zenon, <1>2 DEF InstallSnapshot, Stop
  <1>3. ~crashed
    <2>1. ASSUME NEW n \in Nodes,
                 \/ \E x \in Names, g \in Generations :
                       (\E role \in Roles : Join(n, role, x, g)) \/ LeaveCall(n, x, g)
                 \/ \E k \in calls : CommitCommand(n, k.command)
                 \/ \E i \in 1 .. MaxLog : Ready(n, i)
                 \/ Apply(n) \/ MarkApplied(n) \/ Compact(n) \/ Restart(n)
          PROVE  crashed' = crashed
      BY <2>1, Zenon DEF Join, LeaveCall, Prepare, CommitCommand, Ready, Apply,
                         MarkApplied, Compact, Restart
    <2>2. ASSUME NEW n \in Nodes, NEW m \in Nodes, NEW crash \in BOOLEAN,
                 InstallSnapshot(n, m, crash)
          PROVE  crashed' = crashed
      BY Zenon, <2>2, <1>2 DEF InstallSnapshot
    <2>3. ASSUME NEW c, Commit(c) \/ Lose(c) PROVE crashed' = crashed
      BY Zenon, <2>3 DEF Commit, Lose
    <2> QED BY <1>1, <2>1, <2>2, <2>3, Zenon DEF Next, vars
  <1>4. OneRole
    <2>1. CASE log' = log
      BY Zenon, <2>1 DEF OneRole
    <2>2. ASSUME NEW c, Commit(c) PROVE OneRole
      <3>1. /\ Len(log) \in Nat /\ Len(log') = Len(log) + 1
            /\ \A i \in 1 .. Len(log) : log'[i] = log[i]
        <4>1. c \in Cmds /\ log \in Seq(Cmds) /\ log' = Append(log, c)
          BY Zenon, <2>2 DEF Commit, RaftInv, Types
        <4> QED BY <4>1
      <3>2. \A i \in 1 .. Len(log) : i \in 1 .. Len(log')
        BY <3>1
      <3> QED BY <3>1, <3>2 DEF OneRole
    <2>3. ASSUME NEW n \in Nodes,
                 \/ \E x \in Names, g \in Generations :
                       (\E role \in Roles : Join(n, role, x, g)) \/ LeaveCall(n, x, g)
                 \/ \E k \in calls : CommitCommand(n, k.command)
                 \/ \E i \in 1 .. MaxLog : Ready(n, i)
                 \/ Apply(n) \/ MarkApplied(n) \/ Compact(n) \/ Crash(n) \/ Restart(n)
                 \/ \E m \in Nodes, crash \in BOOLEAN : InstallSnapshot(n, m, crash)
          PROVE  log' = log
      BY <2>3, Zenon DEF Join, LeaveCall, Prepare, CommitCommand, Ready, Apply,
                         MarkApplied, Compact, Crash, Restart, InstallSnapshot
    <2>4. ASSUME NEW c, Lose(c) PROVE log' = log
      BY Zenon, <2>4 DEF Lose
    <2> QED BY <2>1, <2>2, <2>3, <2>4, Zenon DEF Next, vars
  <1>5. OneView /\ up = Nodes
    BY Zenon, <1>3, <1>4 DEF ViewInv, OneView
  <1>6. ASSUME NEW n \in Nodes,
               \/ \E x \in Names, g \in Generations :
                     (\E role \in Roles : Join(n, role, x, g)) \/ LeaveCall(n, x, g)
               \/ \E k \in calls : CommitCommand(n, k.command)
               \/ \E i \in 1 .. MaxLog : Ready(n, i)
               \/ MarkApplied(n)
        PROVE  OneView'
    <2>1. UNCHANGED <<log, up, image, ids, commands, applied, handed, saved>>
      BY <1>6, Zenon DEF Join, LeaveCall, Prepare, CommitCommand, Ready, MarkApplied, memory
    <2> QED BY Zenon, <2>1, <1>5, QuietView
  <1>7. ASSUME NEW n \in Nodes, Apply(n) \/ Compact(n) \/ Restart(n) PROVE OneView'
    <2>1. ~Restart(n)
      BY Zenon, <1>5 DEF Restart
    <2> QED BY Zenon, <2>1, <1>4, <1>5, <1>7, ApplyView, CompactView
  <1>8. ASSUME NEW n \in Nodes, NEW m \in Nodes, NEW crash \in BOOLEAN,
               InstallSnapshot(n, m, crash)
        PROVE  OneView'
    <2>1. crash = FALSE
      BY Zenon, <1>2, <1>8
    <2> QED BY Zenon, <2>1, <1>5, <1>8, InstallView
  <1>9. ASSUME NEW c, Commit(c) \/ Lose(c) PROVE OneView'
    <2>1. ASSUME Lose(c)
          PROVE  UNCHANGED <<log, up, image, ids, commands, applied, handed, saved>>
      BY Zenon, <2>1 DEF Lose, memory
    <2> QED BY Zenon, <2>1, <1>5, <1>9, CommitView, QuietView
  <1>10. CASE UNCHANGED vars
    BY Zenon, <1>5, <1>10, QuietView DEF vars
  <1> QED BY <1>1, <1>6, <1>7, <1>8, <1>9, <1>10, Zenon DEF Next

(* Two images that agree with a third agree with each other.                *)
LEMMA ViewsAgree ==
  RaftInv /\ ViewInv => SameViewBeforeCrash
  <1> SUFFICES ASSUME RaftInv, OneView, NEW n \in up, NEW m \in up,
                      applied[n] = applied[m]
               PROVE  [image[n] EXCEPT !.stamp = 0] = [image[m] EXCEPT !.stamp = 0]
    BY Zenon DEF ViewInv, SameViewBeforeCrash, SameIndexSameView
  <1>1. PICK f : LiveTo(log, f) /\ \A k \in Nodes : Tracks(f, k)
    BY Zenon DEF OneView
  <1>2. n \in Nodes /\ m \in Nodes /\ image[n] \in Images /\ image[m] \in Images
    BY Zenon DEF RaftInv, Types
  <1>3. Agree(image[n], f[applied[n]]) /\ Agree(image[m], f[applied[n]])
    BY Zenon, <1>1, <1>2 DEF Tracks
  <1>4. Agree(image[n], image[m])
    BY <1>3, Zenon DEF Agree
  <1> QED BY Zenon, <1>2, <1>4, AgreeIsView

(* So do the image and the staged one.                                      *)
LEMMA StagedAgrees ==
  Induction /\ RaftInv /\ ViewInv => StagedViewIsLiveView
  <1> SUFFICES ASSUME Induction, RaftInv, OneView, NEW n \in up, Stage(commands[n]) # Failed
               PROVE  [Stage(commands[n]) EXCEPT !.stamp = 0] =
                          [image[n] EXCEPT !.stamp = 0]
    BY Zenon DEF ViewInv, StagedViewIsLiveView
  <1>1. PICK f : LiveTo(log, f) /\ \A k \in Nodes : Tracks(f, k)
    BY Zenon DEF OneView
  <1>2. n \in Nodes /\ image[n] \in Images /\ commands[n] \in Seq(Cmds)
    BY Zenon DEF RaftInv, Types
  <1>3. Stage(commands[n]) \in Images
    BY Zenon, <1>2, StageType
  <1>4. Agree(image[n], f[applied[n]]) /\ Agree(Stage(commands[n]), f[applied[n]])
    BY Zenon, <1>1, <1>2 DEF Tracks, Builds
  <1>5. Agree(Stage(commands[n]), image[n])
    BY <1>4, Zenon DEF Agree
  <1> QED BY Zenon, <1>2, <1>3, <1>5, AgreeIsView

-----------------------------------------------------------------------------
LOCAL INSTANCE WellFoundedInduction

(* Induction over the naturals, for a set of them. *)
LEMMA SetInduction ==
    ASSUME NEW T \in SUBSET Nat, 0 \in T, \A n \in T : n + 1 \in T
    PROVE  T = Nat
    (* A set of naturals that is not empty has a least element. *)
  <1>Least.
        ASSUME NEW U \in SUBSET Nat, U # {}
        PROVE  \E x \in U : \A y \in U : x <= y
    <2> USE <1>Least
    <2> DEFINE R == {ss \in Nat \X Nat : ss[1] < ss[2]}
    <2>1. IsWellFoundedOn(R, Nat)
      BY Zenon, NatLessThanWellFounded DEF OpToRel
    <2> HIDE DEF R
    <2>2. PICK x \in U : \A y \in U : ~ (<<y, x>> \in R)
      BY <2>1, WFMin, Zenon
    <2>3. ASSUME NEW y \in U PROVE x <= y
      <3>1. x \in Nat /\ y \in Nat /\ <<y, x>> \in Nat \X Nat
        BY Zenon
      <3>2. ~ (y < x)
        BY Zenon, <3>1, <2>2 DEF R
      <3> QED BY <3>1, <3>2
    <2> QED BY Zenon, <2>3
  <1> SUFFICES ASSUME Nat \ T # {} PROVE FALSE
    BY Zenon
  <1>1. PICK x \in Nat \ T : \A y \in Nat \ T : x <= y
    <2>1. Nat \ T \in SUBSET Nat
      BY Zenon
    <2> QED BY <2>1, <1>Least, Zenon
  <1>2. x # 0 /\ x - 1 \in Nat /\ (x - 1) + 1 = x
    BY <1>1
  <1>3. x - 1 \in T
    BY <1>1, <1>2
  <1> QED BY Zenon, <1>1, <1>2, <1>3

LEMMA Inductive == Induction
  BY Zenon, SetInduction DEF Induction

(* The inductive invariant: every runtime's ledger is in order, whatever it  *)
(* applied, dropped, compacted, installed or recovered                      *)
(* (apply_committed_entries, install_metadata_snapshot,                     *)
(* restore_committed_state).                                                *)
THEOREM RaftInvariant == Spec => []RaftInv
  BY InitInv, Inductive, InvStep, PTL DEF Spec

(* Every runtime's indices stay in order and within the committed log, its  *)
(* ids and its envelopes stem from that log, and what it stores or holds is *)
(* well-formed (drain_ready, compact_applied_log_to_snapshot,               *)
(* restore_committed_state).                                                *)
THEOREM RaftTypes == Spec => []TypeOK
  BY InvTypes, RaftInvariant, PTL

(* A command takes effect at most once on every runtime, through proposals  *)
(* that are lost, repeated and reordered, batches that fail, snapshots and  *)
(* restarts (applied_command_ids).                                          *)
THEOREM AppliedOnce == Spec => []CommandsAreUnique
  <1>1. RaftInv => CommandsAreUnique
    BY Zenon DEF RaftInv, Types, Ledger, Unique, CommandsAreUnique
  <1> QED BY <1>1, RaftInvariant, PTL

(* No committed command at or below a runtime's applied index is unknown to *)
(* it, but for those a failed batch dropped (apply_committed_entries,       *)
(* install_metadata_snapshot, restore_committed_state).                     *)
THEOREM NothingForgotten == Spec => []AppliedIsKnown
  BY InvKnown, RaftInvariant, PTL

(* While a process runs, its topology stamp never goes back and moves with  *)
(* its members, and its epoch goes back at most with an installed snapshot  *)
(* (materialize_committed_command, replace_membership_from).                *)
THEOREM StampIsAFence == Spec => StampFencesMembers
  BY StampStep, Inductive, RaftInvariant, PTL DEF Spec, StampFencesMembers

(* The inductive invariant of the views: until a runtime crashes, and while *)
(* every node keeps to one role, each runtime's image is that of the        *)
(* committed entries up to its applied index, whichever way it got there    *)
(* (apply_committed_entries, install_metadata_snapshot).                    *)
THEOREM ViewInvariant == Spec => []ViewInv
  BY RaftInvariant, Inductive, ViewInit, ViewStep, PTL DEF Spec

(* Runtimes at the same applied index agree on members, clients and epoch,  *)
(* whether they applied the entries in batches or installed a peer's        *)
(* snapshot, for any number of runtimes and logs of any length              *)
(* (apply_committed_entries, install_metadata_snapshot).                    *)
THEOREM OneViewPerIndex == Spec => []SameViewBeforeCrash
  BY ViewsAgree, RaftInvariant, ViewInvariant, PTL

(* What a runtime exports or compacts builds, whenever it can be staged at  *)
(* all, the image the runtime has itself: skipping what is already there    *)
(* (materialize_committed_command) and refusing it                          *)
(* (materialize_snapshot_command) come to the same.                         *)
THEOREM ExportsItsView == Spec => []StagedViewIsLiveView
  BY StagedAgrees, Inductive, RaftInvariant, ViewInvariant, PTL

=============================================================================
