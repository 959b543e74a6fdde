---------------------------- MODULE RaftMetadata ----------------------------
(***************************************************************************)
(* The replicated cluster metadata of hydracache-cluster-raft: the runtimes *)
(* propose membership commands, raft-rs orders them, and each runtime       *)
(* applies the committed log to its own membership image, compacts it into  *)
(* a snapshot, catches a lagging peer up with that snapshot, and rebuilds   *)
(* its image when it restarts.                                              *)
(*                                                                          *)
(* raft-rs is external: here it is one committed log that never changes,    *)
(* an unordered set of proposals that may be lost, and, per runtime, the    *)
(* position up to which a Ready has handed committed entries over.  Entries *)
(* that carry no metadata command (elections, voter changes) are left out.  *)
(***************************************************************************)
EXTENDS ClusterMembership, Sequences, FiniteSets

CONSTANTS Nodes,        \* the runtimes
          Joins,        \* the joins callers make: pairs of role and generation
          Crashing,     \* the runtimes that may crash
          Compacting,   \* the runtimes whose log is compacted
          MaxLog,       \* bound: committed commands
          MaxCalls      \* bound: calls between their check and their proposal

ASSUME LogAssumption == MaxLog \in Nat

VARIABLES log,          \* the committed commands, in order (raft-rs)
          proposed,     \* commands on their way to the leader (raft-rs)
          calls,        \* calls that checked the image and wait for the lock
          up,           \* the runtimes that run
          image,        \* cluster: the materialized membership
          ids,          \* applied_command_ids
          commands,     \* commands: the applied envelopes
          applied,      \* applied_index
          handed,       \* committed entries handed over in Ready (raft-rs)
          batch,        \* end of the committed entries being applied
          durable,      \* the log store's applied index
          saved,        \* the log store's snapshot
          skipped,      \* history: ids that a failed batch dropped
          crashed       \* history: some runtime has crashed

vars == <<log, proposed, calls, up, image, ids, commands, applied, handed,
          batch, durable, saved, skipped, crashed>>

memory == <<image, ids, commands, applied, handed, batch>>

Roles == {"member", "client"}

(* RaftMetadataCommand.  The epoch of an upsert is in no id and is not read *)
(* when it is applied, so only that of a leave is kept; the generation of a *)
(* leave is not part of the command.                                        *)
Upserts == [kind : Roles, node : Names, generation : Generations]

Leaves == [kind : {"left"}, node : Names, role : Roles, epoch : Nat]

(* command_id_for: a leave is named by node and epoch, not by role. *)
Id(c) == IF c.kind = "left" THEN <<"left", c.node, c.epoch>>
                            ELSE <<c.kind, c.node, c.generation>>

(* What a materialization answers when it fails; no image. *)
Failed == [failed |-> TRUE]

(* materialize_command: the join may be refused as stale; a leave of an     *)
(* absent node does nothing.                                                *)
Materialize(m, c) ==
    CASE c.kind = "member" -> IF CanJoin(m, c.node, c.generation)
                                THEN JoinMember(m, c.node, c.generation) ELSE Failed
      [] c.kind = "client" -> IF CanJoin(m, c.node, c.generation)
                                THEN JoinClient(m, c.node, c.generation) ELSE Failed
      [] c.kind = "left"   -> IF IsPresent(m, c.node) THEN Leave(m, c.node) ELSE m

(* materialize_committed_command: an upsert that the role's map has already *)
(* seen at this or a newer generation is skipped, and so succeeds.          *)
MaterializeCommitted(m, c) ==
    IF \/ c.kind = "member" /\ m.members[c.node].generation >= c.generation
       \/ c.kind = "client" /\ m.clients[c.node].generation >= c.generation
      THEN m
      ELSE Materialize(m, c)

(* materialize_snapshot_command: no skipping, and the role a leave names    *)
(* must be there.                                                           *)
MaterializeSnapshot(m, c) ==
    IF \/ c.kind = "left" /\ c.role = "member" /\ ~IsMember(m, c.node)
       \/ c.kind = "left" /\ c.role = "client" /\ ~IsClient(m, c.node)
      THEN Failed
      ELSE Materialize(m, c)

(* stage_metadata_snapshot: the image the envelopes build from nothing, or  *)
(* Failed; a repeated id is refused.                                        *)
Stage(cs) ==
    LET at[i \in 0 .. Len(cs)] ==
            IF i = 0 THEN EmptyImage
            ELSE IF at[i - 1] = Failed THEN Failed
            ELSE MaterializeSnapshot(at[i - 1], cs[i])
        Repeats == \E i, j \in 1 .. Len(cs) : i < j /\ Id(cs[i]) = Id(cs[j])
    IN  IF Repeats THEN Failed ELSE at[Len(cs)]

IdsOf(cs) == {Id(cs[i]) : i \in 1 .. Len(cs)}

NoSnapshot == [index |-> 0, commands |-> <<>>, source |-> CHOOSE n \in Nodes : TRUE]

(* A bug in which recovery pushes an envelope whose id it has already seen. *)
RecordAlways(s, c) == [s EXCEPT !.ids = @ \cup {Id(c)}, !.commands = Append(@, c)]

(* The envelope is pushed when its id is new. *)
Record(s, c) ==
    IF Id(c) \in s.ids
      THEN s
      ELSE [s EXCEPT !.ids = @ \cup {Id(c)}, !.commands = Append(@, c)]

(* apply_recovered_envelope_at: materialized first, whatever its id. *)
Recover(s, c) ==
    LET m == MaterializeCommitted(s.image, c)
    IN  IF m = Failed THEN Failed ELSE Record([s EXCEPT !.image = m], c)

(* restore_committed_state: the snapshot, then the retained entries up to   *)
(* the durable applied index.                                               *)
Restored(n) ==
    LET first  == saved[n].index
        last   == IF durable[n] > first THEN durable[n] ELSE first
        staged == Stage(saved[n].commands)
        base   == IF staged = Failed THEN Failed
                  ELSE [image    |-> ReplaceMembership(EmptyImage, staged),
                        ids      |-> IdsOf(saved[n].commands),
                        commands |-> saved[n].commands]
        at[i \in first .. last] ==
            IF i = first THEN base
            ELSE IF at[i - 1] = Failed THEN Failed
            ELSE Recover(at[i - 1], log[i])
    IN  [state |-> at[last], index |-> last]

-----------------------------------------------------------------------------
Init == /\ log = <<>> /\ proposed = {} /\ calls = {}
        /\ up = Nodes
        /\ image = [n \in Nodes |-> EmptyImage]
        /\ ids = [n \in Nodes |-> {}]
        /\ commands = [n \in Nodes |-> <<>>]
        /\ applied = [n \in Nodes |-> 0]
        /\ handed = [n \in Nodes |-> 0]
        /\ batch = [n \in Nodes |-> 0]
        /\ durable = [n \in Nodes |-> 0]
        /\ saved = [n \in Nodes |-> NoSnapshot]
        /\ skipped = {} /\ crashed = FALSE

(* The runtime's lock is free: no Ready is being applied. *)
Idle(n) == n \in up /\ handed[n] = batch[n]

(* A call read the image, without the runtime's lock, and built its command. *)
(* No call starts once the bounded log is full.                             *)
Prepare(n, c) ==
    /\ Cardinality(calls) < MaxCalls /\ Len(log) < MaxLog
    /\ calls' = calls \cup {[at |-> n, command |-> c]}
    /\ UNCHANGED <<log, skipped, crashed, proposed, up, memory, durable, saved>>

(* join_member and join_client: reject_stale_candidate, then the command. *)
Join(n, role, x, g) ==
    /\ n \in up /\ <<role, g>> \in Joins
    /\ CanJoin(image[n], x, g)
    /\ Prepare(n, [kind |-> role, node |-> x, generation |-> g])

(* leave: the node is present under this generation; predicted_leave_epoch  *)
(* names the role and the epoch after the leave.                            *)
LeaveCall(n, x, g) ==
    /\ n \in up
    /\ ValidGeneration(image[n], x, g)
    /\ Prepare(n, [kind  |-> "left", node |-> x,
                   role  |-> IF IsMember(image[n], x) THEN "member" ELSE "client",
                   epoch |-> IF IsMember(image[n], x) THEN image[n].epoch + 1
                                                      ELSE image[n].epoch])

(* A bug in which the id counts as applied as soon as it is proposed.       *)
CommitCommandEarly(n, c) ==
    /\ Idle(n)
    /\ [at |-> n, command |-> c] \in calls
    /\ calls' = calls \ {[at |-> n, command |-> c]}
    /\ proposed' = IF Id(c) \in ids[n] THEN proposed ELSE proposed \cup {c}
    /\ ids' = [ids EXCEPT ![n] = @ \cup {Id(c)}]
    /\ UNCHANGED <<log, skipped, crashed, up, image, commands, applied, handed, batch,
                   durable, saved>>

(* commit_command, under the lock: an applied id is answered Duplicate and  *)
(* not proposed; otherwise the command goes to the leader, or, when no      *)
(* leader is known, the call fails (the proposal is lost).                  *)
CommitCommand(n, c) ==
    /\ Idle(n)
    /\ [at |-> n, command |-> c] \in calls
    /\ calls' = calls \ {[at |-> n, command |-> c]}
    /\ proposed' = IF Id(c) \in ids[n] THEN proposed ELSE proposed \cup {c}
    /\ UNCHANGED <<log, skipped, crashed, up, memory, durable, saved>>

(* raft-rs commits a proposal, or loses it. *)
Commit(c) ==
    /\ c \in proposed /\ Len(log) < MaxLog
    /\ proposed' = proposed \ {c}
    /\ log' = Append(log, c)
    /\ UNCHANGED <<skipped, crashed, calls, up, memory, durable, saved>>

Lose(c) ==
    /\ c \in proposed
    /\ proposed' = proposed \ {c}
    /\ UNCHANGED <<log, skipped, crashed, calls, up, memory, durable, saved>>

(* drain_ready takes the lock, with the committed entries up to i.  raft-rs *)
(* hands over no entry that the node's snapshot covers.                     *)
Ready(n, i) ==
    /\ Idle(n)
    /\ i \in handed[n] + 1 .. Len(log)
    /\ batch' = [batch EXCEPT ![n] = i]
    /\ UNCHANGED <<log, skipped, crashed, proposed, calls, up, image, ids, commands,
                   applied, handed, durable, saved>>

(* A bug in which the id is recorded after the command is materialized, as  *)
(* the recovery path does.                                                  *)
ApplyBeforeDedup(n) ==
    LET i == handed[n] + 1
        s == Recover([image |-> image[n], ids |-> ids[n], commands |-> commands[n]],
                     log[i])
    IN  /\ n \in up /\ handed[n] < batch[n] /\ s # Failed
        /\ image' = [image EXCEPT ![n] = s.image]
        /\ ids' = [ids EXCEPT ![n] = s.ids]
        /\ commands' = [commands EXCEPT ![n] = s.commands]
        /\ applied' = [applied EXCEPT ![n] = i]
        /\ handed' = [handed EXCEPT ![n] = i]
        /\ durable' = IF i = batch[n] THEN [durable EXCEPT ![n] = i] ELSE durable
        /\ UNCHANGED <<log, skipped, crashed, proposed, calls, up, batch, saved>>

(* apply_committed_entries, one entry: the id is recorded first, a new      *)
(* command is materialized and pushed.  The last entry of the batch is      *)
(* followed by mark_applied.  When the materialization fails, drain_ready   *)
(* returns the error at once: raft-rs has handed the rest of the batch over *)
(* and will not do so again, and mark_applied is not reached.               *)
Apply(n) ==
    LET i == handed[n] + 1
        c == log[i]
        isNew == Id(c) \notin ids[n]
        m == IF isNew THEN MaterializeCommitted(image[n], c) ELSE image[n]
    IN  /\ n \in up /\ handed[n] < batch[n]
        /\ ids' = [ids EXCEPT ![n] = @ \cup {Id(c)}]
        /\ applied' = [applied EXCEPT ![n] = i]
        /\ IF m = Failed
             THEN /\ handed' = [handed EXCEPT ![n] = batch[n]]
                  /\ skipped' = skipped \cup {Id(log[j]) : j \in i .. batch[n]}
                  /\ UNCHANGED <<image, commands, durable>>
             ELSE /\ image' = [image EXCEPT ![n] = m]
                  /\ commands' = IF isNew THEN [commands EXCEPT ![n] = Append(@, c)]
                                          ELSE commands
                  /\ handed' = [handed EXCEPT ![n] = i]
                  /\ durable' = IF i = batch[n] THEN [durable EXCEPT ![n] = i]
                                                ELSE durable
                  /\ UNCHANGED skipped
        /\ UNCHANGED <<log, crashed, proposed, calls, up, batch, saved>>

(* Any later Ready, with or without entries, marks the applied index, also  *)
(* that of an entry whose materialization failed.                           *)
MarkApplied(n) ==
    /\ Idle(n) /\ applied[n] > durable[n]
    /\ durable' = [durable EXCEPT ![n] = applied[n]]
    /\ UNCHANGED <<log, skipped, crashed, proposed, calls, up, memory, saved>>

(* A bug in which the snapshot is stamped with the committed index.         *)
CompactAhead(n) ==
    /\ Idle(n) /\ n \in Compacting /\ applied[n] > 0
    /\ saved' = [saved EXCEPT ![n] = [index |-> Len(log), commands |-> commands[n],
                                      source |-> n]]
    /\ UNCHANGED <<log, skipped, crashed, proposed, calls, up, memory, durable>>

(* compact_applied_log_to_snapshot: build_applied_snapshot, then the store  *)
(* saves it and drops the entries it covers.                                *)
Compact(n) ==
    /\ Idle(n) /\ n \in Compacting /\ applied[n] > 0
    /\ saved' = [saved EXCEPT ![n] = [index |-> applied[n], commands |-> commands[n],
                                      source |-> n]]
    /\ UNCHANGED <<log, skipped, crashed, proposed, calls, up, memory, durable>>

(* validate_inbound_metadata_snapshot: m's stored snapshot is accepted only *)
(* if m itself built it and it stages.                                      *)
Deliverable(m) ==
    /\ saved[m].index > 0
    /\ saved[m].source = m
    /\ Stage(saved[m].commands) # Failed

(* The process is gone, and with it its memory and its calls. *)
Stop(n) ==
    /\ up' = up \ {n}
    /\ crashed' = TRUE
    /\ calls' = {k \in calls : k.at # n}
    /\ image' = [image EXCEPT ![n] = EmptyImage]
    /\ ids' = [ids EXCEPT ![n] = {}]
    /\ commands' = [commands EXCEPT ![n] = <<>>]
    /\ applied' = [applied EXCEPT ![n] = 0]
    /\ handed' = [handed EXCEPT ![n] = 0]
    /\ batch' = [batch EXCEPT ![n] = 0]

(* A peer that holds a snapshot beyond n's log sends it; n saves it in its  *)
(* store and publishes the staged image.  With crash, n stops after the     *)
(* save, before the image is published.                                     *)
InstallSnapshot(n, m, crash) ==
    /\ Idle(n) /\ m \in up \ {n}
    /\ Deliverable(m) /\ saved[m].index > handed[n]
    /\ crash => n \in Crashing
    /\ saved' = [saved EXCEPT ![n] = saved[m]]
    /\ IF crash
         THEN Stop(n) /\ UNCHANGED durable
         ELSE /\ image' = [image EXCEPT ![n] =
                              ReplaceMembership(@, Stage(saved[m].commands))]
              /\ ids' = [ids EXCEPT ![n] = IdsOf(saved[m].commands)]
              /\ commands' = [commands EXCEPT ![n] = saved[m].commands]
              /\ applied' = [applied EXCEPT ![n] = saved[m].index]
              /\ handed' = [handed EXCEPT ![n] = saved[m].index]
              /\ batch' = [batch EXCEPT ![n] = saved[m].index]
              /\ durable' = [durable EXCEPT ![n] = saved[m].index]
              /\ UNCHANGED <<up, calls, crashed>>
    /\ UNCHANGED <<log, proposed, skipped>>

(* The process stops, also in the middle of a batch.                        *)
Crash(n) ==
    /\ n \in up \cap Crashing
    /\ Stop(n)
    /\ UNCHANGED <<log, skipped, proposed, durable, saved>>

(* build_with_storage: a runtime whose stored state cannot be restored does *)
(* not start.                                                               *)
Restart(n) ==
    LET r == Restored(n)
    IN  /\ n \notin up /\ r.state # Failed
        /\ up' = up \cup {n}
        /\ image' = [image EXCEPT ![n] = r.state.image]
        /\ ids' = [ids EXCEPT ![n] = r.state.ids]
        /\ commands' = [commands EXCEPT ![n] = r.state.commands]
        /\ applied' = [applied EXCEPT ![n] = r.index]
        /\ handed' = [handed EXCEPT ![n] = r.index]
        /\ batch' = [batch EXCEPT ![n] = r.index]
        /\ durable' = [durable EXCEPT ![n] = r.index]
        /\ UNCHANGED <<log, skipped, crashed, proposed, calls, saved>>

Next ==
    \/ \E n \in Nodes :
          \/ \E x \in Names, g \in Generations :
                (\E role \in Roles : Join(n, role, x, g)) \/ LeaveCall(n, x, g)
          \/ \E k \in calls : CommitCommand(n, k.command)
          \/ \E i \in 1 .. MaxLog : Ready(n, i)
          \/ Apply(n) \/ MarkApplied(n) \/ Compact(n) \/ Crash(n) \/ Restart(n)
          \/ \E m \in Nodes, crash \in BOOLEAN : InstallSnapshot(n, m, crash)
    \/ \E c \in proposed : Commit(c) \/ Lose(c)

Spec == Init /\ [][Next]_vars

-----------------------------------------------------------------------------
Snapshots == [index : 0 .. MaxLog, commands : Seq(Upserts \cup Leaves), source : Nodes]

(* The types of the variables; the indices of a runtime are ordered, none   *)
(* is beyond the committed log, and every id stems from it.                 *)
TypeOK ==
    /\ log \in Seq(Upserts \cup Leaves) /\ Len(log) <= MaxLog
    /\ proposed \subseteq Upserts \cup Leaves
    /\ calls \subseteq [at : up, command : Upserts \cup Leaves]
    /\ up \subseteq Nodes
    /\ image \in [Nodes -> Images]
    /\ \A n \in Nodes : ids[n] \subseteq IdsOf(log)
    /\ commands \in [Nodes -> Seq(Upserts \cup Leaves)]
    /\ saved \in [Nodes -> Snapshots]
    /\ skipped \subseteq IdsOf(log) /\ crashed \in BOOLEAN
    /\ \A n \in Nodes : /\ applied[n] <= handed[n] /\ handed[n] <= batch[n]
                        /\ batch[n] <= Len(log) /\ saved[n].index <= Len(log)
                        /\ durable[n] \in 0 .. Len(log)

(* Two runtimes that have applied the same committed entries, and are not   *)
(* in the middle of a batch, agree on members, clients and epoch            *)
(* (apply_committed_entries, install_metadata_snapshot,                     *)
(* restore_committed_state).  The stamp is local to a process.              *)
SameIndexSameView ==
    \A n, m \in up :
        Idle(n) /\ Idle(m) /\ applied[n] = applied[m] =>
            [image[n] EXCEPT !.stamp = 0] = [image[m] EXCEPT !.stamp = 0]

(* Every node joined in one role only. *)
OneRole ==
    \A i, j \in 1 .. Len(log) :
        log[i].kind \in Roles /\ log[j].kind \in Roles /\ log[i].node = log[j].node =>
            log[i].kind = log[j].kind

(* The same, while every node keeps to one role and until a runtime         *)
(* crashes: entries handed over in batches, in one go or replaced by a      *)
(* peer's snapshot lead to one view (apply_committed_entries,               *)
(* install_metadata_snapshot).                                              *)
SameViewBeforeCrash == ~crashed /\ OneRole => SameIndexSameView

(* While every node keeps to one role and until a runtime crashes, what a   *)
(* runtime exports or compacts builds the image it has itself: the two ways *)
(* of applying a command, committed (materialize_committed_command) and     *)
(* from a snapshot (materialize_snapshot_command), agree whenever the       *)
(* snapshot can be staged.                                                  *)
StagedViewIsLiveView ==
    ~crashed /\ OneRole =>
        \A n \in up : LET staged == Stage(commands[n])
                      IN  staged # Failed =>
                              [staged EXCEPT !.stamp = 0] = [image[n] EXCEPT !.stamp = 0]

(* A command id is applied at most once, however often the command was      *)
(* proposed, handed over, recovered or delivered in a snapshot              *)
(* (applied_command_ids), and the set of ids covers the applied envelopes.  *)
CommandsAreUnique ==
    \A n \in up : /\ \A i, j \in 1 .. Len(commands[n]) :
                         Id(commands[n][i]) = Id(commands[n][j]) => i = j
                  /\ IdsOf(commands[n]) \subseteq ids[n]

(* A runtime never forgets a command it marked as applied: whatever was     *)
(* committed at or below the applied index is in ids, also after a restart  *)
(* or a snapshot (restore_committed_state, install_metadata_snapshot),      *)
(* unless it failed, or came after one that failed in its batch.            *)
AppliedIsKnown ==
    \A n \in up : \A i \in 1 .. applied[n] :
        Id(log[i]) \in ids[n] \cup skipped

(* While a process runs, its topology stamp never goes back, and a change   *)
(* of the members moves it, so that a decision made under one stamp is      *)
(* recognised as old (join, leave, replace_membership_from).  Its epoch     *)
(* goes back at most when a snapshot is installed, whose epoch replaces the *)
(* runtime's own.                                                           *)
StampFencesMembers ==
    [][image' # image =>
          \A n \in up \cap up' :
             /\ image'[n].stamp >= image[n].stamp
             /\ image'[n].members # image[n].members =>
                    image'[n].stamp > image[n].stamp
             /\ image'[n].epoch >= image[n].epoch \/ saved'[n] # saved[n]]_vars

=============================================================================
