------------------------- MODULE ClusterMembership -------------------------
(***************************************************************************)
(* The membership image of a cluster (InMemoryCluster of control_plane.rs): *)
(* members and clients by node name, the epoch and the topology stamp.      *)
(* Every operation runs under the state lock, so each is one operator from  *)
(* image to image; a call that returns an error leaves the image alone and  *)
(* is the negation of the operator's guard.  Membership events are left     *)
(* out: nothing here reads them.                                            *)
(***************************************************************************)
EXTENDS Naturals

CONSTANTS Names,            \* logical node ids
          MaxGeneration     \* process generations are 1 .. MaxGeneration

ASSUME GenerationAssumption == MaxGeneration \in Nat \ {0}

Generations == 1 .. MaxGeneration

(* A node's entry: its generation and the epoch it was admitted at.  A node *)
(* that a map does not hold is Absent there.                                *)
Absent == [generation |-> 0, epoch |-> 0]

Entry == [generation : Generations, epoch : Nat] \cup {Absent}

Images == [members : [Names -> Entry], clients : [Names -> Entry],
           epoch : Nat, stamp : Nat]

EmptyImage == [members |-> [x \in Names |-> Absent],
               clients |-> [x \in Names |-> Absent], epoch |-> 0, stamp |-> 0]

IsMember(c, x) == c.members[x] # Absent

IsClient(c, x) == c.clients[x] # Absent

IsPresent(c, x) == IsMember(c, x) \/ IsClient(c, x)

(* members.get(x).or_else(clients.get(x)): the member entry is found first. *)
CurrentGeneration(c, x) ==
    IF IsMember(c, x) THEN c.members[x].generation ELSE c.clients[x].generation

(* reject_stale_generation lets the candidate through. *)
CanJoin(c, x, g) == g >= CurrentGeneration(c, x)

ValidGeneration(c, x, g) == IsPresent(c, x) /\ g = CurrentGeneration(c, x)

AdvancesEpoch(c, x, g) == c.members[x].generation < g

(* join_member: a new member, or a newer generation of one, advances epoch  *)
(* and stamp; the node stops being a client.                                *)
JoinMember(c, x, g) ==
    LET step == IF AdvancesEpoch(c, x, g) THEN 1 ELSE 0
    IN  [members |-> [c.members EXCEPT ![x] =
                          [generation |-> g, epoch |-> c.epoch + step]],
         clients |-> [c.clients EXCEPT ![x] = Absent],
         epoch   |-> c.epoch + step,
         stamp   |-> c.stamp + step]

(* join_client: the node stays a member if it was one. *)
JoinClient(c, x, g) ==
    [c EXCEPT !.clients[x] = [generation |-> g, epoch |-> c.epoch]]

(* A bug in which a leave advances the epoch and not the stamp.             *)
LeaveKeepsStamp(c, x) ==
    [members |-> [c.members EXCEPT ![x] = Absent],
     clients |-> [c.clients EXCEPT ![x] = Absent],
     epoch   |-> c.epoch + IF IsMember(c, x) THEN 1 ELSE 0,
     stamp   |-> c.stamp]

(* leave, of a node that is present: out of both maps; the epoch advances   *)
(* when a member left.                                                      *)
Leave(c, x) ==
    LET step == IF IsMember(c, x) THEN 1 ELSE 0
    IN  [members |-> [c.members EXCEPT ![x] = Absent],
         clients |-> [c.clients EXCEPT ![x] = Absent],
         epoch   |-> c.epoch + step,
         stamp   |-> c.stamp + step]

(* A bug in which the clients of the old image stay.                        *)
ReplaceKeepsClients(c, staged) ==
    LET high == IF c.stamp > staged.stamp THEN c.stamp ELSE staged.stamp
        bump == IF staged.members # c.members /\ high = c.stamp THEN 1 ELSE 0
    IN  [staged EXCEPT !.stamp = high + bump, !.clients = c.clients]

(* replace_membership_from: the staged image, under a stamp that never goes *)
(* back and moves when the members change.                                  *)
ReplaceMembership(c, staged) ==
    LET high == IF c.stamp > staged.stamp THEN c.stamp ELSE staged.stamp
        bump == IF staged.members # c.members /\ high = c.stamp THEN 1 ELSE 0
    IN  [staged EXCEPT !.stamp = high + bump]

=============================================================================
