----------------------------- MODULE Membership -----------------------------
(***************************************************************************)
(* zht-server: MembershipManager, the Vec of the other nodes of the        *)
(* cluster behind an RwLock, in the order in which they were added.  Time  *)
(* is one bit per entry: is its last heartbeat older than the timeout?     *)
(***************************************************************************)
EXTENDS Lists, SequencesExt

CONSTANTS Hosts,          \* every node there may be
          Self,           \* this node
          InitialMembers, \* the nodes of neighbor.conf, a sequence
          Keys,
          HashOf          \* gen_hash of each key

ASSUME MembershipAssumption ==
  /\ Self \in Hosts
  /\ InitialMembers \in Seq(Hosts)
  /\ HashOf \in [Keys -> Nat]

VARIABLE members

(* NodeState; no code makes a member Left.                                 *)
NodeStates == {"Alive", "Suspect", "Dead", "Left"}

Entry(h) == [host |-> h, state |-> "Alive", stale |-> FALSE]

(* new: the nodes of the list but the one given as this node.              *)
MembersFrom(nodes, self_host) ==
  LET others == Filtered(nodes, {i \in 1..Len(nodes) : nodes[i] # self_host})
  IN  [i \in 1..Len(others) |-> Entry(others[i])]

InitMembers == members = MembersFrom(InitialMembers, Self)

(* iter_mut().find(..): the first entry of the host, if there is one.      *)
UpdateFirst(h, f(_)) ==
  members' = [i \in 1..Len(members) |->
                IF members[i].host = h /\ \A j \in 1..i - 1 : members[j].host # h
                THEN f(members[i])
                ELSE members[i]]

MarkAlive(h) ==
  UpdateFirst(h, LAMBDA e : [e EXCEPT !.state = "Alive", !.stale = FALSE])

(* Refreshes the heartbeat as well.                                        *)
MarkSuspect(h) ==
  UpdateFirst(h, LAMBDA e : [e EXCEPT !.state = "Suspect", !.stale = FALSE])

MarkDead(h) == UpdateFirst(h, LAMBDA e : [e EXCEPT !.state = "Dead"])

AddMember(h) ==
  /\ h # Self
  /\ ~\E i \in 1..Len(members) : members[i].host = h
  /\ members' = Append(members, Entry(h))

RemoveMember(h) ==
  members' = Filtered(members, {i \in 1..Len(members) : members[i].host # h})

(* Time passes and no heartbeat of the entry comes.                        *)
HeartbeatAges(i) ==
  /\ i \in 1..Len(members)
  /\ members' = [members EXCEPT ![i].stale = TRUE]

CheckHealth ==
  members' = [i \in 1..Len(members) |->
                IF members[i].state = "Alive" /\ members[i].stale
                THEN [members[i] EXCEPT !.state = "Suspect"]
                ELSE members[i]]

MembershipNext ==
  \/ \E h \in Hosts :
       \/ MarkAlive(h) \/ MarkSuspect(h) \/ MarkDead(h)
       \/ AddMember(h) \/ RemoveMember(h)
  \/ \E i \in 1..Len(members) : HeartbeatAges(i)
  \/ CheckHealth

(* active_members: never this node itself.                                 *)
Active == LET alive == Filtered(members, {i \in 1..Len(members) : members[i].state = "Alive"})
          IN  [i \in 1..Len(alive) |-> alive[i].host]

(* resolve_node, resolve_owner: hash(key) % len, no owner in an empty list.*)
Owner(k, list) == list[(HashOf[k] % Len(list)) + 1]

(* The entries of the Vec stay within their types; a part of TypeOK.       *)
MembershipTypeOK ==
  members \in Seq([host : Hosts, state : NodeStates \ {"Left"}, stale : BOOLEAN])
=============================================================================
