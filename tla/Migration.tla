----------------------------- MODULE Migration -----------------------------
(***************************************************************************)
(* zht-server: MigrationManager::check_and_migrate, called by several      *)
(* tasks, with the membership and the local store it shares with everyone. *)
(* A key is sent to its new owner with sendrecv_with_timeout; as in        *)
(* TcpProxy the pool Mutex lets one call at a time wait for a reply, and a *)
(* call that timed out leaves its request and its reply in the connection. *)
(***************************************************************************)
EXTENDS Membership, FiniteSetsExt

CONSTANTS Migrators,   \* tasks that call check_and_migrate
          Vals, Absent,
          Initial,     \* the content of the local store at first
          Refused,     \* keys a server answers with an error: the empty key
          MaxWrites,   \* bound on the writes to the local store
          MaxChanges,  \* bound on the membership changes
          MaxTimeouts, \* bound on the calls that time out
          MaxBreaks,   \* bound on the connections that break
          MaxRuns      \* bound on the calls of check_and_migrate

ASSUME MigrationAssumption ==
  /\ Absent \notin Vals
  /\ Initial \in [Keys -> Vals \union {Absent}]
  /\ Refused \subseteq Keys
  /\ {MaxWrites, MaxChanges, MaxTimeouts, MaxBreaks, MaxRuns} \subseteq Nat

VARIABLES local,     \* the store of this node
          remote,    \* the stores of the others
          migrating, \* the AtomicBool
          pc,        \* where check_and_migrate is in each task
          groups,    \* per task: what is left of by_target, target -> keys
          target,    \* per task: the node the current group goes to
          entries,   \* per task: what is left of the snapshot to send
          asking,    \* per task: the entry its current call sends
          sent,      \* per target: requests in the pooled connection
          replies,   \* per target: how many replies nobody has read
          written,   \* the last value written to each key (history)
          used       \* how much of each bound is used up

NoEntry == <<>>

task == <<pc, groups, target, entries, asking>>
network == <<sent, replies>>
vars == <<members, local, remote, migrating, task, network, written, used>>

Others == Hosts \ {Self}
Live == {k \in Keys : local[k] # Absent}
Entries == {<<k, local[k]>> : k \in Live}
NoGroups == [h \in Others |-> {}]

Init ==
  /\ InitMembers
  /\ local = Initial
  /\ remote = [h \in Others |-> [k \in Keys |-> Absent]]
  /\ migrating = FALSE
  /\ pc = [m \in Migrators |-> "idle"]
  /\ groups = [m \in Migrators |-> NoGroups]
  /\ target = [m \in Migrators |-> Self]
  /\ entries = [m \in Migrators |-> {}]
  /\ asking = [m \in Migrators |-> NoEntry]
  /\ sent = [h \in Others |-> << >>]
  /\ replies = [h \in Others |-> 0]
  /\ written = Initial
  /\ used = [writes |-> 0, changes |-> 0, timeouts |-> 0, breaks |-> 0, runs |-> 0]

Use(what, bound) ==
  /\ used[what] < bound
  /\ used' = [used EXCEPT ![what] = @ + 1]

-----------------------------------------------------------------------------
(* The keys that hash to a node, among the members that are alive.         *)
KeysForNode(h) == {k \in Live : Owner(k, Active) = h}

(* The flag is read, and later set: the members and the keys are read in   *)
(* between, here with the first of these steps.                            *)
Check(m) ==
  /\ pc[m] = "idle"
  /\ ~migrating
  /\ Use("runs", MaxRuns)
  /\ Active # << >> /\ Live # {}
  /\ groups' = [groups EXCEPT ![m] = [h \in Others |-> KeysForNode(h)]]
  /\ pc' = [pc EXCEPT ![m] = "found"]
  /\ UNCHANGED <<members, local, remote, migrating, target, entries, asking, network, written>>

Start(m) ==
  /\ pc[m] = "found"
  /\ migrating' = TRUE
  /\ pc' = [pc EXCEPT ![m] = "group"]
  /\ UNCHANGED <<members, local, remote, groups, target, entries, asking, network, written, used>>

(* migrate_keys_for_node takes its own snapshot of the entries.            *)
NextGroup(m, h) ==
  /\ pc[m] = "group"
  /\ groups[m][h] # {}
  /\ target' = [target EXCEPT ![m] = h]
  /\ entries' = [entries EXCEPT ![m] = {e \in Entries : e[1] \in groups[m][h]}]
  /\ pc' = [pc EXCEPT ![m] = "send"]
  /\ UNCHANGED <<members, local, remote, migrating, groups, asking, network, written, used>>

Send(m, e) ==
  /\ pc[m] = "send"
  /\ e \in entries[m]
  /\ \A o \in Migrators : pc[o] # "wait"
  /\ sent' = [sent EXCEPT ![target[m]] = Append(@, e)]
  /\ entries' = [entries EXCEPT ![m] = @ \ {e}]
  /\ asking' = [asking EXCEPT ![m] = e]
  /\ pc' = [pc EXCEPT ![m] = "wait"]
  /\ UNCHANGED <<members, local, remote, migrating, groups, target, replies, written, used>>

(* The oldest unread reply is taken for the answer, and an error status in *)
(* it is a warning like any other: the key still counts as migrated.       *)
Receive(m) ==
  /\ pc[m] = "wait"
  /\ replies[target[m]] > 0
  /\ replies' = [replies EXCEPT ![target[m]] = @ - 1]
  /\ pc' = [pc EXCEPT ![m] = "send"]
  /\ asking' = [asking EXCEPT ![m] = NoEntry]
  /\ UNCHANGED <<members, local, remote, migrating, groups, target, entries, sent, written, used>>

(* Mutant: an Err ends the migration at once.                              *)
AbandonAll(m) ==
  /\ pc' = [pc EXCEPT ![m] = "idle"]
  /\ groups' = [groups EXCEPT ![m] = NoGroups]
  /\ entries' = [entries EXCEPT ![m] = {}]
  /\ asking' = [asking EXCEPT ![m] = NoEntry]

(* Err: the group is given up with its keys still here, the next one tried.*)
Abandon(m) ==
  /\ pc' = [pc EXCEPT ![m] = "group"]
  /\ groups' = [groups EXCEPT ![m][target[m]] = {}]
  /\ entries' = [entries EXCEPT ![m] = {}]
  /\ asking' = [asking EXCEPT ![m] = NoEntry]

(* Mutant: an Err is treated as an Ok.                                     *)
TimeoutIgnored(m) ==
  /\ pc[m] \in {"send", "wait"}
  /\ pc[m] = "send" => entries[m] # {}
  /\ Use("timeouts", MaxTimeouts)
  /\ pc' = [pc EXCEPT ![m] = "remove"]
  /\ entries' = [entries EXCEPT ![m] = {}]
  /\ asking' = [asking EXCEPT ![m] = NoEntry]
  /\ UNCHANGED <<members, local, remote, migrating, groups, target, network, written>>

Timeout(m) ==
  /\ pc[m] \in {"send", "wait"}
  /\ pc[m] = "send" => entries[m] # {}
  /\ Use("timeouts", MaxTimeouts)
  /\ Abandon(m)
  /\ UNCHANGED <<members, local, remote, migrating, target, network, written>>

(* Mutants: keys are removed while entries are still to be sent; the loop  *)
(* over the keys does not end.                                             *)
RemoveKeyEarly(m, k) ==
  /\ pc[m] \in {"send", "remove"}
  /\ k \in groups[m][target[m]]
  /\ local' = [local EXCEPT ![k] = Absent]
  /\ groups' = [groups EXCEPT ![m][target[m]] = @ \ {k}]
  /\ pc' = [pc EXCEPT ![m] = IF groups'[m][target[m]] = {} THEN "group" ELSE "remove"]
  /\ UNCHANGED <<members, remote, migrating, target, entries, asking, network, written, used>>

RemoveKeyForever(m, k) ==
  /\ pc[m] \in {"send", "remove"}
  /\ entries[m] = {}
  /\ k \in groups[m][target[m]]
  /\ local' = [local EXCEPT ![k] = Absent]
  /\ groups' = [groups EXCEPT ![m][target[m]] = @ \ {k}]
  /\ pc' = [pc EXCEPT ![m] = "remove"]
  /\ UNCHANGED <<members, remote, migrating, target, entries, asking, network, written, used>>

(* Ok(count): each key of the group is removed from the local store, one   *)
(* remove after the other, whatever its value is by now.                   *)
RemoveKey(m, k) ==
  /\ pc[m] \in {"send", "remove"}
  /\ entries[m] = {}
  /\ k \in groups[m][target[m]]
  /\ local' = [local EXCEPT ![k] = Absent]
  /\ groups' = [groups EXCEPT ![m][target[m]] = @ \ {k}]
  /\ pc' = [pc EXCEPT ![m] = IF groups'[m][target[m]] = {} THEN "group" ELSE "remove"]
  /\ UNCHANGED <<members, remote, migrating, target, entries, asking, network, written, used>>

Finish(m) ==
  /\ pc[m] = "group"
  /\ groups[m] = NoGroups
  /\ migrating' = FALSE
  /\ pc' = [pc EXCEPT ![m] = "idle"]
  /\ UNCHANGED <<members, local, remote, groups, target, entries, asking, network, written, used>>

-----------------------------------------------------------------------------
(* The handler at a target executes the INSERTs in order and answers each. *)
Serve(h) ==
  /\ sent[h] # << >>
  /\ LET e == Head(sent[h])
     IN  remote' = IF e[1] \in Refused THEN remote
                   ELSE [remote EXCEPT ![h][e[1]] = e[2]]
  /\ sent' = [sent EXCEPT ![h] = Tail(@)]
  /\ replies' = [replies EXCEPT ![h] = @ + 1]
  /\ UNCHANGED <<members, local, migrating, task, written, used>>

(* The connection breaks with what is in it.  A call that waits on it is   *)
(* sent again on a new one, or fails when that one breaks as well.         *)
Break(h) ==
  /\ Use("breaks", MaxBreaks)
  /\ sent[h] # << >> \/ replies[h] > 0
  /\ replies' = [replies EXCEPT ![h] = 0]
  /\ LET waiting == {m \in Migrators : pc[m] = "wait" /\ target[m] = h}
     IN  \/ /\ sent' = [sent EXCEPT ![h] = SetToSeq({asking[m] : m \in waiting})]
            /\ UNCHANGED task
         \/ /\ sent' = [sent EXCEPT ![h] = << >>]
            /\ \E m \in waiting : Abandon(m) /\ UNCHANGED target
  /\ UNCHANGED <<members, local, remote, migrating, written>>

(* A user of the local store puts a value.                                 *)
LocalPut(k, v) ==
  /\ Use("writes", MaxWrites)
  /\ local' = [local EXCEPT ![k] = v]
  /\ written' = [written EXCEPT ![k] = v]
  /\ UNCHANGED <<members, remote, migrating, task, network>>

MembershipChanges ==
  /\ Use("changes", MaxChanges)
  /\ MembershipNext
  /\ UNCHANGED <<local, remote, migrating, task, network, written>>

Step(m) ==
  \/ Start(m)
  \/ \E h \in Others : NextGroup(m, h)
  \/ \E e \in entries[m] : Send(m, e)
  \/ Receive(m)
  \/ \E k \in Keys : RemoveKey(m, k)
  \/ Finish(m)

Next ==
  \/ \E m \in Migrators : Check(m) \/ Step(m) \/ Timeout(m)
  \/ \E h \in Others : Serve(h) \/ Break(h)
  \/ \E k \in Keys, v \in Vals : LocalPut(k, v)
  \/ MembershipChanges

Spec == Init /\ [][Next]_vars

(* Tasks are run, and every call ends after five seconds at the latest:    *)
(* nothing is assumed of the other nodes.                                  *)
Fairness == \A m \in Migrators : WF_vars(Step(m) \/ Timeout(m))

FairSpec == Spec /\ Fairness

-----------------------------------------------------------------------------
(* Properties.                                                             *)

Busy(m) == pc[m] \notin {"idle", "found"}

(* What check_and_migrate and the membership operations leave in the Vec,  *)
(* the stores and the connections stays within their types: no reply is    *)
(* read that was not written.                                              *)
TypeOK ==
  /\ MembershipTypeOK
  /\ local \in [Keys -> Vals \union {Absent}]
  /\ remote \in [Others -> [Keys -> Vals \union {Absent}]]
  /\ migrating \in BOOLEAN
  /\ pc \in [Migrators -> {"idle", "found", "group", "send", "wait", "remove"}]
  /\ groups \in [Migrators -> [Others -> SUBSET Keys]]
  /\ target \in [Migrators -> Hosts]
  /\ entries \in [Migrators -> SUBSET (Keys \X Vals)]
  /\ asking \in [Migrators -> (Keys \X Vals) \union {NoEntry}]
  /\ sent \in [Others -> Seq(Keys \X Vals)]
  /\ replies \in [Others -> Nat]

Holding(h, k) ==
  \/ remote[h][k] = written[k]
  \/ \E i \in 1..Len(sent[h]) : sent[h][i] = <<k, written[k]>>

(* The last value written to a key is somewhere: still in this store, in   *)
(* the store of another node, or under way to one.                         *)
NothingLost ==
  \A k \in Keys :
    written[k] # Absent =>
      local[k] = written[k] \/ \E h \in Others : Holding(h, k)

(* "Remove migrated keys from local store": what is removed is what the    *)
(* target was sent.                                                        *)
RemovesOnlyMigrated ==
  [][\A m \in Migrators, k \in Keys :
       RemoveKey(m, k) /\ local[k] # Absent =>
         \/ remote[target[m]][k] = local[k]
         \/ \E i \in 1..Len(sent[target[m]]) : sent[target[m]][i] = <<k, local[k]>>]_vars

(* is_migrating answers whether a migration is in progress.                *)
FlagTruthful == (\E m \in Migrators : Busy(m)) => migrating

(* Migrations that overlap clear the flag under each other, but it is not  *)
(* left set when the last of them is over, which would stop migration for  *)
(* good.                                                                   *)
FlagNotStuck == (\A m \in Migrators : pc[m] = "idle") => ~migrating

(* "For each key, check if this node is still the owner": of the keys of   *)
(* two neighbouring hash codes and a cluster of two nodes, one stays.      *)
KeepsOwnKeys ==
  \A m \in Migrators :
    pc[m] = "found" => \E k \in Keys : \A h \in Others : k \notin groups[m][h]

(* A migration ends, and with it the flag that keeps others out.           *)
MigrationEnds == \A m \in Migrators : Busy(m) ~> ~Busy(m)
=============================================================================
