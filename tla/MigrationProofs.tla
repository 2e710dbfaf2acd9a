-------------------------- MODULE MigrationProofs --------------------------
(***************************************************************************)
(* What Migration.tla keeps for any hosts, keys, values, tasks, membership *)
(* changes and timeouts.                                                   *)
(***************************************************************************)
EXTENDS Migration, TLAPS

-----------------------------------------------------------------------------
(* The flag.  No assumption is made of writes, breaks or refusals.         *)

Places == {"idle", "found", "group", "send", "wait", "remove"}

FlagInv ==
  /\ pc \in [Migrators -> Places]
  /\ migrating => \E m \in Migrators : Busy(m)

LEMMA FlagInit == Init => FlagInv
BY DEF Init, FlagInv, Places

LEMMA FlagStep ==
  ASSUME FlagInv, [Next]_vars
  PROVE  FlagInv'
<1> USE DEF FlagInv, Places, Busy
<1>1. ASSUME NEW m \in Migrators, Check(m) PROVE FlagInv'
  BY <1>1 DEF Check
<1>2. ASSUME NEW m \in Migrators, Start(m) PROVE FlagInv'
  BY <1>2 DEF Start
<1>3. ASSUME NEW m \in Migrators, NEW h \in Others, NextGroup(m, h) PROVE FlagInv'
  BY <1>3 DEF NextGroup
<1>4. ASSUME NEW m \in Migrators, NEW e \in entries[m], Send(m, e) PROVE FlagInv'
  BY <1>4 DEF Send
<1>5. ASSUME NEW m \in Migrators, Receive(m) PROVE FlagInv'
  BY <1>5 DEF Receive
<1>6. ASSUME NEW m \in Migrators, NEW k \in Keys, RemoveKey(m, k) PROVE FlagInv'
  BY <1>6 DEF RemoveKey
<1>7. ASSUME NEW m \in Migrators, Finish(m) PROVE FlagInv'
  BY <1>7 DEF Finish
<1>8. ASSUME NEW m \in Migrators, Timeout(m) PROVE FlagInv'
  BY <1>8 DEF Timeout, Abandon
<1>9. ASSUME NEW h \in Others, Break(h) PROVE FlagInv'
  BY <1>9 DEF Break, Abandon, task
<1>10. ASSUME NEW h \in Others, Serve(h) PROVE FlagInv'
  BY <1>10 DEF Serve, task
<1>11. ASSUME NEW k \in Keys, NEW v \in Vals, LocalPut(k, v) PROVE FlagInv'
  BY <1>11 DEF LocalPut, task
<1>12. CASE MembershipChanges
  BY <1>12 DEF MembershipChanges, task
<1>13. CASE UNCHANGED vars
  BY <1>13 DEF vars, task
<1> QED
  BY <1>1, <1>2, <1>3, <1>4, <1>5, <1>6, <1>7, <1>8, <1>9, <1>10, <1>11, <1>12, <1>13
     DEF Next, Step

(* Whatever fails, and however migrations overlap: when the last of them   *)
(* is over, check_and_migrate is not locked out by the flag.               *)
THEOREM FlagNotStuckHolds == Spec => []FlagNotStuck
<1>1. FlagInv => FlagNotStuck
  BY DEF FlagInv, FlagNotStuck, Busy
<1> QED
  BY <1>1, FlagInit, FlagStep, PTL DEF Spec

-----------------------------------------------------------------------------
(* The keys.  Nobody else writes to the local store, connections do not    *)
(* break, and targets take what they are sent; calls may time out, members *)
(* come and go, and migrations overlap.                                    *)
Undisturbed == MaxWrites = 0 /\ MaxBreaks = 0 /\ Refused = {}

Original(e) == e \in Keys \X Vals /\ e[2] = Initial[e[1]]

(* Every value there is, in a store or on its way, is the one the key had. *)
ValueInv ==
  /\ used \in [writes : Nat, changes : Nat, timeouts : Nat, breaks : Nat, runs : Nat]
  /\ used.writes = 0 /\ used.breaks = 0
  /\ written = Initial
  /\ local \in [Keys -> Vals \union {Absent}]
  /\ \A k \in Keys : local[k] \in {Initial[k], Absent}
  /\ remote \in [Others -> [Keys -> Vals \union {Absent}]]
  /\ sent \in [Others -> Seq(Keys \X Vals)]
  /\ \A h \in Others : \A i \in 1..Len(sent[h]) : Original(sent[h][i])

TaskInv ==
  /\ pc \in [Migrators -> Places]
  /\ groups \in [Migrators -> [Others -> SUBSET Keys]]
  /\ target \in [Migrators -> Hosts]
  /\ entries \in [Migrators -> SUBSET (Keys \X Vals)]
  /\ \A m \in Migrators : \A e \in entries[m] : Original(e)

(* A key of the group under way is still to be sent, or at its target, or  *)
(* another migration has removed it.                                       *)
GroupInv(m) ==
  pc[m] \in {"send", "wait", "remove"} =>
    /\ target[m] \in Others
    /\ pc[m] = "remove" => entries[m] = {}
    /\ \A k \in groups[m][target[m]] :
         \/ <<k, Initial[k]>> \in entries[m]
         \/ Holding(target[m], k)
         \/ local[k] = Absent

MoveInv ==
  /\ ValueInv
  /\ TaskInv
  /\ \A m \in Migrators : GroupInv(m)
  /\ NothingLost

LEMMA MoveInit == Init => MoveInv
<1> SUFFICES ASSUME Init PROVE MoveInv
  OBVIOUS
<1> USE MigrationAssumption, MembershipAssumption DEF Init
<1>1. ValueInv
  BY DEF ValueInv, Original
<1>2. TaskInv
  BY DEF TaskInv, Places, NoGroups
<1>3. \A m \in Migrators : GroupInv(m)
  BY DEF GroupInv
<1>4. NothingLost
  BY DEF NothingLost
<1> QED
  BY <1>1, <1>2, <1>3, <1>4 DEF MoveInv

(* What a target holds of a key it keeps: a request is only served, and    *)
(* serving it stores the value the key had.                                *)
LEMMA SendKeepsHolding ==
  ASSUME ValueInv, TaskInv, NEW m \in Migrators, NEW e \in entries[m], Send(m, e),
         target[m] \in Others, NEW h \in Others, NEW k \in Keys, Holding(h, k)
  PROVE  Holding(h, k)'
<1>1. sent[h] \in Seq(Keys \X Vals) /\ e \in Keys \X Vals
  BY DEF ValueInv, TaskInv, Original
<1>2. remote' = remote /\ written' = written
  BY DEF Send, network
<1>3. sent'[h] = sent[h] \/ sent'[h] = Append(sent[h], e)
  BY DEF Send, ValueInv
<1>4. CASE remote[h][k] = written[k]
  BY <1>2, <1>4 DEF Holding
<1>5. ASSUME NEW i \in 1..Len(sent[h]), sent[h][i] = <<k, written[k]>>
      PROVE  Holding(h, k)'
  <2>1. i \in 1..Len(sent'[h]) /\ sent'[h][i] = sent[h][i]
    BY <1>1, <1>3
  <2> QED
    BY <2>1, <1>2, <1>5 DEF Holding
<1> QED
  BY <1>4, <1>5 DEF Holding

LEMMA ServeKeepsHolding ==
  ASSUME Undisturbed, ValueInv, NEW g \in Others, Serve(g),
         NEW h \in Others, NEW k \in Keys, Holding(h, k)
  PROVE  Holding(h, k)'
<1>1. written' = written /\ written = Initial
  BY DEF Serve, ValueInv
<1>2. CASE g # h
  <2>1. sent'[h] = sent[h] /\ remote'[h] = remote[h]
    BY <1>2 DEF Serve, ValueInv
  <2> QED
    BY <2>1, <1>1 DEF Holding
<1>3. CASE g = h
  <2> DEFINE e == Head(sent[h])
  <2>1. sent[h] \in Seq(Keys \X Vals) /\ sent[h] # << >>
    BY <1>3 DEF Serve, ValueInv
  <2>2. 1 \in 1..Len(sent[h]) /\ e = sent[h][1]
    BY <2>1
  <2>3. e[1] \in Keys /\ e[2] = Initial[e[1]]
    BY <2>2 DEF ValueInv, Original
  <2>4. remote' = [remote EXCEPT ![h][e[1]] = e[2]] /\ sent'[h] = Tail(sent[h])
    BY <1>3, <2>3 DEF Serve, Undisturbed, ValueInv
  <2>5. remote'[h] = [remote[h] EXCEPT ![e[1]] = e[2]] /\ remote[h] \in [Keys -> Vals \union {Absent}]
    BY <2>4 DEF ValueInv
  <2>6. CASE remote[h][k] = written[k]
    <3>1. remote'[h][k] = written[k]
      BY <2>3, <2>5, <2>6, <1>1
    <3> QED
      BY <3>1, <1>1 DEF Holding
  <2>7. ASSUME NEW i \in 1..Len(sent[h]), sent[h][i] = <<k, written[k]>>
        PROVE  Holding(h, k)'
    <3>1. CASE i = 1
      <4>1. e[1] = k /\ e[2] = written[k]
        BY <3>1, <2>2, <2>7
      <4>2. remote'[h][k] = written[k]
        BY <4>1, <2>5
      <4> QED
        BY <4>2, <1>1 DEF Holding
    <3>2. CASE i # 1
      <4>1. i - 1 \in 1..Len(sent'[h]) /\ sent'[h][i - 1] = sent[h][i]
        BY <3>2, <2>1, <2>4
      <4> QED
        BY <4>1, <2>7, <1>1 DEF Holding
    <3> QED
      BY <3>1, <3>2
  <2> QED
    BY <2>6, <2>7 DEF Holding
<1> QED
  BY <1>2, <1>3

(* What a step has to keep for the groups of the migrations it is not of.   *)
Kept == \A h \in Others, k \in Keys : Holding(h, k) => Holding(h, k)'

Untouched(m) ==
  /\ pc'[m] = pc[m] /\ target'[m] = target[m]
  /\ groups'[m] = groups[m] /\ entries'[m] = entries[m]

LEMMA StoresUnchanged ==
  ASSUME UNCHANGED <<remote, sent, written>>
  PROVE  Kept
BY DEF Kept, Holding

LEMMA GroupKept ==
  ASSUME NEW m \in Migrators, TaskInv, GroupInv(m), Kept, Untouched(m),
         \A k \in Keys : local[k] = Absent => local'[k] = Absent
  PROVE  GroupInv(m)'
<1> SUFFICES ASSUME pc[m] \in {"send", "wait", "remove"}
             PROVE  GroupInv(m)'
  BY DEF GroupInv, Untouched
<1>1. PICK h \in Others : h = target[m]
  BY DEF GroupInv
<1>2. h = target'[m] /\ (pc'[m] = "remove" => entries'[m] = {})
  BY <1>1 DEF GroupInv, Untouched
<1>3. ASSUME NEW k \in groups'[m][h]
      PROVE  <<k, Initial[k]>> \in entries'[m] \/ Holding(h, k)' \/ local'[k] = Absent
  <2>1. k \in Keys /\ k \in groups[m][h]
    BY DEF TaskInv, Untouched
  <2>2. <<k, Initial[k]>> \in entries[m] \/ Holding(h, k) \/ local[k] = Absent
    BY <1>1, <2>1 DEF GroupInv
  <2> QED
    BY <2>1, <2>2 DEF Kept, Untouched
<1> QED
  BY <1>2, <1>3 DEF GroupInv, Holding

LEMMA LostKept ==
  ASSUME NothingLost, Kept, UNCHANGED <<local, written>>
  PROVE  NothingLost'
BY DEF NothingLost, Kept

LEMMA MoveStep ==
  ASSUME Undisturbed, MoveInv, [Next]_vars
  PROVE  MoveInv'
<1> USE MigrationAssumption
<1>0. ValueInv /\ TaskInv /\ (\A m \in Migrators : GroupInv(m)) /\ NothingLost
  BY DEF MoveInv
<1>1. ASSUME NEW m \in Migrators, Check(m) PROVE MoveInv'
  <2> USE <1>0, <1>1
  <2>1. UNCHANGED <<members, local, remote, migrating, target, entries, asking, network, written>>
    BY DEF Check
  <2>2. used' \in [writes : Nat, changes : Nat, timeouts : Nat, breaks : Nat, runs : Nat]
        /\ used'.writes = 0 /\ used'.breaks = 0
    BY DEF Check, Use, ValueInv
  <2>3. ValueInv'
    BY <2>1, <2>2 DEF ValueInv, network
  <2>4. groups' \in [Migrators -> [Others -> SUBSET Keys]]
    BY DEF Check, TaskInv, KeysForNode, Live
  <2>5. TaskInv'
    BY <2>1, <2>4 DEF TaskInv, Check, Places
  <2>6. Kept
    BY <2>1, StoresUnchanged DEF network
  <2>7. GroupInv(m)'
    BY DEF Check, GroupInv, TaskInv
  <2>8. \A o \in Migrators \ {m} : GroupInv(o)'
    <3>1. \A o \in Migrators \ {m} : Untouched(o)
      BY <2>1 DEF Check, Untouched, TaskInv
    <3> QED
      BY <2>1, <2>6, <3>1, GroupKept
  <2>9. NothingLost'
    BY <2>1, <2>6, LostKept
  <2> QED
    BY <2>3, <2>5, <2>7, <2>8, <2>9 DEF MoveInv
<1>2. ASSUME NEW m \in Migrators, Start(m) PROVE MoveInv'
  <2> USE <1>0, <1>2
  <2>1. ValueInv'
    BY DEF ValueInv, Start, network
  <2>2. TaskInv'
    BY DEF TaskInv, Start, Places
  <2>3. Kept
    BY StoresUnchanged DEF Start, network
  <2>4. GroupInv(m)'
    BY DEF Start, GroupInv, TaskInv
  <2>5. \A o \in Migrators \ {m} : GroupInv(o)'
    <3>1. \A o \in Migrators \ {m} : Untouched(o)
      BY DEF Start, Untouched, TaskInv
    <3> QED
      BY <2>3, <3>1, GroupKept DEF Start
  <2>6. NothingLost'
    BY <2>3, LostKept DEF Start
  <2> QED
    BY <2>1, <2>2, <2>4, <2>5, <2>6 DEF MoveInv
<1>3. ASSUME NEW m \in Migrators, NEW h \in Others, NextGroup(m, h) PROVE MoveInv'
  <2> USE <1>0, <1>3
  <2>1. ValueInv'
    BY DEF ValueInv, NextGroup, network
  <2>2. entries'[m] = {e \in Entries : e[1] \in groups[m][h]} /\ target'[m] = h
    BY DEF NextGroup, TaskInv
  <2>3. \A e \in entries'[m] : Original(e)
    BY <2>2 DEF Entries, Live, Original, ValueInv
  <2>4. TaskInv'
    BY <2>2, <2>3 DEF TaskInv, NextGroup, Places, Others, Original
  <2>5. \A k \in groups[m][h] : <<k, Initial[k]>> \in entries'[m] \/ local[k] = Absent
    BY <2>2 DEF Entries, Live, ValueInv, TaskInv
  <2>6. GroupInv(m)'
    BY <2>2, <2>5 DEF NextGroup, GroupInv, TaskInv
  <2>7. Kept
    BY StoresUnchanged DEF NextGroup, network
  <2>8. \A o \in Migrators \ {m} : GroupInv(o)'
    <3>1. \A o \in Migrators \ {m} : Untouched(o)
      BY DEF NextGroup, Untouched, TaskInv
    <3> QED
      BY <2>7, <3>1, GroupKept DEF NextGroup
  <2>9. NothingLost'
    BY <2>7, LostKept DEF NextGroup
  <2> QED
    BY <2>1, <2>4, <2>6, <2>8, <2>9 DEF MoveInv
<1>4. ASSUME NEW m \in Migrators, NEW e \in entries[m], Send(m, e) PROVE MoveInv'
  <2> USE <1>0, <1>4
  <2>1. target[m] \in Others /\ Original(e)
    BY DEF Send, GroupInv, TaskInv
  <2>2. ValueInv'
    <3>1. sent' \in [Others -> Seq(Keys \X Vals)]
      BY <2>1 DEF ValueInv, Send, Original
    <3>2. ASSUME NEW h \in Others, NEW i \in 1..Len(sent'[h]) PROVE Original(sent'[h][i])
      <4>1. CASE h # target[m]
        BY <4>1, <3>2 DEF ValueInv, Send
      <4>2. CASE h = target[m]
        <5>1. sent'[h] = Append(sent[h], e) /\ sent[h] \in Seq(Keys \X Vals)
          BY <4>2, <2>1 DEF ValueInv, Send
        <5>2. i \in 1..Len(sent[h]) \/ sent'[h][i] = e
          BY <5>1, <3>2
        <5>3. i \in 1..Len(sent[h]) => sent'[h][i] = sent[h][i]
          BY <5>1
        <5> QED
          BY <5>2, <5>3, <2>1 DEF ValueInv
      <4> QED
        BY <4>1, <4>2
    <3> QED
      BY <3>1, <3>2 DEF ValueInv, Send
  <2>3. TaskInv'
    BY DEF TaskInv, Send, Places
  <2>4. Kept
    BY <2>1, SendKeepsHolding DEF Kept
  <2>5. \A o \in Migrators \ {m} : GroupInv(o)'
    <3>1. \A o \in Migrators \ {m} : Untouched(o)
      BY DEF Send, Untouched, TaskInv
    <3> QED
      BY <2>4, <3>1, GroupKept DEF Send
  <2>6. GroupInv(m)'
    <3>1. PICK h \in Others : h = target[m]
      BY <2>1
    <3>2. /\ pc'[m] = "wait" /\ target'[m] = h /\ groups' = groups /\ local' = local
          /\ entries'[m] = entries[m] \ {e}
      BY <3>1 DEF Send, TaskInv
    <3>3. Holding(h, e[1])'
      <4>1. sent'[h] = Append(sent[h], e) /\ sent[h] \in Seq(Keys \X Vals)
        BY <3>1 DEF ValueInv, Send
      <4>2. Len(sent'[h]) \in 1..Len(sent'[h]) /\ sent'[h][Len(sent'[h])] = e
        BY <4>1
      <4>3. e = <<e[1], written'[e[1]]>>
        BY <2>1 DEF Original, ValueInv, Send
      <4> QED
        BY <4>2, <4>3 DEF Holding
    <3>4. ASSUME NEW k \in groups[m][h]
          PROVE  <<k, Initial[k]>> \in entries'[m] \/ Holding(h, k)' \/ local'[k] = Absent
      <4>1. k \in Keys
        BY DEF TaskInv
      <4>2. <<k, Initial[k]>> \in entries[m] \/ Holding(h, k) \/ local[k] = Absent
        BY <3>1 DEF GroupInv, Send
      <4>3. <<k, Initial[k]>> = e => k = e[1]
        OBVIOUS
      <4> QED
        BY <4>1, <4>2, <4>3, <2>4, <3>2, <3>3 DEF Kept
    <3> QED
      BY <3>2, <3>4 DEF GroupInv, Holding
  <2>7. NothingLost'
    BY <2>4, LostKept DEF Send
  <2> QED
    BY <2>2, <2>3, <2>5, <2>6, <2>7 DEF MoveInv
<1>5. ASSUME NEW m \in Migrators, Receive(m) PROVE MoveInv'
  <2> USE <1>0, <1>5
  <2>1. ValueInv'
    BY DEF ValueInv, Receive
  <2>2. TaskInv'
    BY DEF TaskInv, Receive, Places
  <2>3. Kept
    BY StoresUnchanged DEF Receive
  <2>4. GroupInv(m)'
    <3>1. pc[m] = "wait" /\ pc'[m] = "send" /\ UNCHANGED <<groups, target, entries, local>>
      BY DEF Receive, TaskInv
    <3>2. PICK h \in Others : h = target[m]
      BY <3>1 DEF GroupInv
    <3>3. \A k \in groups[m][h] : k \in Keys
      BY DEF TaskInv
    <3>4. \A k \in groups[m][h] :
            <<k, Initial[k]>> \in entries[m] \/ Holding(h, k)' \/ local[k] = Absent
      BY <2>3, <3>1, <3>2, <3>3 DEF GroupInv, Kept
    <3> QED
      BY <3>1, <3>2, <3>4 DEF GroupInv, Holding
  <2>5. \A o \in Migrators \ {m} : GroupInv(o)'
    <3>1. \A o \in Migrators \ {m} : Untouched(o)
      BY DEF Receive, Untouched, TaskInv
    <3> QED
      BY <2>3, <3>1, GroupKept DEF Receive
  <2>6. NothingLost'
    BY <2>3, LostKept DEF Receive
  <2> QED
    BY <2>1, <2>2, <2>4, <2>5, <2>6 DEF MoveInv
<1>6. ASSUME NEW m \in Migrators, NEW k \in Keys, RemoveKey(m, k) PROVE MoveInv'
  <2> USE <1>0, <1>6
  <2>1. /\ target[m] \in Others /\ k \in groups[m][target[m]]
        /\ entries[m] = {}
        /\ UNCHANGED <<remote, target, entries, sent, written, used>>
        /\ local' = [local EXCEPT ![k] = Absent]
        /\ pc' \in [Migrators -> Places]
        /\ \A o \in Migrators \ {m} : pc'[o] = pc[o] /\ groups'[o] = groups[o]
        /\ \A h \in Others : groups'[m][h] \subseteq groups[m][h]
    BY DEF RemoveKey, GroupInv, TaskInv, Places, network
  <2>2. ValueInv'
    BY <2>1 DEF ValueInv
  <2>3. TaskInv'
    BY <2>1 DEF TaskInv, RemoveKey
  <2>4. Kept
    BY <2>1, StoresUnchanged
  <2>5. \A l \in Keys : local[l] = Absent => local'[l] = Absent
    BY <2>1 DEF ValueInv
  <2>6. \A o \in Migrators \ {m} : GroupInv(o)'
    <3>1. \A o \in Migrators \ {m} : Untouched(o)
      BY <2>1 DEF Untouched
    <3> QED
      BY <2>4, <2>5, <3>1, GroupKept
  <2>7. PICK h \in Others : h = target[m]
    BY <2>1
  <2>8. \A l \in groups[m][h] : l \in Keys /\ (Holding(h, l)' \/ local[l] = Absent)
    <3>1. groups[m][h] \subseteq Keys /\ GroupInv(m) /\ pc[m] \in {"send", "remove"}
      BY DEF RemoveKey, TaskInv
    <3>2. \A l \in groups[m][h] : Holding(h, l) \/ local[l] = Absent
      BY <2>1, <2>7, <3>1 DEF GroupInv
    <3> QED
      BY <2>4, <3>1, <3>2 DEF Kept
  <2>9. GroupInv(m)'
    <3>1. /\ target'[m] = h /\ entries'[m] = {}
          /\ \A l \in groups'[m][h] : Holding(h, l)' \/ local'[l] = Absent
      BY <2>1, <2>5, <2>7, <2>8
    <3> QED
      BY <3>1 DEF GroupInv, Holding
  <2>10. NothingLost'
    <3>1. k \in groups[m][h]
      BY <2>1, <2>7
    <3>2. written[k] # Absent => Holding(h, k)' \/ \E g \in Others : Holding(g, k)'
      BY <2>4, <2>8, <3>1 DEF NothingLost, Kept
    <3>3. \A l \in Keys \ {k} : local'[l] = local[l]
      BY <2>1 DEF ValueInv
    <3> QED
      BY <2>1, <2>4, <3>2, <3>3 DEF NothingLost, Kept
  <2> QED
    BY <2>2, <2>3, <2>6, <2>9, <2>10 DEF MoveInv
<1>7. ASSUME NEW m \in Migrators, Finish(m) PROVE MoveInv'
  <2> USE <1>0, <1>7
  <2>1. ValueInv'
    BY DEF ValueInv, Finish, network
  <2>2. TaskInv'
    BY DEF TaskInv, Finish, Places
  <2>3. Kept
    BY StoresUnchanged DEF Finish, network
  <2>4. GroupInv(m)'
    BY DEF Finish, GroupInv, TaskInv
  <2>5. \A o \in Migrators \ {m} : GroupInv(o)'
    <3>1. \A o \in Migrators \ {m} : Untouched(o)
      BY DEF Finish, Untouched, TaskInv
    <3> QED
      BY <2>3, <3>1, GroupKept DEF Finish
  <2>6. NothingLost'
    BY <2>3, LostKept DEF Finish
  <2> QED
    BY <2>1, <2>2, <2>4, <2>5, <2>6 DEF MoveInv
<1>8. ASSUME NEW m \in Migrators, Timeout(m) PROVE MoveInv'
  <2> USE <1>0, <1>8
  <2>1. /\ UNCHANGED <<local, remote, target, sent, written>>
        /\ pc' = [pc EXCEPT ![m] = "group"]
        /\ groups' = [groups EXCEPT ![m][target[m]] = {}]
        /\ entries' = [entries EXCEPT ![m] = {}]
    BY DEF Timeout, Abandon, network
  <2>2. used' \in [writes : Nat, changes : Nat, timeouts : Nat, breaks : Nat, runs : Nat]
        /\ used'.writes = 0 /\ used'.breaks = 0
    BY DEF Timeout, Use, ValueInv
  <2>3. ValueInv'
    BY <2>1, <2>2 DEF ValueInv
  <2>4. TaskInv'
    BY <2>1 DEF TaskInv, Places
  <2>5. Kept
    BY <2>1, StoresUnchanged
  <2>6. GroupInv(m)'
    BY <2>1 DEF GroupInv, TaskInv
  <2>7. \A o \in Migrators \ {m} : GroupInv(o)'
    <3>1. \A o \in Migrators \ {m} : Untouched(o)
      BY <2>1 DEF Untouched, TaskInv
    <3> QED
      BY <2>1, <2>5, <3>1, GroupKept
  <2>8. NothingLost'
    BY <2>1, <2>5, LostKept
  <2> QED
    BY <2>3, <2>4, <2>6, <2>7, <2>8 DEF MoveInv
<1>9. ASSUME NEW h \in Others, Break(h) PROVE MoveInv'
  BY <1>0, <1>9 DEF Break, Use, Undisturbed, ValueInv
<1>10. ASSUME NEW h \in Others, Serve(h) PROVE MoveInv'
  <2> USE <1>0, <1>10
  <2>1. UNCHANGED <<local, written, used, pc, groups, target, entries>>
    BY DEF Serve, task
  <2>2. ValueInv'
    <3>1. sent[h] \in Seq(Keys \X Vals) /\ sent[h] # << >>
          /\ sent' = [sent EXCEPT ![h] = Tail(@)]
      BY DEF Serve, ValueInv
    <3>2. Original(Head(sent[h]))
      <4>1. 1 \in 1..Len(sent[h]) /\ Head(sent[h]) = sent[h][1]
        BY <3>1
      <4> QED
        BY <4>1 DEF ValueInv
    <3>3. remote' \in [Others -> [Keys -> Vals \union {Absent}]]
      BY <3>2 DEF Serve, ValueInv, Original
    <3>4. sent' \in [Others -> Seq(Keys \X Vals)]
      BY <3>1 DEF ValueInv
    <3>5. ASSUME NEW g \in Others, NEW i \in 1..Len(sent'[g]) PROVE Original(sent'[g][i])
      <4>1. CASE g # h
        BY <4>1, <3>1, <3>5 DEF ValueInv
      <4>2. CASE g = h
        <5>1. sent'[g] = Tail(sent[h])
          BY <4>2, <3>1 DEF ValueInv
        <5>2. i + 1 \in 1..Len(sent[h]) /\ sent'[g][i] = sent[h][i + 1]
          BY <5>1, <3>1, <3>5
        <5> QED
          BY <5>2 DEF ValueInv
      <4> QED
        BY <4>1, <4>2
    <3> QED
      BY <2>1, <3>3, <3>4, <3>5 DEF ValueInv
  <2>3. TaskInv'
    BY <2>1 DEF TaskInv
  <2>4. Kept
    BY ServeKeepsHolding DEF Kept
  <2>5. \A o \in Migrators : GroupInv(o)'
    BY <2>1, <2>4, GroupKept DEF Untouched
  <2>6. NothingLost'
    BY <2>1, <2>4, LostKept
  <2> QED
    BY <2>2, <2>3, <2>5, <2>6 DEF MoveInv
<1>11. ASSUME NEW k \in Keys, NEW v \in Vals, LocalPut(k, v) PROVE MoveInv'
  BY <1>0, <1>11 DEF LocalPut, Use, Undisturbed, ValueInv
<1>12. CASE MembershipChanges
  <2> USE <1>0, <1>12
  <2>1. UNCHANGED <<local, remote, pc, groups, target, entries, sent, written>>
    BY DEF MembershipChanges, task, network
  <2>2. used' \in [writes : Nat, changes : Nat, timeouts : Nat, breaks : Nat, runs : Nat]
        /\ used'.writes = 0 /\ used'.breaks = 0
    BY DEF MembershipChanges, Use, ValueInv
  <2>3. ValueInv'
    BY <2>1, <2>2 DEF ValueInv
  <2>4. TaskInv'
    BY <2>1 DEF TaskInv
  <2>5. Kept
    BY <2>1, StoresUnchanged
  <2>6. \A o \in Migrators : GroupInv(o)'
    BY <2>1, <2>5, GroupKept DEF Untouched
  <2>7. NothingLost'
    BY <2>1, <2>5, LostKept
  <2> QED
    BY <2>3, <2>4, <2>6, <2>7 DEF MoveInv
<1>13. CASE UNCHANGED vars
  <2> USE <1>0, <1>13 DEF vars, task, network
  <2>1. ValueInv' /\ TaskInv'
    BY DEF ValueInv, TaskInv
  <2>2. Kept
    BY StoresUnchanged
  <2>3. \A o \in Migrators : GroupInv(o)'
    BY <2>2, GroupKept DEF Untouched
  <2>4. NothingLost'
    BY <2>2, LostKept
  <2> QED
    BY <2>1, <2>3, <2>4 DEF MoveInv
<1> QED
  BY <1>1, <1>2, <1>3, <1>4, <1>5, <1>6, <1>7, <1>8, <1>9, <1>10, <1>11, <1>12, <1>13
     DEF Next, Step

(* No interleaving of migrations, membership changes and calls that time   *)
(* out loses a key: it stays here, or a target has it or is about to.      *)
THEOREM NothingLostHolds ==
  ASSUME Undisturbed
  PROVE  Spec => []NothingLost
<1>1. Init => MoveInv
  BY MoveInit
<1>2. MoveInv /\ [Next]_vars => MoveInv'
  BY MoveStep
<1>3. MoveInv => NothingLost
  BY DEF MoveInv
<1> QED
  BY <1>1, <1>2, <1>3, PTL DEF Spec

(* "Remove migrated keys from local store": with nothing in its way, the   *)
(* loop after Ok(count) removes no key whose value was not sent.           *)
THEOREM RemovesOnlyMigratedHolds ==
  ASSUME Undisturbed
  PROVE  Spec => RemovesOnlyMigrated
<1>1. Init => MoveInv
  BY MoveInit
<1>2. MoveInv /\ [Next]_vars => MoveInv'
  BY MoveStep
<1>3. ASSUME MoveInv, NEW m \in Migrators, NEW k \in Keys, RemoveKey(m, k), local[k] # Absent
      PROVE  \/ remote[target[m]][k] = local[k]
             \/ \E i \in 1..Len(sent[target[m]]) : sent[target[m]][i] = <<k, local[k]>>
  <2>1. GroupInv(m) /\ pc[m] \in {"send", "remove"} /\ entries[m] = {} /\ k \in groups[m][target[m]]
    BY <1>3 DEF RemoveKey, MoveInv
  <2>2. Holding(target[m], k) /\ written[k] = local[k]
    BY <1>3, <2>1 DEF GroupInv, MoveInv, ValueInv
  <2> QED
    BY <2>2 DEF Holding
<1>4. MoveInv /\ [Next]_vars =>
        [\A m \in Migrators, k \in Keys :
           RemoveKey(m, k) /\ local[k] # Absent =>
             \/ remote[target[m]][k] = local[k]
             \/ \E i \in 1..Len(sent[target[m]]) : sent[target[m]][i] = <<k, local[k]>>]_vars
  BY <1>3
<1> QED
  BY <1>1, <1>2, <1>4, PTL DEF Spec, RemovesOnlyMigrated
=============================================================================
