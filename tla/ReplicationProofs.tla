-------------------------- MODULE ReplicationProofs --------------------------
(***************************************************************************)
(* Theorems about Replication, for any nodes, keys, values, hash values,   *)
(* numbers of replicas and reconnections, and any membership changes and   *)
(* failures.                                                               *)
(***************************************************************************)
EXTENDS Replication, SequenceTheorems, FunctionTheorems, FiniteSetTheorems,
        WellFoundedInduction, TLAPS

-----------------------------------------------------------------------------
(* Positions of a Vec.                                                     *)

LEMMA HasLeast ==
  ASSUME NEW T \in SUBSET Nat, T # {}
  PROVE  \E m \in T : \A n \in T : m <= n
<1>1. PICK m \in T : \A n \in T : ~ (<<n, m>> \in OpToRel(<, Nat))
  BY WFMin, NatLessThanWellFounded
<1>2. ASSUME NEW n \in T PROVE m <= n
  <2>1. m \in Nat /\ n \in Nat
    OBVIOUS
  <2>2. <<n, m>> \in OpToRel(<, Nat) <=> n < m
    BY <2>1 DEF OpToRel
  <2>3. ~(n < m)
    BY <1>1, <2>2, Zenon
  <2> QED
    BY <2>1, <2>3
<1> QED
  BY <1>2

(* The n-th of some positions is one of them.                              *)
LEMMA NthIsPosition ==
  ASSUME NEW size \in Nat, NEW P \in SUBSET (1..size), NEW n \in 1..Cardinality(P)
  PROVE  Nth(P, n) \in P
<1> DEFINE Upto(m) == {j \in P : j <= m}
           T == {m \in Nat : n <= Cardinality(Upto(m))}
<1>1. /\ IsFiniteSet(P) /\ Cardinality(P) \in Nat
      /\ \A j \in P : j \in Nat /\ 1 <= j /\ j <= size
  <2>1. IsFiniteSet(1..size)
    BY FS_Interval
  <2>2. IsFiniteSet(P)
    BY <2>1, FS_Subset
  <2>3. \A j \in 1..size : j \in Nat /\ 1 <= j /\ j <= size
    OBVIOUS
  <2> QED
    BY <2>2, <2>3, FS_CardinalityType
<1>2. ASSUME NEW m \in Nat PROVE IsFiniteSet(Upto(m)) /\ Cardinality(Upto(m)) \in Nat
  BY <1>1, FS_Subset, FS_CardinalityType
<1>3. size \in T
  <2>1. Upto(size) = P
    BY <1>1
  <2>2. n <= Cardinality(P)
    BY <1>1
  <2> HIDE DEF Upto
  <2> QED
    BY <2>1, <2>2
<1>4. PICK m \in T : \A x \in T : m <= x
  <2> HIDE DEF T
  <2>1. T \subseteq Nat
    BY DEF T
  <2> QED
    BY <1>3, <2>1, HasLeast
<1>5. m \in Nat /\ n <= Cardinality(Upto(m)) /\ n \in Nat \ {0}
  BY <1>1
<1>6. m # 0
  <2> SUFFICES ASSUME m = 0 PROVE FALSE
    OBVIOUS
  <2>1. Upto(0) = {}
    <3>1. \A j \in P : ~(j <= 0)
      BY <1>1
    <3> QED
      BY <3>1
  <2> HIDE DEF Upto
  <2> QED
    BY <1>5, <2>1, FS_EmptySet
<1>7. m - 1 \in Nat /\ m - 1 \notin T
  <2> HIDE DEF T
  <2>1. m - 1 \in Nat /\ ~(m <= m - 1)
    BY <1>5, <1>6
  <2> QED
    BY <1>4, <2>1
<1>8. Cardinality(Upto(m - 1)) < n
  <2> DEFINE c == Cardinality(Upto(m - 1))
  <2>1. ~(n <= c)
    BY <1>7
  <2>2. c \in Nat
    BY <1>2, <1>7
  <2> HIDE DEF c
  <2>3. c < n
    BY <1>5, <2>1, <2>2
  <2> QED
    BY <2>3 DEF c
<1>9. m \in P
  <2> SUFFICES ASSUME m \notin P PROVE FALSE
    OBVIOUS
  <2>1. Upto(m) = Upto(m - 1)
    <3>1. \A j \in P : j <= m <=> j <= m - 1
      BY <1>1, <1>5
    <3> QED
      BY <3>1
  <2> HIDE DEF Upto
  <2> QED
    BY <1>2, <1>5, <1>7, <1>8, <2>1
<1>10. Cardinality(Upto(m)) = Cardinality(Upto(m - 1)) + 1
  <2>1. Upto(m) = Upto(m - 1) \union {m} /\ m \notin Upto(m - 1)
    <3>1. \A j \in P : j <= m <=> j <= m - 1 \/ j = m
      BY <1>1, <1>5
    <3>2. ~(m <= m - 1)
      BY <1>5
    <3> QED
      BY <1>9, <3>1, <3>2
  <2> HIDE DEF Upto
  <2> QED
    BY <1>2, <1>7, <2>1, FS_AddElement
<1>11. Cardinality(Upto(m)) = n
  <2> HIDE DEF Upto
  <2> QED
    BY <1>2, <1>5, <1>7, <1>8, <1>10
<1> QED
  BY <1>9, <1>11 DEF Nth

(* Filtering a Vec keeps entries of it.                                    *)
LEMMA FilteredType ==
  ASSUME NEW S, NEW list \in Seq(S), NEW P \in SUBSET (1..Len(list)),
         NEW T, \A i \in P : list[i] \in T
  PROVE  Filtered(list, P) \in Seq(T)
<1>1. Len(list) \in Nat
  OBVIOUS
<1>2. Cardinality(P) \in Nat
  <2>1. IsFiniteSet(1..Len(list))
    BY <1>1, FS_Interval
  <2> QED
    BY <2>1, FS_Subset, FS_CardinalityType
<1>3. \A n \in 1..Cardinality(P) : list[Nth(P, n)] \in T
  BY <1>1, NthIsPosition
<1> QED
  BY <1>2, <1>3 DEF Filtered

-----------------------------------------------------------------------------
(* How often a list names something.                                       *)

LEMMA NamedType ==
  ASSUME NEW S, NEW s \in Seq(S), NEW h
  PROVE  /\ Named(s, h) \in Nat
         /\ Named(s, h) = 0 <=> \A i \in 1..Len(s) : s[i] # h
<1>1. IsFiniteSet(1..Len(s))
  BY FS_Interval
<1> DEFINE I == {i \in 1..Len(s) : s[i] = h}
<1>2. IsFiniteSet(I)
  BY <1>1, FS_Subset
<1>3. Cardinality(I) \in Nat /\ (Cardinality(I) = 0 <=> I = {})
  BY <1>2, FS_CardinalityType, FS_EmptySet
<1> QED
  BY <1>3 DEF Named

LEMMA NamedEmpty ==
  ASSUME NEW h
  PROVE  Named(<< >>, h) = 0
<1>1. {i \in 1..Len(<< >>) : << >>[i] = h} = {}
  OBVIOUS
<1> QED
  BY <1>1, FS_EmptySet DEF Named

LEMMA NamedAppend ==
  ASSUME NEW S, NEW s \in Seq(S), NEW x \in S, NEW h
  PROVE  Named(Append(s, x), h) = Named(s, h) + (IF x = h THEN 1 ELSE 0)
<1> DEFINE t == Append(s, x)
           I == {i \in 1..Len(s) : s[i] = h}
           J == {i \in 1..Len(t) : t[i] = h}
<1>1. /\ Len(s) \in Nat /\ Len(t) = Len(s) + 1
      /\ \A i \in 1..Len(s) : t[i] = s[i]
      /\ t[Len(s) + 1] = x
  BY AppendProperties
<1>2. IsFiniteSet(I) /\ Len(s) + 1 \notin I
  <2>1. IsFiniteSet(1..Len(s)) /\ Len(s) + 1 \notin 1..Len(s)
    BY <1>1, FS_Interval
  <2> QED
    BY <2>1, FS_Subset
<1>3. J = IF x = h THEN I \union {Len(s) + 1} ELSE I
  BY <1>1
<1>4. Cardinality(I) \in Nat
  BY <1>2, FS_CardinalityType
<1> HIDE DEF I, J, t
<1>5. Cardinality(J) = Cardinality(I) + (IF x = h THEN 1 ELSE 0)
  <2>1. Cardinality(I \union {Len(s) + 1}) = Cardinality(I) + 1
    BY <1>2, FS_AddElement
  <2> QED
    BY <1>3, <1>4, <2>1
<1> QED
  BY <1>5 DEF Named, I, J, t

LEMMA NamedTail ==
  ASSUME NEW S, NEW s \in Seq(S), s # << >>, NEW h
  PROVE  Named(s, h) = Named(Tail(s), h) + (IF Head(s) = h THEN 1 ELSE 0)
<1> DEFINE t == Tail(s)
           I == {i \in 1..Len(s) : s[i] = h}
           J == {i \in 1..Len(t) : t[i] = h}
           K == I \ {1}
           f == [i \in J |-> i + 1]
<1>1. /\ Len(s) \in Nat \ {0} /\ Len(t) = Len(s) - 1 /\ Head(s) = s[1]
      /\ \A i \in 1..Len(t) : t[i] = s[i + 1]
  BY EmptySeq, HeadTailProperties
<1>2. IsFiniteSet(I) /\ IsFiniteSet(J)
  <2>1. IsFiniteSet(1..Len(s)) /\ IsFiniteSet(1..Len(t))
    BY <1>1, FS_Interval
  <2> HIDE DEF t
  <2> QED
    BY <2>1, FS_Subset
<1> HIDE DEF t
<1>3. f \in Bijection(J, K)
  <2>1. \A i \in J : i \in Nat /\ f[i] = i + 1 /\ f[i] \in K
    BY <1>1
  <2>2. \A i, j \in J : f[i] = f[j] => i = j
    BY <2>1
  <2>3. \A j \in K : j - 1 \in J /\ f[j - 1] = j
    BY <1>1
  <2> HIDE DEF J, K
  <2>4. f \in [J -> K]
    BY <2>1
  <2>5. \A j \in K : \E i \in J : f[i] = j
    BY <2>3
  <2> HIDE DEF f
  <2> QED
    BY <2>2, <2>4, <2>5, Fun_IsBij
<1>4. Cardinality(K) = Cardinality(J)
  <2> HIDE DEF f, J, K
  <2>1. ExistsBijection(J, K)
    BY <1>3 DEF ExistsBijection
  <2> QED
    BY <1>2, <2>1, FS_Bijection
<1>5. 1 \in I <=> Head(s) = h
  BY <1>1
<1>6. Cardinality(I) \in Nat /\ Cardinality(K) = IF 1 \in I THEN Cardinality(I) - 1 ELSE Cardinality(I)
  <2> HIDE DEF I
  <2> QED
    BY <1>2, FS_RemoveElement, FS_CardinalityType
<1>7. Cardinality(I) = Cardinality(J) + (IF Head(s) = h THEN 1 ELSE 0)
  BY <1>4, <1>5, <1>6
<1> QED
  BY <1>7 DEF Named, t

-----------------------------------------------------------------------------
(* Membership.  A node is never a member of its own list, so no write is   *)
(* ever sent to this node.                                                 *)

Members == [host : Others, state : NodeStates \ {"Left"}, stale : BOOLEAN]

MembersInv == members \in Seq(Members)

LEMMA FunctionIsSeq ==
  ASSUME NEW S, NEW n \in Nat, NEW f \in [1..n -> S]
  PROVE  f \in Seq(S)
OBVIOUS

LEMMA MembersInit == Init => MembersInv
<1> SUFFICES ASSUME Init PROVE MembersInv
  OBVIOUS
<1> DEFINE P == {i \in 1..Len(InitialMembers) : InitialMembers[i] # Self}
           others == Filtered(InitialMembers, P)
<1>1. InitialMembers \in Seq(Hosts)
  BY MembershipAssumption
<1>2. \A i \in P : InitialMembers[i] \in Others
  BY <1>1, ElementOfSeq DEF Others
<1>3. others \in Seq(Others)
  BY <1>1, <1>2, FilteredType
<1>4. members = [i \in 1..Len(others) |-> Entry(others[i])]
  BY DEF Init, InitMembers, MembersFrom
<1> HIDE DEF others
<1>5. \A i \in 1..Len(others) : Entry(others[i]) \in Members /\ Len(others) \in Nat
  BY <1>3, ElementOfSeq DEF Entry, Members, NodeStates
<1> QED
  BY <1>3, <1>4, <1>5 DEF MembersInv

LEMMA MembersStep == MembersInv /\ [Next]_vars => MembersInv'
<1> SUFFICES ASSUME MembersInv, MembershipNext PROVE MembersInv'
  BY DEF MembersInv, Next, vars, Process, Step, Resolve, SendOnly, Connect, ConnectFails, Write,
         WriteLost, Broken, GivesUp, Return, Serve, ServeStray, Break, Goes, Comes,
         MembershipChanges
<1>a. members \in Seq(Members) /\ Len(members) \in Nat
  BY DEF MembersInv
<1>b. \A i \in 1..Len(members) : members[i] \in Members
  BY <1>a, ElementOfSeq
<1>1. ASSUME NEW h, MarkAlive(h) \/ MarkSuspect(h) \/ MarkDead(h) PROVE MembersInv'
  <2>1. members' \in [1..Len(members) -> Members]
    <3>1. ASSUME NEW e \in Members, NEW s \in {"Alive", "Suspect", "Dead"}
          PROVE  /\ [e EXCEPT !.state = s] \in Members
                 /\ [e EXCEPT !.state = s, !.stale = FALSE] \in Members
      BY DEF Members, NodeStates
    <3>2. CASE MarkAlive(h)
      BY <1>b, <3>1, <3>2 DEF MarkAlive, UpdateFirst
    <3>3. CASE MarkSuspect(h)
      BY <1>b, <3>1, <3>3 DEF MarkSuspect, UpdateFirst
    <3>4. CASE MarkDead(h)
      BY <1>b, <3>1, <3>4 DEF MarkDead, UpdateFirst
    <3> QED
      BY <1>1, <3>2, <3>3, <3>4
  <2> QED
    BY <1>a, <2>1, FunctionIsSeq DEF MembersInv
<1>2. ASSUME NEW h \in Hosts, AddMember(h) PROVE MembersInv'
  <2>1. Entry(h) \in Members
    BY <1>2 DEF AddMember, Entry, Members, NodeStates, Others
  <2> QED
    BY <1>2, <1>a, <2>1 DEF AddMember, MembersInv
<1>3. ASSUME NEW h, RemoveMember(h) PROVE MembersInv'
  BY <1>3, <1>a, <1>b, FilteredType DEF RemoveMember, MembersInv
<1>4. ASSUME NEW i \in 1..Len(members), HeartbeatAges(i) PROVE MembersInv'
  <2>1. [members[i] EXCEPT !.stale = TRUE] \in Members
    BY <1>b DEF Members
  <2>2. members' = [members EXCEPT ![i] = [members[i] EXCEPT !.stale = TRUE]]
    BY <1>4 DEF HeartbeatAges
  <2> QED
    BY <1>a, <2>1, <2>2, ExceptSeq DEF MembersInv
<1>5. ASSUME CheckHealth PROVE MembersInv'
  <2>1. members' \in [1..Len(members) -> Members]
    BY <1>5, <1>b DEF CheckHealth, Members, NodeStates
  <2> QED
    BY <1>a, <2>1, FunctionIsSeq DEF MembersInv
<1> QED
  BY <1>1, <1>2, <1>3, <1>4, <1>5 DEF MembershipNext

(* get_replica_nodes only names other nodes.                               *)
LEMMA ReplicasType ==
  ASSUME MembersInv, NEW k \in Keys
  PROVE  Replicas(k) \in Seq(Others)
<1> DEFINE P == {i \in 1..Len(members) : members[i].state = "Alive"}
           alive == Filtered(members, P)
<1>1. alive \in Seq(Members)
  BY FilteredType, ElementOfSeq DEF MembersInv
<1>2. Active = [i \in 1..Len(alive) |-> alive[i].host]
  BY DEF Active
<1> HIDE DEF alive
<1>3. Active \in Seq(Others)
  <2>1. \A i \in 1..Len(alive) : alive[i] \in Members
    BY <1>1, ElementOfSeq
  <2>2. Active \in [1..Len(alive) -> Others] /\ Len(alive) \in Nat
    BY <1>1, <1>2, <2>1 DEF Members
  <2> QED
    BY <2>2, FunctionIsSeq
<1>4. CASE Active = << >>
  BY <1>4 DEF Replicas
<1>5. CASE Active # << >>
  <2> DEFINE n == Len(Active)
  <2>1. n \in Nat \ {0}
    BY <1>3, <1>5, EmptySeq
  <2>2. HashOf[k] \in Nat /\ NumReplicas \in Nat
    BY MembershipAssumption, ReplicationAssumption
  <2>3. \A i \in 1..NumReplicas : ((HashOf[k] + i) % n) + 1 \in 1..n
    <3> HIDE DEF n
    <3> QED
      BY <2>1, <2>2
  <2>4. \A i \in 1..NumReplicas : Active[((HashOf[k] + i) % n) + 1] \in Others
    BY <1>3, <2>3, ElementOfSeq
  <2> QED
    BY <1>5, <2>2, <2>4 DEF Replicas
<1> QED
  BY <1>4, <1>5

-----------------------------------------------------------------------------
(* Type correctness.                                                       *)

(* A task has replicas left exactly while it is at one of them, and none   *)
(* is chosen before it runs.                                               *)
StageInv ==
  \A w \in Writes :
    /\ stage[w] = "none" <=> w > Len(write)
    /\ stage[w] \in {"none", "spawned"} => chosen[w] = << >>
    /\ todo[w] # << >> <=> stage[w] \in {"next", "send"}

TypeInv ==
  /\ TypeOK
  /\ MembersInv
  /\ sent \in [Others -> Seq(1..Len(write))]
  /\ stray \subseteq Others \X (1..Len(write))
  /\ StageInv

LEMMA WritesFacts ==
  ASSUME TypeInv
  PROVE  /\ Len(write) \in Nat /\ MaxWrites \in Nat /\ 1..Len(write) \subseteq Writes
         /\ \A w \in 1..Len(write) : write[w].op \in Ops /\ write[w].key \in Keys /\ write[w].val \in Vals
<1>1. write \in Seq([op : Ops, key : Keys, val : Vals]) /\ Len(write) <= MaxWrites
  BY DEF TypeInv, TypeOK
<1>2. Len(write) \in Nat /\ MaxWrites \in Nat
  BY <1>1, ReplicationAssumption
<1>3. \A w \in 1..Len(write) : write[w] \in [op : Ops, key : Keys, val : Vals]
  BY <1>1, ElementOfSeq
<1> QED
  BY <1>1, <1>2, <1>3 DEF Writes

LEMMA MembersTypeOK == MembersInv => MembershipTypeOK
<1>1. Members \subseteq [host : Hosts, state : NodeStates \ {"Left"}, stale : BOOLEAN]
  BY DEF Members, Others
<1> QED
  BY <1>1, SeqMonotonic DEF MembersInv, MembershipTypeOK

LEMMA TypeInit == Init => TypeInv
<1> SUFFICES ASSUME Init PROVE TypeInv
  OBVIOUS
<1>1. MembersInv
  BY MembersInit
<1>2. MembershipTypeOK
  BY <1>1, MembersTypeOK
<1>3. StageInv
  BY ReplicationAssumption DEF Init, StageInv, Writes
<1>4. /\ sent \in [Others -> Seq(1..Len(write))] /\ stray = {}
      /\ \A h \in Others : sent[h] = << >>
  BY DEF Init
<1>5. TypeOK
  BY <1>2, <1>4, ReplicationAssumption DEF Init, TypeOK
<1> QED
  BY <1>1, <1>3, <1>4, <1>5 DEF TypeInv

(* What executing an operation stores.                                     *)
LEMMA ResultType ==
  ASSUME NEW op \in Ops, NEW old \in Seq(Vals), NEW v \in Vals
  PROVE  Result(op, old, v) \in Seq(Vals)
BY ReplicationAssumption DEF Result

(* Every return of send_only takes the target off the list.                *)
LEMMA ReturnFacts ==
  ASSUME TypeInv, NEW w \in 1..Len(write), Holds(w), Return(w)
  PROVE  /\ Target(w) \in Others
         /\ queue' \in Seq(Writes)
         /\ todo' \in [Writes -> Seq(Others)]
         /\ stage' \in [Writes -> {"none", "spawned", "next", "send", "done"}]
         /\ StageInv'
         /\ \A x \in Writes : x # w => todo'[x] = todo[x] /\ stage'[x] = stage[x]
         /\ stage[w] = "send" /\ stage'[w] \in {"next", "done"}
         /\ \A h : Named(todo[w], h) = Named(todo'[w], h) + (IF h = Target(w) THEN 1 ELSE 0)
         /\ UNCHANGED <<members, primary, write, attempts, remote, chosen, events>>
<1>1. w \in Writes /\ todo \in [Writes -> Seq(Others)] /\ queue \in Seq(Writes) /\ queue # << >>
      /\ stage \in [Writes -> {"none", "spawned", "next", "send", "done"}] /\ stage[w] = "send"
  BY WritesFacts DEF TypeInv, TypeOK, Holds
<1>2. todo[w] \in Seq(Others) /\ todo[w] # << >>
  BY <1>1 DEF TypeInv, StageInv
<1>3. /\ Target(w) \in Others /\ Tail(todo[w]) \in Seq(Others)
      /\ Len(Tail(todo[w])) = Len(todo[w]) - 1
  BY <1>2, HeadTailProperties DEF Target
<1>4. /\ queue' = Tail(queue)
      /\ todo' = [todo EXCEPT ![w] = Tail(todo[w])]
      /\ stage' = [stage EXCEPT ![w] = IF Len(todo[w]) = 1 THEN "done" ELSE "next"]
      /\ UNCHANGED <<members, primary, write, attempts, remote, chosen, events>>
  BY DEF Return
<1>5. queue' \in Seq(Writes)
  BY <1>1, <1>4, HeadTailProperties
<1>6. /\ todo' \in [Writes -> Seq(Others)] /\ todo'[w] = Tail(todo[w])
      /\ stage' \in [Writes -> {"none", "spawned", "next", "send", "done"}]
      /\ \A x \in Writes : x # w => todo'[x] = todo[x] /\ stage'[x] = stage[x]
      /\ stage'[w] = IF Len(todo[w]) = 1 THEN "done" ELSE "next"
  BY <1>1, <1>3, <1>4
<1>7. todo'[w] # << >> <=> Len(todo[w]) # 1
  <2> DEFINE t == todo'[w]
             n == Len(todo[w])
  <2>1. t \in Seq(Others) /\ n \in Nat \ {0} /\ Len(t) = n - 1
    BY <1>2, <1>3, <1>6, EmptySeq
  <2> HIDE DEF t, n
  <2>2. t # << >> <=> n # 1
    BY <2>1, EmptySeq
  <2> QED
    BY <2>2 DEF t, n
<1>8. StageInv'
  <2> SUFFICES ASSUME NEW x \in Writes
               PROVE  /\ stage'[x] = "none" <=> x > Len(write)
                      /\ stage'[x] \in {"none", "spawned"} => chosen[x] = << >>
                      /\ todo'[x] # << >> <=> stage'[x] \in {"next", "send"}
    BY <1>4 DEF StageInv
  <2>1. CASE x = w
    BY <1>1, <1>6, <1>7, <2>1 DEF TypeInv, StageInv
  <2>2. CASE x # w
    BY <1>6, <2>2 DEF TypeInv, StageInv
  <2> QED
    BY <2>1, <2>2
<1>9. \A h : Named(todo[w], h) = Named(todo'[w], h) + (IF h = Target(w) THEN 1 ELSE 0)
  BY <1>2, <1>6, NamedTail DEF Target
<1> QED
  BY <1>1, <1>3, <1>4, <1>5, <1>6, <1>8, <1>9

LEMMA TypeStep == TypeInv /\ [Next]_vars => TypeInv'
<1> SUFFICES ASSUME TypeInv, [Next]_vars PROVE TypeInv'
  OBVIOUS
<1>a. MembersInv' /\ MembershipTypeOK'
  BY MembersStep, MembersTypeOK, PTL DEF TypeInv
<1>b. /\ write \in Seq([op : Ops, key : Keys, val : Vals]) /\ Len(write) \in Nat
      /\ 1..Len(write) \subseteq Writes /\ MaxWrites \in Nat /\ Buffer \in Nat \ {0}
      /\ MaxReconnectAttempts \in Nat
  BY WritesFacts, ReplicationAssumption DEF TypeInv, TypeOK
<1> USE DEF network, task, remote, history
<1>1. ASSUME NEW op \in Ops, NEW k \in Keys, NEW v \in Vals, Process(op, k, v) PROVE TypeInv'
  <2> DEFINE n == Len(write) + 1
             r == [op |-> op, key |-> k, val |-> v]
  <2>1. /\ write' \in Seq([op : Ops, key : Keys, val : Vals])
        /\ Len(write') = n /\ n \in Writes
    <3>1. /\ write' = Append(write, r) /\ r \in [op : Ops, key : Keys, val : Vals]
          /\ Len(write) < MaxWrites
      BY <1>1 DEF Process
    <3> HIDE DEF r
    <3> QED
      BY <1>b, <3>1 DEF Writes
  <2>2. primary' \in [Keys -> Seq(Vals)]
    <3>1. primary[k] \in Seq(Vals)
      BY DEF TypeInv, TypeOK
    <3>2. Result(op, primary[k], v) \in Seq(Vals)
      BY <3>1, ResultType
    <3> QED
      BY <1>1, <3>2 DEF Process, TypeInv, TypeOK
  <2>3. /\ stage' \in [Writes -> {"none", "spawned", "next", "send", "done"}]
        /\ stage'[n] \in {"spawned", "done"} /\ \A x \in Writes : x # n => stage'[x] = stage[x]
    BY <1>1, <2>1 DEF Process, TypeInv, TypeOK
  <2>4. excused' \subseteq Others \X Keys
    BY <1>1 DEF Process, TypeInv, TypeOK
  <2>5. UNCHANGED <<members, todo, attempts, queue, link, sent, unread, stray, up, replica, applied, chosen>>
    BY <1>1 DEF Process
  <2>6. StageInv'
    <3> SUFFICES ASSUME NEW x \in Writes
                 PROVE  /\ stage'[x] = "none" <=> x > n
                        /\ stage'[x] \in {"none", "spawned"} => chosen[x] = << >>
                        /\ todo[x] # << >> <=> stage'[x] \in {"next", "send"}
      BY <2>1, <2>5 DEF StageInv
    <3>1. x \in Nat /\ stage[n] = "none" /\ (x > n <=> x > Len(write) /\ x # n)
      BY <1>b, <2>1 DEF TypeInv, StageInv, Writes
    <3> QED
      BY <2>1, <2>3, <3>1 DEF TypeInv, StageInv
  <2>7. Len(write') <= MaxWrites
    BY <1>b, <2>1 DEF Writes
  <2>8. /\ sent \in [Others -> Seq(1..Len(write'))]
        /\ stray \subseteq Others \X (1..Len(write'))
    <3>1. 1..Len(write) \subseteq 1..Len(write')
      BY <1>b, <2>1
    <3>2. \A h \in Others : sent[h] \in Seq(1..Len(write'))
      BY <3>1, SeqMonotonic DEF TypeInv
    <3> QED
      BY <3>1, <3>2 DEF TypeInv
  <2> HIDE DEF n, r
  <2> QED
    BY <1>a, <2>1, <2>2, <2>3, <2>4, <2>5, <2>6, <2>7, <2>8 DEF TypeInv, TypeOK
<1>2. ASSUME NEW w \in 1..Len(write), Resolve(w) PROVE TypeInv'
  <2>1. /\ w \in Writes /\ Replicas(write[w].key) \in Seq(Others) /\ write[w].key \in Keys
    BY <1>b, WritesFacts, ReplicasType DEF TypeInv
  <2>2. /\ todo' \in [Writes -> Seq(Others)] /\ chosen' \in [Writes -> Seq(Others)]
        /\ \A x \in Writes : x # w => todo'[x] = todo[x] /\ chosen'[x] = chosen[x] /\ stage'[x] = stage[x]
        /\ stage' \in [Writes -> {"none", "spawned", "next", "send", "done"}]
        /\ stage'[w] = IF todo'[w] = << >> THEN "done" ELSE "next"
        /\ stage[w] = "spawned"
    BY <1>2, <2>1 DEF Resolve, TypeInv, TypeOK
  <2>3. UNCHANGED <<members, primary, write, attempts, queue, link, sent, unread, stray, up, replica, applied>>
    BY <1>2 DEF Resolve
  <2>4. excused' \subseteq Others \X Keys
    <3>1. {<<h, write[w].key>> : h \in {g \in Others : Named(todo'[w], g) > 1}} \subseteq Others \X Keys
      BY <2>1
    <3>2. excused \subseteq Others \X Keys
      BY DEF TypeInv, TypeOK
    <3> QED
      BY <1>2, <3>1, <3>2 DEF Resolve
  <2>5. StageInv'
    <3> SUFFICES ASSUME NEW x \in Writes
                 PROVE  /\ stage'[x] = "none" <=> x > Len(write)
                        /\ stage'[x] \in {"none", "spawned"} => chosen'[x] = << >>
                        /\ todo'[x] # << >> <=> stage'[x] \in {"next", "send"}
      BY <2>3 DEF StageInv
    <3>1. CASE x = w
      BY <2>1, <2>2, <3>1 DEF TypeInv, StageInv
    <3>2. CASE x # w
      BY <2>2, <3>2 DEF TypeInv, StageInv
    <3> QED
      BY <3>1, <3>2
  <2> QED
    BY <1>a, <2>2, <2>3, <2>4, <2>5 DEF TypeInv, TypeOK
<1>3. ASSUME NEW w \in 1..Len(write), SendOnly(w) PROVE TypeInv'
  <2>1. queue' \in Seq(Writes)
    <3>1. w \in Writes /\ queue \in Seq(Writes) /\ queue' = Append(queue, w)
      BY <1>3, <1>b DEF SendOnly, TypeInv, TypeOK
    <3> QED
      BY <3>1, AppendProperties
  <2>2. /\ attempts' \in [Writes -> 0..MaxReconnectAttempts]
        /\ stage' \in [Writes -> {"none", "spawned", "next", "send", "done"}]
    <3>1. 0 \in 0..MaxReconnectAttempts
      BY <1>b
    <3> QED
      BY <1>3, <3>1 DEF SendOnly, TypeInv, TypeOK
  <2>3. StageInv'
    BY <1>3, <1>b DEF SendOnly, TypeInv, TypeOK, StageInv
  <2> QED
    BY <1>3, <1>a, <2>1, <2>2, <2>3 DEF SendOnly, TypeInv, TypeOK
<1>4. ASSUME NEW w \in 1..Len(write), Connect(w) PROVE TypeInv'
  BY <1>4, <1>a DEF Connect, TypeInv, TypeOK, StageInv
<1>5. ASSUME NEW w \in 1..Len(write), Holds(w), Return(w), Excuse(w) \/ UNCHANGED excused,
             link' \in [Others -> {"none", "open", "reset"}],
             UNCHANGED <<unread, stray, up>>, sent' \in [Others -> Seq(1..Len(write))],
             \A h \in Others : Len(sent'[h]) <= Buffer
      PROVE  TypeInv'
  <2>1. excused' \subseteq Others \X Keys
    <3>1. Target(w) \in Others /\ write[w].key \in Keys
      BY <1>5, ReturnFacts, WritesFacts
    <3> QED
      BY <1>5, <3>1 DEF Excuse, TypeInv, TypeOK
  <2>2. \A h \in Others : sent'[h] \in Seq(Writes)
    BY <1>5, <1>b, SeqMonotonic
  <2> QED
    BY <1>5, <1>a, <2>1, <2>2, ReturnFacts DEF TypeInv, TypeOK
<1>6. ASSUME NEW w \in 1..Len(write), ConnectFails(w) \/ WriteLost(w) \/ GivesUp(w) PROVE TypeInv'
  <2>1. link' \in [Others -> {"none", "open", "reset"}]
    BY <1>6 DEF ConnectFails, WriteLost, GivesUp, TypeInv, TypeOK
  <2> QED
    BY <1>6, <1>5, <2>1 DEF ConnectFails, WriteLost, GivesUp, TypeInv, TypeOK
<1>7. ASSUME NEW w \in 1..Len(write), Write(w) PROVE TypeInv'
  <2>1. Holds(w) /\ Return(w) /\ Target(w) \in Others /\ w \in Writes
    BY <1>7, <1>b, ReturnFacts DEF Write
  <2>2. sent[Target(w)] \in Seq(1..Len(write)) /\ Len(sent[Target(w)]) < Buffer
    BY <1>7, <2>1 DEF Write, TypeInv
  <2>3. /\ Append(sent[Target(w)], w) \in Seq(1..Len(write))
        /\ Len(Append(sent[Target(w)], w)) <= Buffer
    BY <1>b, <2>1, <2>2
  <2>4. sent' \in [Others -> Seq(1..Len(write))] /\ \A h \in Others : Len(sent'[h]) <= Buffer
    BY <1>7, <2>1, <2>3 DEF Write, TypeInv, TypeOK
  <2> QED
    BY <1>7, <1>5, <2>1, <2>4 DEF Write, TypeInv, TypeOK
<1>8. ASSUME NEW w \in 1..Len(write), Broken(w) PROVE TypeInv'
  <2>1. attempts' \in [Writes -> 0..MaxReconnectAttempts]
    <3>1. attempts[w] + 1 \in 0..MaxReconnectAttempts
      <4>1. attempts[w] \in 0..MaxReconnectAttempts
        BY <1>b DEF TypeInv, TypeOK
      <4>2. attempts[w] + 1 <= MaxReconnectAttempts
        BY <1>8 DEF Broken
      <4> QED
        BY <1>b, <4>1, <4>2
    <3> QED
      BY <1>8, <3>1 DEF Broken, TypeInv, TypeOK
  <2> QED
    BY <1>8, <1>a, <2>1 DEF Broken, TypeInv, TypeOK, StageInv
<1>9. ASSUME NEW h \in Others, NEW w \in 1..Len(write), Execute(h, w)
      PROVE  /\ replica' \in [Others -> [Keys -> Seq(Vals)]]
             /\ applied' \in [Others -> [Writes -> Nat]]
  <2>1. write[w].op \in Ops /\ write[w].key \in Keys /\ write[w].val \in Vals
    BY WritesFacts
  <2>2. replica[h][write[w].key] \in Seq(Vals)
    BY <2>1 DEF TypeInv, TypeOK
  <2>3. Result(write[w].op, replica[h][write[w].key], write[w].val) \in Seq(Vals)
    BY <2>1, <2>2, ResultType
  <2>4. w \in Writes /\ applied[h][w] + 1 \in Nat
    <3>1. w \in Writes /\ applied[h][w] \in Nat
      <4>1. applied \in [Others -> [Writes -> Nat]]
        BY DEF TypeInv, TypeOK
      <4> QED
        BY <1>b, <4>1
    <3> QED
      BY <3>1
  <2>5. replica' \in [Others -> [Keys -> Seq(Vals)]]
    BY <1>9, <2>1, <2>3 DEF Execute, TypeInv, TypeOK
  <2>6. applied' \in [Others -> [Writes -> Nat]]
    BY <1>9, <2>4 DEF Execute, TypeInv, TypeOK
  <2> QED
    BY <2>5, <2>6
<1>10. ASSUME NEW h \in Others, Serve(h) PROVE TypeInv'
  <2> DEFINE w == Head(sent[h])
  <2>1. /\ sent[h] \in Seq(1..Len(write)) /\ sent[h] # << >> /\ unread[h] <= Buffer
        /\ Len(sent[h]) <= Buffer
    BY <1>10 DEF Serve, TypeInv, TypeOK
  <2>2. /\ w \in 1..Len(write) /\ Tail(sent[h]) \in Seq(1..Len(write))
        /\ Len(Tail(sent[h])) = Len(sent[h]) - 1
    BY <2>1, HeadTailProperties
  <2>3. Execute(h, w)
    BY <1>10 DEF Serve
  <2> HIDE DEF w
  <2>4. /\ replica' \in [Others -> [Keys -> Seq(Vals)]]
        /\ applied' \in [Others -> [Writes -> Nat]]
    BY <1>9, <2>2, <2>3
  <2>5. sent' \in [Others -> Seq(1..Len(write))] /\ \A g \in Others : Len(sent'[g]) <= Buffer
    <3>1. Len(Tail(sent[h])) <= Buffer
      BY <1>b, <2>1, <2>2, LenProperties
    <3> QED
      BY <1>10, <2>2, <3>1 DEF Serve, TypeInv, TypeOK
  <2>6. \A g \in Others : sent'[g] \in Seq(Writes)
    BY <1>b, <2>5, SeqMonotonic
  <2>7. unread' \in [Others -> 0..Buffer + 1]
    <3>1. unread[h] + 1 \in 0..Buffer + 1
      <4>1. unread[h] \in 0..Buffer + 1
        BY DEF TypeInv, TypeOK
      <4> QED
        BY <1>b, <2>1, <4>1
    <3> QED
      BY <1>10, <3>1 DEF Serve, TypeInv, TypeOK
  <2> QED
    BY <1>10, <1>a, <2>4, <2>5, <2>6, <2>7 DEF Serve, TypeInv, TypeOK, StageInv
<1>11. ASSUME NEW h \in Others, NEW w \in Writes, ServeStray(h, w) PROVE TypeInv'
  <2>1. w \in 1..Len(write) /\ Execute(h, w)
    BY <1>11 DEF ServeStray, TypeInv
  <2>2. /\ replica' \in [Others -> [Keys -> Seq(Vals)]]
        /\ applied' \in [Others -> [Writes -> Nat]]
    BY <1>9, <2>1
  <2> QED
    BY <1>11, <1>a, <2>2 DEF ServeStray, TypeInv, TypeOK, StageInv
<1>12. ASSUME NEW h \in Others, Break(h) PROVE TypeInv'
  <2>1. sent[h] \in Seq(1..Len(write))
    BY DEF TypeInv
  <2>2. \A w \in ToSet(sent[h]) : w \in 1..Len(write)
    BY <2>1 DEF ToSet
  <2>3. excused' \subseteq Others \X Keys
    <3>1. {<<h, write[w].key>> : w \in ToSet(sent[h])} \subseteq Others \X Keys
      BY <2>2, WritesFacts
    <3>2. excused \subseteq Others \X Keys
      BY DEF TypeInv, TypeOK
    <3> QED
      BY <1>12, <3>1, <3>2 DEF Break
  <2>4. stray' \subseteq Others \X (1..Len(write))
    <3>1. sent[h] # << >> => Head(sent[h]) \in 1..Len(write)
      BY <2>1, HeadTailProperties
    <3> QED
      BY <1>12, <3>1 DEF Break, TypeInv
  <2>5. sent' \in [Others -> Seq(1..Len(write))]
    BY <1>12 DEF Break, TypeInv
  <2>6. \A g \in Others : sent'[g] \in Seq(Writes) /\ Len(sent'[g]) <= Buffer
    <3>1. \A g \in Others : sent'[g] = sent[g] \/ sent'[g] = << >>
      BY <1>12 DEF Break, TypeInv
    <3>2. \A g \in Others : sent[g] \in Seq(Writes) /\ Len(sent[g]) <= Buffer
      BY DEF TypeInv, TypeOK
    <3>3. << >> \in Seq(Writes) /\ Len(<< >>) <= Buffer
      BY <1>b
    <3> QED
      BY <3>1, <3>2, <3>3
  <2>7. unread' \in [Others -> 0..Buffer + 1] /\ link' \in [Others -> {"none", "open", "reset"}]
    <3>1. 0 \in 0..Buffer + 1
      BY <1>b
    <3> QED
      BY <1>12, <3>1 DEF Break, TypeInv, TypeOK
  <2>8. stray' \subseteq Others \X Writes
    BY <1>b, <2>4
  <2>9. UNCHANGED <<members, primary, task, up, remote, chosen>>
    BY <1>12 DEF Break
  <2> QED
    BY <1>a, <2>3, <2>4, <2>5, <2>6, <2>7, <2>8, <2>9 DEF TypeInv, TypeOK, StageInv
<1>13. ASSUME NEW h \in Others, Goes(h) \/ Comes(h) PROVE TypeInv'
  BY <1>13, <1>a DEF Goes, Comes, TypeInv, TypeOK, StageInv
<1>14. ASSUME MembershipChanges PROVE TypeInv'
  <2>1. UNCHANGED <<primary, task, network, remote, chosen>>
    BY <1>14 DEF MembershipChanges
  <2>2. excused' \subseteq Others \X Keys
    BY <1>14 DEF MembershipChanges, TypeInv, TypeOK
  <2> QED
    BY <1>a, <2>1, <2>2 DEF TypeInv, TypeOK, StageInv
<1>15. ASSUME UNCHANGED vars PROVE TypeInv'
  BY <1>15, <1>a DEF vars, TypeInv, TypeOK, StageInv
<1> QED
  BY <1>1, <1>2, <1>3, <1>4, <1>6, <1>7, <1>8, <1>10, <1>11, <1>12, <1>13, <1>14, <1>15
     DEF Next, Step

(* Every variable keeps its type whatever fails and whoever joins, leaves  *)
(* or is suspected: no attempt beyond the maximum, no more in a connection *)
(* than fits, and never this node among the replicas of a write.           *)
THEOREM TypeCorrect == Spec => []TypeOK
<1>1. TypeInv => TypeOK
  BY DEF TypeInv
<1> QED
  BY <1>1, TypeInit, TypeStep, PTL DEF Spec

-----------------------------------------------------------------------------
(* How often a write is executed.                                          *)

(* The executions of a write at a node, past and to come: done, sent, in   *)
(* the hands of a handler, and still on the list of the task.              *)
Copies(h, w) ==
  applied[h][w] + Named(sent[h], w) + (IF <<h, w>> \in stray THEN 1 ELSE 0) + Named(todo[w], h)

CopiesInv == \A h \in Others, w \in Writes : Copies(h, w) <= Named(chosen[w], h)

LEMMA CopiesFacts ==
  ASSUME TypeInv, NEW h \in Others, NEW w \in Writes
  PROVE  /\ applied[h][w] \in Nat /\ Named(sent[h], w) \in Nat
         /\ Named(todo[w], h) \in Nat /\ Named(chosen[w], h) \in Nat
         /\ sent[h] \in Seq(1..Len(write)) /\ todo[w] \in Seq(Others) /\ chosen[w] \in Seq(Others)
<1>1. /\ applied \in [Others -> [Writes -> Nat]] /\ sent[h] \in Seq(1..Len(write))
      /\ todo[w] \in Seq(Others) /\ chosen[w] \in Seq(Others)
  BY DEF TypeInv, TypeOK
<1> QED
  BY <1>1, NamedType

LEMMA CopiesInit == Init => CopiesInv
<1> SUFFICES ASSUME Init, NEW h \in Others, NEW w \in Writes
             PROVE  Copies(h, w) <= Named(chosen[w], h)
  BY DEF CopiesInv
<1>1. /\ applied[h][w] = 0 /\ sent[h] = << >> /\ stray = {}
      /\ todo[w] = << >> /\ chosen[w] = << >>
  BY DEF Init
<1> QED
  BY <1>1, NamedEmpty DEF Copies

LEMMA CopiesStep == TypeInv /\ TypeInv' /\ CopiesInv /\ [Next]_vars => CopiesInv'
<1> SUFFICES ASSUME TypeInv, TypeInv', CopiesInv, [Next]_vars,
                    NEW h \in Others, NEW w \in Writes
             PROVE  (Copies(h, w) <= Named(chosen[w], h))'
  BY DEF CopiesInv
<1> USE DEF network, task, remote, history
<1>a. /\ applied[h][w] \in Nat /\ Named(sent[h], w) \in Nat
      /\ Named(todo[w], h) \in Nat /\ Named(chosen[w], h) \in Nat
      /\ sent[h] \in Seq(1..Len(write))
      /\ Copies(h, w) <= Named(chosen[w], h)
  BY CopiesFacts DEF CopiesInv
<1>b. ASSUME UNCHANGED <<applied, sent, stray>>, todo'[w] = todo[w], chosen'[w] = chosen[w]
      PROVE  (Copies(h, w) <= Named(chosen[w], h))'
  BY <1>a, <1>b DEF Copies
<1>1. ASSUME NEW op \in Ops, NEW k \in Keys, NEW v \in Vals, Process(op, k, v)
      PROVE  (Copies(h, w) <= Named(chosen[w], h))'
  BY <1>1, <1>b DEF Process
<1>2. ASSUME NEW x \in 1..Len(write), Resolve(x) PROVE (Copies(h, w) <= Named(chosen[w], h))'
  <2>1. x \in Writes /\ UNCHANGED <<applied, sent, stray>>
    BY <1>2, WritesFacts DEF Resolve
  <2>2. CASE x = w
    <3>1. Named(chosen[w], h) = 0
      BY <1>2, <2>1, <2>2, NamedEmpty DEF Resolve, TypeInv, StageInv
    <3>2. todo'[w] = chosen'[w] /\ Named(chosen'[w], h) \in Nat
      <4>1. todo'[w] = chosen'[w]
        BY <1>2, <2>1, <2>2 DEF Resolve, TypeInv, TypeOK
      <4>2. chosen'[w] \in Seq(Others)
        BY DEF TypeInv, TypeOK
      <4> QED
        BY <4>1, <4>2, NamedType
    <3>3. applied[h][w] = 0 /\ Named(sent[h], w) = 0 /\ <<h, w>> \notin stray
      BY <1>a, <3>1 DEF Copies
    <3> QED
      BY <2>1, <3>2, <3>3 DEF Copies
  <2>3. CASE x # w
    <3>1. todo'[w] = todo[w] /\ chosen'[w] = chosen[w]
      BY <1>2, <2>1, <2>3 DEF Resolve, TypeInv, TypeOK
    <3> QED
      BY <1>b, <2>1, <3>1
  <2> QED
    BY <2>2, <2>3
<1>3. ASSUME NEW x \in 1..Len(write), SendOnly(x) \/ Connect(x) \/ Broken(x)
      PROVE  (Copies(h, w) <= Named(chosen[w], h))'
  BY <1>3, <1>b DEF SendOnly, Connect, Broken
<1>4. ASSUME NEW x \in 1..Len(write), ConnectFails(x) \/ WriteLost(x) \/ GivesUp(x)
      PROVE  (Copies(h, w) <= Named(chosen[w], h))'
  <2>1. Holds(x) /\ Return(x) /\ UNCHANGED <<applied, sent, stray, chosen>>
    BY <1>4, ReturnFacts DEF ConnectFails, WriteLost, GivesUp
  <2>2. Named(todo'[w], h) \in Nat /\ Named(todo'[w], h) <= Named(todo[w], h)
    <3>1. CASE x = w
      <4>1. Named(todo'[w], h) \in Nat
        BY <2>1, ReturnFacts, NamedType
      <4>2. Named(todo[w], h) = Named(todo'[w], h) + (IF h = Target(w) THEN 1 ELSE 0)
        BY <2>1, <3>1, ReturnFacts
      <4> QED
        BY <4>1, <4>2
    <3>2. CASE x # w
      BY <1>a, <2>1, <3>2, ReturnFacts
    <3> QED
      BY <3>1, <3>2
  <2> QED
    BY <1>a, <2>1, <2>2 DEF Copies
<1>5. ASSUME NEW x \in 1..Len(write), Write(x) PROVE (Copies(h, w) <= Named(chosen[w], h))'
  <2>1. /\ Holds(x) /\ Return(x) /\ UNCHANGED <<applied, stray, chosen>>
        /\ Target(x) \in Others /\ x \in Writes
    BY <1>5, ReturnFacts, WritesFacts DEF Write
  <2>2. Named(sent'[h], w) = Named(sent[h], w) + (IF h = Target(x) /\ w = x THEN 1 ELSE 0)
    <3>1. sent'[h] = IF h = Target(x) THEN Append(sent[h], x) ELSE sent[h]
      BY <1>5, <2>1 DEF Write, TypeInv
    <3>2. Named(Append(sent[h], x), w) = Named(sent[h], w) + (IF x = w THEN 1 ELSE 0)
      <4>1. sent[h] \in Seq(Writes)
        BY DEF TypeInv, TypeOK
      <4> QED
        BY <2>1, <4>1, NamedAppend
    <3> QED
      BY <1>a, <3>1, <3>2
  <2>3. /\ Named(todo[w], h) = Named(todo'[w], h) + (IF h = Target(x) /\ w = x THEN 1 ELSE 0)
        /\ Named(todo'[w], h) \in Nat
    <3>1. Named(todo'[w], h) \in Nat
      BY <2>1, ReturnFacts, NamedType
    <3>2. CASE x = w
      BY <2>1, <3>1, <3>2, ReturnFacts
    <3>3. CASE x # w
      BY <1>a, <2>1, <3>3, ReturnFacts
    <3> QED
      BY <3>1, <3>2, <3>3
  <2> QED
    BY <1>a, <2>1, <2>2, <2>3 DEF Copies
<1>6. ASSUME NEW g \in Others, NEW x \in 1..Len(write), Execute(g, x)
      PROVE  applied'[h][w] = applied[h][w] + (IF g = h /\ x = w THEN 1 ELSE 0)
  <2>1. applied \in [Others -> [Writes -> Nat]] /\ x \in Writes
    BY WritesFacts DEF TypeInv, TypeOK
  <2> QED
    BY <1>6, <2>1 DEF Execute
<1>7. ASSUME NEW g \in Others, Serve(g) PROVE (Copies(h, w) <= Named(chosen[w], h))'
  <2>1. sent[g] \in Seq(1..Len(write)) /\ sent[g] # << >> /\ Execute(g, Head(sent[g]))
    BY <1>7 DEF Serve, TypeInv
  <2>2. Head(sent[g]) \in 1..Len(write)
    BY <2>1, HeadTailProperties
  <2>3. applied'[h][w] = applied[h][w] + (IF g = h /\ Head(sent[g]) = w THEN 1 ELSE 0)
    BY <1>6, <2>1, <2>2
  <2>4. sent'[h] = IF g = h THEN Tail(sent[h]) ELSE sent[h]
    BY <1>7 DEF Serve, TypeInv
  <2>5. Named(sent[h], w) = Named(sent'[h], w) + (IF g = h /\ Head(sent[g]) = w THEN 1 ELSE 0)
    BY <1>a, <2>1, <2>4, NamedTail
  <2>6. Named(sent'[h], w) \in Nat
    <3>1. sent'[h] \in Seq(Writes)
      BY DEF TypeInv, TypeOK
    <3> QED
      BY <3>1, NamedType
  <2>7. UNCHANGED <<stray, todo, chosen>>
    BY <1>7 DEF Serve
  <2> QED
    BY <1>a, <2>3, <2>5, <2>6, <2>7 DEF Copies
<1>8. ASSUME NEW g \in Others, NEW x \in Writes, ServeStray(g, x)
      PROVE  (Copies(h, w) <= Named(chosen[w], h))'
  <2>1. <<g, x>> \in stray /\ x \in 1..Len(write) /\ Execute(g, x)
    BY <1>8 DEF ServeStray, TypeInv
  <2>2. applied'[h][w] = applied[h][w] + (IF g = h /\ x = w THEN 1 ELSE 0)
    BY <1>6, <2>1
  <2>3. /\ UNCHANGED <<sent, todo, chosen>>
        /\ <<h, w>> \in stray' <=> <<h, w>> \in stray /\ ~(g = h /\ x = w)
    BY <1>8 DEF ServeStray
  <2>4. CASE g = h /\ x = w
    BY <1>a, <2>1, <2>2, <2>3, <2>4 DEF Copies
  <2>5. CASE ~(g = h /\ x = w)
    <3>1. applied'[h][w] = applied[h][w] /\ (<<h, w>> \in stray' <=> <<h, w>> \in stray)
      BY <1>a, <2>2, <2>3, <2>5
    <3> QED
      BY <1>a, <2>3, <3>1 DEF Copies
  <2> QED
    BY <2>4, <2>5
<1>9. ASSUME NEW g \in Others, Break(g) PROVE (Copies(h, w) <= Named(chosen[w], h))'
  <2>1. UNCHANGED <<applied, todo, chosen>>
    BY <1>9 DEF Break
  <2>2. CASE g = h
    <3>1. sent'[h] = << >> /\ Named(sent'[h], w) = 0
      BY <1>9, <2>2, NamedEmpty DEF Break, TypeInv
    <3>2. <<h, w>> \in stray' => <<h, w>> \in stray \/ (sent[h] # << >> /\ Head(sent[h]) = w)
      BY <1>9, <2>2 DEF Break
    <3>3. sent[h] # << >> /\ Head(sent[h]) = w => Named(sent[h], w) >= 1
      <4> SUFFICES ASSUME sent[h] # << >>, Head(sent[h]) = w PROVE Named(sent[h], w) >= 1
        OBVIOUS
      <4>1. Named(sent[h], w) = Named(Tail(sent[h]), w) + 1
        BY <1>a, NamedTail
      <4>2. Named(Tail(sent[h]), w) \in Nat
        BY <1>a, HeadTailProperties, NamedType
      <4> QED
        BY <4>1, <4>2
    <3>4. (IF <<h, w>> \in stray' THEN 1 ELSE 0)
            <= (IF <<h, w>> \in stray THEN 1 ELSE 0) + Named(sent[h], w)
      BY <1>a, <3>2, <3>3
    <3> DEFINE stays == IF <<h, w>> \in stray THEN 1 ELSE 0
               adds == IF <<h, w>> \in stray' THEN 1 ELSE 0
    <3>5. /\ Copies(h, w) = applied[h][w] + Named(sent[h], w) + stays + Named(todo[w], h)
          /\ Copies(h, w)' = applied[h][w] + 0 + adds + Named(todo[w], h)
          /\ chosen' = chosen
      BY <2>1, <3>1 DEF Copies
    <3>6. stays \in Nat /\ adds \in Nat /\ adds <= stays + Named(sent[h], w)
      BY <3>4
    <3> HIDE DEF stays, adds
    <3> QED
      BY <1>a, <3>5, <3>6
  <2>3. CASE g # h
    <3>1. sent'[h] = sent[h] /\ (<<h, w>> \in stray' <=> <<h, w>> \in stray)
      BY <1>9, <2>3 DEF Break, TypeInv
    <3> QED
      BY <1>a, <2>1, <3>1 DEF Copies
  <2> QED
    BY <2>2, <2>3
<1>10. ASSUME NEW g \in Others, Goes(g) \/ Comes(g) PROVE (Copies(h, w) <= Named(chosen[w], h))'
  BY <1>10, <1>b DEF Goes, Comes
<1>11. ASSUME MembershipChanges PROVE (Copies(h, w) <= Named(chosen[w], h))'
  BY <1>11, <1>b DEF MembershipChanges
<1>12. ASSUME UNCHANGED vars PROVE (Copies(h, w) <= Named(chosen[w], h))'
  BY <1>12, <1>b DEF vars
<1> QED
  BY <1>1, <1>2, <1>3, <1>4, <1>5, <1>7, <1>8, <1>9, <1>10, <1>11, <1>12 DEF Next, Step

(* However send_only reconnects and retries, and wherever a connection     *)
(* breaks, a replica executes a write at most once for each time the list  *)
(* of its replicas names it: a request is never repeated once it is        *)
(* written.                                                                *)
THEOREM AppliedAsListedHolds == Spec => []AppliedAsListed
<1>1. TypeInv /\ CopiesInv => AppliedAsListed
  <2> SUFFICES ASSUME TypeInv, CopiesInv, NEW h \in Others, NEW w \in Writes
               PROVE  applied[h][w] <= Named(chosen[w], h)
    BY DEF AppliedAsListed
  <2>1. Copies(h, w) <= Named(chosen[w], h)
    BY DEF CopiesInv
  <2> QED
    BY <2>1, CopiesFacts DEF Copies
<1> QED
  BY <1>1, TypeInit, TypeStep, CopiesInit, CopiesStep, PTL DEF Spec

-----------------------------------------------------------------------------
(* Convergence.                                                            *)

(* A write a node will execute, or may execute.                            *)
Owed(h, w) == stage[w] = "spawned" \/ Named(todo[w], h) > 0 \/ Named(sent[h], w) > 0

Moving(w) ==
  stage[w] # "done" \/ \E h \in Others : Named(sent[h], w) > 0 \/ <<h, w>> \in stray

(* What is excused: two writes of a key that overtake each other, a swap,  *)
(* a write that survives its connection, an APPEND at a node listed twice. *)
Excused(h, w) == <<h, write[w].key>> \in excused

ExcusesInv ==
  /\ \A w, x \in 1..Len(write) :
       w # x /\ write[w].key = write[x].key /\ Moving(w) /\ Moving(x) =>
         \A h \in Others : Excused(h, w)
  /\ \A w \in 1..Len(write) : write[w].op = "CMPSWP" => \A h \in Others : Excused(h, w)
  /\ \A h \in Others, w \in 1..Len(write) : <<h, w>> \in stray => Excused(h, w)
  /\ \A h \in Others, w \in 1..Len(write) :
       write[w].op = "APPEND" /\ ~Excused(h, w) => Named(chosen[w], h) <= 1

(* A replica that owes nothing agrees; one that owes a write will agree    *)
(* once it has executed it.                                                *)
Agrees(h, k) ==
  /\ \A w \in 1..Len(write) :
       write[w].key = k /\ Owed(h, w) =>
         Result(write[w].op, replica[h][k], write[w].val) = primary[k]
  /\ (\A w \in 1..Len(write) : write[w].key = k => ~Owed(h, w)) => replica[h][k] = primary[k]

AgreesInv ==
  \A k \in Keys, h \in Others :
    h \in ToSet(Replicas(k)) /\ <<h, k>> \notin excused => Agrees(h, k)

LEMMA OwedFacts ==
  ASSUME TypeInv, NEW h \in Others, NEW w \in 1..Len(write)
  PROVE  /\ w \in Writes
         /\ Owed(h, w) => Moving(w)
         /\ Named(todo[w], h) \in Nat /\ Named(sent[h], w) \in Nat
<1>1. w \in Writes
  BY WritesFacts
<1>2. Named(todo[w], h) \in Nat /\ Named(sent[h], w) \in Nat /\ todo[w] \in Seq(Others)
  BY <1>1, CopiesFacts
<1>3. Named(todo[w], h) > 0 => todo[w] # << >>
  BY NamedEmpty
<1>4. todo[w] # << >> => stage[w] # "done"
  BY <1>1 DEF TypeInv, StageInv
<1> QED
  BY <1>1, <1>2, <1>3, <1>4 DEF Owed, Moving

LEMMA InFlightMoving ==
  ASSUME TypeInv, NEW k \in Keys
  PROVE  InFlight(k) <=> \E w \in 1..Len(write) : write[w].key = k /\ Moving(w)
<1>1. ASSUME NEW h \in Others, NEW w \in 1..Len(write)
      PROVE  (\E i \in 1..Len(sent[h]) : sent[h][i] = w) <=> Named(sent[h], w) > 0
  <2>1. sent[h] \in Seq(1..Len(write))
    BY DEF TypeInv
  <2>2. Named(sent[h], w) \in Nat /\ (Named(sent[h], w) = 0 <=> \A i \in 1..Len(sent[h]) : sent[h][i] # w)
    BY <2>1, NamedType
  <2> QED
    BY <2>2
<1> QED
  BY <1>1 DEF InFlight, Moving

(* The past of a write stays as it is, and one that has arrived everywhere *)
(* never sets out again.                                                   *)
LEMMA MovingStep ==
  ASSUME TypeInv, TypeInv', [Next]_vars
  PROVE  /\ excused \subseteq excused' /\ Len(write) <= Len(write')
         /\ \A w \in 1..Len(write) : write'[w] = write[w] /\ (Moving(w)' => Moving(w))
<1> USE DEF network, task, remote, history
<1>a. /\ write \in Seq([op : Ops, key : Keys, val : Vals]) /\ Len(write) \in Nat
      /\ 1..Len(write) \subseteq Writes
  BY WritesFacts DEF TypeInv, TypeOK
<1> DEFINE Kept == /\ excused \subseteq excused' /\ Len(write) <= Len(write')
                   /\ \A w \in 1..Len(write) : write'[w] = write[w] /\ (Moving(w)' => Moving(w))
<1>b. ASSUME UNCHANGED write, excused \subseteq excused',
             \A w \in 1..Len(write) : stage'[w] # "done" => stage[w] # "done",
             \A h \in Others, w \in 1..Len(write) :
               Named(sent'[h], w) > 0 \/ <<h, w>> \in stray' => Moving(w)
      PROVE  Kept
  BY <1>a, <1>b DEF Moving
<1>c. \A h \in Others, w \in 1..Len(write) :
        /\ Named(sent[h], w) > 0 => Moving(w)
        /\ <<h, w>> \in stray => Moving(w)
  BY DEF Moving
<1>1. ASSUME NEW op \in Ops, NEW k \in Keys, NEW v \in Vals, Process(op, k, v) PROVE Kept
  <2> DEFINE r == [op |-> op, key |-> k, val |-> v]
  <2>1. /\ write' = Append(write, r) /\ r \in [op : Ops, key : Keys, val : Vals]
        /\ UNCHANGED <<sent, stray>> /\ excused \subseteq excused'
    BY <1>1 DEF Process
  <2> HIDE DEF r
  <2>2. Len(write') = Len(write) + 1 /\ \A w \in 1..Len(write) : write'[w] = write[w]
    BY <1>a, <2>1, AppendProperties
  <2>3. \A w \in 1..Len(write) : stage'[w] = stage[w]
    BY <1>1, <1>a DEF Process, TypeInv, TypeOK
  <2> QED
    BY <1>a, <2>1, <2>2, <2>3 DEF Moving
<1>2. ASSUME NEW x \in 1..Len(write), Resolve(x) PROVE Kept
  BY <1>2, <1>a, <1>b, <1>c DEF Resolve, TypeInv, TypeOK
<1>3. ASSUME NEW x \in 1..Len(write), SendOnly(x) \/ Connect(x) \/ Broken(x) PROVE Kept
  BY <1>3, <1>a, <1>b, <1>c DEF SendOnly, Connect, Broken, TypeInv, TypeOK
<1>4. ASSUME NEW x \in 1..Len(write), ConnectFails(x) \/ WriteLost(x) \/ GivesUp(x) PROVE Kept
  <2>1. Holds(x) /\ Return(x) /\ UNCHANGED <<write, sent, stray>> /\ excused \subseteq excused'
    BY <1>4 DEF ConnectFails, WriteLost, GivesUp, Return, Excuse
  <2>2. \A w \in 1..Len(write) : stage'[w] # "done" => stage[w] # "done"
    BY <1>a, <2>1, ReturnFacts
  <2> QED
    BY <1>b, <1>c, <2>1, <2>2
<1>5. ASSUME NEW x \in 1..Len(write), Write(x) PROVE Kept
  <2>1. Holds(x) /\ Return(x) /\ UNCHANGED <<write, stray, excused>> /\ Target(x) \in Others /\ x \in Writes
    BY <1>5, <1>a, ReturnFacts DEF Write
  <2>2. stage[x] = "send" /\ \A w \in 1..Len(write) : stage'[w] # "done" => stage[w] # "done"
    BY <1>a, <2>1, ReturnFacts
  <2>3. ASSUME NEW h \in Others, NEW w \in 1..Len(write), Named(sent'[h], w) > 0 PROVE Moving(w)
    <3>1. CASE w = x
      BY <2>2, <3>1 DEF Moving
    <3>2. CASE w # x
      <4>1. sent'[h] = IF h = Target(x) THEN Append(sent[h], x) ELSE sent[h]
        BY <1>5, <2>1 DEF Write, TypeInv
      <4>2. sent[h] \in Seq(Writes) /\ w \in Writes
        BY <1>a DEF TypeInv, TypeOK
      <4>3. Named(Append(sent[h], x), w) = Named(sent[h], w) /\ Named(sent[h], w) \in Nat
        BY <2>1, <3>2, <4>2, NamedAppend, NamedType
      <4> QED
        BY <1>c, <2>3, <4>1, <4>3
    <3> QED
      BY <3>1, <3>2
  <2> QED
    BY <1>b, <1>c, <2>1, <2>2, <2>3
<1>6. ASSUME NEW g \in Others, Serve(g) PROVE Kept
  <2>1. /\ UNCHANGED <<write, stage, stray, excused>>
        /\ sent[g] \in Seq(Writes) /\ sent[g] # << >>
        /\ \A h \in Others : sent'[h] = IF h = g THEN Tail(sent[h]) ELSE sent[h]
    BY <1>6 DEF Serve, TypeInv, TypeOK
  <2>2. ASSUME NEW h \in Others, NEW w \in 1..Len(write), Named(sent'[h], w) > 0
        PROVE  Moving(w)
    <3>1. Named(sent[g], w) = Named(Tail(sent[g]), w) + (IF Head(sent[g]) = w THEN 1 ELSE 0)
      BY <2>1, NamedTail
    <3>2. Named(Tail(sent[g]), w) \in Nat
      BY <2>1, HeadTailProperties, NamedType
    <3>3. Named(sent[h], w) > 0
      BY <2>1, <2>2, <3>1, <3>2
    <3> QED
      BY <1>c, <3>3
  <2> QED
    BY <1>b, <1>c, <2>1, <2>2
<1>7. ASSUME NEW g \in Others, NEW x \in Writes, ServeStray(g, x) PROVE Kept
  BY <1>7, <1>b, <1>c DEF ServeStray
<1>8. ASSUME NEW g \in Others, Break(g) PROVE Kept
  <2>1. /\ UNCHANGED <<write, stage>> /\ excused \subseteq excused'
        /\ \A h \in Others : sent'[h] = IF h = g THEN << >> ELSE sent[h]
        /\ stray' = stray \union (IF sent[g] = << >> THEN {} ELSE {<<g, Head(sent[g])>>})
        /\ sent[g] \in Seq(Writes)
    BY <1>8 DEF Break, TypeInv, TypeOK
  <2>2. ASSUME NEW h \in Others, NEW w \in 1..Len(write), Named(sent'[h], w) > 0
        PROVE  Moving(w)
    <3>1. Named(<< >>, w) = 0
      BY NamedEmpty
    <3>2. sent'[h] = sent[h]
      BY <2>1, <2>2, <3>1
    <3> QED
      BY <1>c, <2>2, <3>2
  <2>3. ASSUME NEW h \in Others, NEW w \in 1..Len(write), <<h, w>> \in stray'
        PROVE  Moving(w)
    <3>1. CASE <<h, w>> \in stray
      BY <1>c, <3>1
    <3>2. CASE sent[g] # << >> /\ w = Head(sent[g])
      <4>1. Named(sent[g], w) = Named(Tail(sent[g]), w) + 1
        BY <2>1, <3>2, NamedTail
      <4>2. Named(Tail(sent[g]), w) \in Nat
        BY <2>1, <3>2, HeadTailProperties, NamedType
      <4>3. Named(sent[g], w) > 0
        BY <4>1, <4>2
      <4> QED
        BY <1>c, <4>3
    <3> QED
      BY <2>1, <2>3, <3>1, <3>2
  <2> QED
    BY <1>b, <2>1, <2>2, <2>3
<1>9. ASSUME NEW g \in Others, Goes(g) \/ Comes(g) PROVE Kept
  BY <1>9, <1>b, <1>c DEF Goes, Comes
<1>10. ASSUME MembershipChanges PROVE Kept
  BY <1>10, <1>b, <1>c DEF MembershipChanges
<1>11. ASSUME UNCHANGED vars PROVE Kept
  BY <1>11, <1>b, <1>c DEF vars
<1> QED
  BY <1>1, <1>2, <1>3, <1>4, <1>5, <1>6, <1>7, <1>8, <1>9, <1>10, <1>11 DEF Next, Step

LEMMA ExcusesInit == Init => ExcusesInv
<1> SUFFICES ASSUME Init PROVE ExcusesInv
  OBVIOUS
<1>1. 1..Len(write) = {}
  BY DEF Init
<1> QED
  BY <1>1 DEF ExcusesInv

LEMMA ExcusesStep == TypeInv /\ TypeInv' /\ ExcusesInv /\ [Next]_vars => ExcusesInv'
<1> SUFFICES ASSUME TypeInv, TypeInv', ExcusesInv, [Next]_vars PROVE ExcusesInv'
  OBVIOUS
<1> USE DEF network, task, remote, history
<1>a. /\ excused \subseteq excused' /\ Len(write) <= Len(write')
      /\ \A w \in 1..Len(write) : write'[w] = write[w] /\ (Moving(w)' => Moving(w))
  BY MovingStep
<1>b. /\ write \in Seq([op : Ops, key : Keys, val : Vals]) /\ Len(write) \in Nat
      /\ 1..Len(write) \subseteq Writes
  BY WritesFacts DEF TypeInv, TypeOK
<1>c. ASSUME UNCHANGED write, \A h \in Others, w \in 1..Len(write) :
               <<h, w>> \in stray' => <<h, w>> \in stray \/ Excused(h, w)',
             UNCHANGED chosen
      PROVE  ExcusesInv'
  BY <1>a, <1>c DEF ExcusesInv, Excused
<1>1. ASSUME NEW op \in Ops, NEW k \in Keys, NEW v \in Vals, Process(op, k, v) PROVE ExcusesInv'
  <2> DEFINE n == Len(write) + 1
             r == [op |-> op, key |-> k, val |-> v]
  <2>1. /\ write' = Append(write, r) /\ r \in [op : Ops, key : Keys, val : Vals]
        /\ r.op = op /\ r.key = k
        /\ UNCHANGED <<sent, stray, chosen>>
        /\ excused' = IF op = "CMPSWP" \/ InFlight(k) THEN excused \union (Others \X {k}) ELSE excused
    BY <1>1 DEF Process
  <2> HIDE DEF r
  <2>2. /\ Len(write') = n /\ \A w \in 1..Len(write) : write'[w] = write[w]
        /\ write'[n] = r /\ 1..n = (1..Len(write)) \union {n} /\ n \notin 1..Len(write)
    BY <1>b, <2>1, AppendProperties
  <2>3. n \in Writes
    <3>1. Len(write') <= MaxWrites /\ MaxWrites \in Nat
      BY ReplicationAssumption DEF TypeInv, TypeOK
    <3> QED
      BY <1>b, <2>2, <3>1 DEF Writes
  <2>4. \A h \in Others : <<h, n>> \notin stray
    BY <2>2 DEF TypeInv
  <2>5. \A h \in Others : Named(chosen[n], h) = 0
    <3>1. stage[n] = "none"
      BY <1>b, <2>3 DEF TypeInv, StageInv
    <3> QED
      BY <2>3, <3>1, NamedEmpty DEF TypeInv, StageInv
  <2> HIDE DEF n
  <2>6. ASSUME NEW w \in 1..n, NEW x \in 1..n, w # x, write'[w].key = write'[x].key,
               Moving(w)', Moving(x)', NEW h \in Others
        PROVE  <<h, write'[w].key>> \in excused'
    <3>1. CASE w # n /\ x # n
      BY <1>a, <2>2, <2>6, <3>1 DEF ExcusesInv, Excused
    <3>2. CASE w = n \/ x = n
      <4>1. PICK y \in 1..Len(write) : write[y].key = k /\ Moving(y) /\ write'[w].key = k
        BY <1>a, <2>1, <2>2, <2>6, <3>2
      <4>2. InFlight(k)
        BY <4>1, InFlightMoving
      <4> QED
        BY <2>1, <4>1, <4>2
    <3> QED
      BY <3>1, <3>2
  <2>7. ASSUME NEW w \in 1..n, write'[w].op = "CMPSWP", NEW h \in Others
        PROVE  <<h, write'[w].key>> \in excused'
    BY <1>a, <2>1, <2>2, <2>7 DEF ExcusesInv, Excused
  <2>8. ASSUME NEW h \in Others, NEW w \in 1..n, <<h, w>> \in stray'
        PROVE  <<h, write'[w].key>> \in excused'
    BY <1>a, <2>1, <2>2, <2>4, <2>8 DEF ExcusesInv, Excused
  <2>9. ASSUME NEW h \in Others, NEW w \in 1..n, write'[w].op = "APPEND",
               <<h, write'[w].key>> \notin excused'
        PROVE  Named(chosen'[w], h) <= 1
    BY <1>a, <2>1, <2>2, <2>5, <2>9 DEF ExcusesInv, Excused
  <2> QED
    BY <2>2, <2>6, <2>7, <2>8, <2>9 DEF ExcusesInv, Excused
<1>2. ASSUME NEW x \in 1..Len(write), Resolve(x) PROVE ExcusesInv'
  <2>1. /\ UNCHANGED <<write, stray>> /\ x \in Writes
        /\ \A w \in 1..Len(write) : w # x => chosen'[w] = chosen[w]
        /\ chosen'[x] = todo'[x]
    BY <1>2, <1>b DEF Resolve, TypeInv, TypeOK
  <2>2. ASSUME NEW h \in Others, write[x].op = "APPEND", <<h, write[x].key>> \notin excused'
        PROVE  Named(chosen'[x], h) <= 1
    <3>1. ~(Named(todo'[x], h) > 1)
      BY <1>2, <2>2 DEF Resolve
    <3>2. Named(chosen'[x], h) \in Nat
      <4>1. chosen'[x] \in Seq(Others)
        BY <2>1 DEF TypeInv, TypeOK
      <4> QED
        BY <4>1, NamedType
    <3> QED
      BY <2>1, <3>1, <3>2
  <2> QED
    BY <1>a, <2>1, <2>2 DEF ExcusesInv, Excused
<1>3. ASSUME NEW x \in 1..Len(write),
             SendOnly(x) \/ Connect(x) \/ Broken(x) \/ ConnectFails(x) \/ Write(x) \/ WriteLost(x) \/ GivesUp(x)
      PROVE  ExcusesInv'
  BY <1>3, <1>c DEF SendOnly, Connect, Broken, ConnectFails, Write, WriteLost, GivesUp, Return
<1>4. ASSUME NEW g \in Others, Serve(g) PROVE ExcusesInv'
  BY <1>4, <1>c DEF Serve
<1>5. ASSUME NEW g \in Others, NEW x \in Writes, ServeStray(g, x) PROVE ExcusesInv'
  BY <1>5, <1>c DEF ServeStray
<1>6. ASSUME NEW g \in Others, Break(g) PROVE ExcusesInv'
  <2>1. sent[g] \in Seq(1..Len(write))
    BY DEF TypeInv
  <2>2. sent[g] # << >> => Head(sent[g]) \in ToSet(sent[g])
    <3>1. sent[g] # << >> => 1 \in DOMAIN sent[g] /\ Head(sent[g]) = sent[g][1]
      BY <2>1
    <3> QED
      BY <3>1 DEF ToSet
  <2>3. \A h \in Others, w \in 1..Len(write) :
          <<h, w>> \in stray' => <<h, w>> \in stray \/ <<h, write[w].key>> \in excused'
    BY <1>6, <2>2 DEF Break
  <2> QED
    BY <1>6, <1>c, <2>3 DEF Break, Excused
<1>7. ASSUME NEW g \in Others, Goes(g) \/ Comes(g) PROVE ExcusesInv'
  BY <1>7, <1>c DEF Goes, Comes
<1>8. ASSUME MembershipChanges PROVE ExcusesInv'
  BY <1>8, <1>c DEF MembershipChanges
<1>9. ASSUME UNCHANGED vars PROVE ExcusesInv'
  BY <1>9, <1>c DEF vars
<1> QED
  BY <1>1, <1>2, <1>3, <1>4, <1>5, <1>6, <1>7, <1>8, <1>9 DEF Next, Step

LEMMA AgreesInit == Init => AgreesInv
<1> SUFFICES ASSUME Init, NEW k \in Keys, NEW h \in Others PROVE Agrees(h, k)
  BY DEF AgreesInv
<1>1. 1..Len(write) = {} /\ replica[h][k] = << >> /\ primary[k] = << >>
  BY DEF Init
<1> QED
  BY <1>1 DEF Agrees

(* Executing a write a second time, right after the first, changes nothing *)
(* but for an APPEND.                                                      *)
LEMMA ResultTwice ==
  ASSUME NEW op \in Ops, op \notin {"APPEND", "CMPSWP"}, NEW old, NEW v
  PROVE  Result(op, Result(op, old, v), v) = Result(op, old, v)
BY ReplicationAssumption DEF Result

LEMMA ServeAgrees ==
  ASSUME TypeInv, TypeInv', CopiesInv, ExcusesInv, [Next]_vars,
         NEW k \in Keys, NEW h \in Others, Agrees(h, k), <<h, k>> \notin excused,
         Serve(h), write[Head(sent[h])].key = k
  PROVE  Agrees(h, k)'
<1> DEFINE x == Head(sent[h])
<1>1. /\ sent[h] \in Seq(1..Len(write)) /\ sent[h] # << >>
      /\ UNCHANGED <<primary, write, stage, todo, stray, chosen, excused>>
      /\ sent' = [sent EXCEPT ![h] = Tail(sent[h])] /\ sent'[h] = Tail(sent[h])
      /\ Execute(h, x)
  BY DEF Serve, TypeInv, task, history
<1>2. x \in 1..Len(write) /\ x \in Writes /\ write[x].op \in Ops
  BY <1>1, HeadTailProperties, WritesFacts
<1>3. \A w : Named(sent[h], w) = Named(sent'[h], w) + (IF x = w THEN 1 ELSE 0)
  BY <1>1, NamedTail
<1>4. \A w : Named(sent'[h], w) \in Nat
  BY <1>1, HeadTailProperties, NamedType
<1>5. Owed(h, x) /\ \A w \in 1..Len(write) : Owed(h, w)' => Owed(h, w)
  BY <1>1, <1>3, <1>4 DEF Owed
<1>6. replica'[h][k] = Result(write[x].op, replica[h][k], write[x].val)
  BY <1>1 DEF Execute, TypeInv, TypeOK
<1>7. Result(write[x].op, replica[h][k], write[x].val) = primary[k] /\ replica'[h][k] = primary[k]
  BY <1>2, <1>5, <1>6 DEF Agrees
<1> HIDE DEF x
<1>8. ASSUME NEW w \in 1..Len(write), write[w].key = k, Owed(h, w)'
      PROVE  Result(write[w].op, primary[k], write[w].val) = primary[k]
  <2>1. w = x
    BY <1>2, <1>5, <1>8, OwedFacts DEF ExcusesInv, Excused, x
  <2>2. write[x].op # "CMPSWP"
    BY <1>2 DEF ExcusesInv, Excused, x
  <2>3. write[x].op # "APPEND"
    <3> SUFFICES ASSUME write[x].op = "APPEND" PROVE FALSE
      OBVIOUS
    <3>1. Named(chosen[x], h) <= 1
      BY <1>2 DEF ExcusesInv, Excused, x
    <3>2. Copies(h, x) <= Named(chosen[x], h)
      BY <1>2 DEF CopiesInv
    <3>3. /\ applied[h][x] \in Nat /\ Named(sent[h], x) \in Nat
          /\ Named(todo[x], h) \in Nat /\ Named(chosen[x], h) \in Nat
      BY <1>2, CopiesFacts
    <3>4. /\ Named(sent[h], x) = Named(sent'[h], x) + 1 /\ Named(sent'[h], x) \in Nat
      BY <1>3, <1>4
    <3>5. Named(sent'[h], x) = 0 /\ Named(todo[x], h) = 0 /\ Named(chosen[x], h) = 1
      BY <3>1, <3>2, <3>3, <3>4 DEF Copies
    <3>6. stage[x] = "spawned"
      BY <1>1, <1>8, <2>1, <3>5 DEF Owed
    <3>7. chosen[x] = << >>
      BY <1>2, <3>6 DEF TypeInv, StageInv
    <3> QED
      BY <3>5, <3>7, NamedEmpty
  <2> QED
    BY <1>2, <1>7, <2>1, <2>2, <2>3, ResultTwice
<1> QED
  BY <1>1, <1>7, <1>8 DEF Agrees

LEMMA AgreesStep ==
  ASSUME TypeInv, TypeInv', CopiesInv, ExcusesInv, AgreesInv, [Next]_vars
  PROVE  AgreesInv'
<1> SUFFICES ASSUME NEW k \in Keys, NEW h \in Others,
                    h \in ToSet(Replicas(k))', <<h, k>> \notin excused'
             PROVE  Agrees(h, k)'
  BY DEF AgreesInv
<1> USE DEF network, task, remote, history
<1>a. /\ <<h, k>> \notin excused
      /\ \A w \in 1..Len(write) : write'[w] = write[w]
  BY MovingStep
<1>b. /\ write \in Seq([op : Ops, key : Keys, val : Vals]) /\ Len(write) \in Nat
      /\ 1..Len(write) \subseteq Writes
  BY WritesFacts DEF TypeInv, TypeOK
<1>c. UNCHANGED members => Replicas(k)' = Replicas(k)
  BY DEF Replicas, Active
<1>d. h \in ToSet(Replicas(k)) => Agrees(h, k)
  BY <1>a DEF AgreesInv
<1>e. ASSUME UNCHANGED <<members, primary, write>>, replica'[h][k] = replica[h][k],
             \A w \in 1..Len(write) : write[w].key = k => (Owed(h, w)' <=> Owed(h, w))
      PROVE  Agrees(h, k)'
  BY <1>c, <1>d, <1>e DEF Agrees
<1>1. ASSUME NEW op \in Ops, NEW j \in Keys, NEW v \in Vals, Process(op, j, v) PROVE Agrees(h, k)'
  <2> PICK n \in Nat : n = Len(write) + 1
    BY <1>b
  <2> DEFINE r == [op |-> op, key |-> j, val |-> v]
  <2>1. /\ write' = Append(write, r) /\ r \in [op : Ops, key : Keys, val : Vals]
        /\ r.op = op /\ r.key = j /\ r.val = v
        /\ UNCHANGED <<members, sent, todo, replica>>
        /\ primary' = [primary EXCEPT ![j] = Result(op, @, v)]
        /\ excused' = IF op = "CMPSWP" \/ InFlight(j) THEN excused \union (Others \X {j}) ELSE excused
        /\ \A w \in 1..Len(write) : stage'[w] = stage[w]
    BY <1>1, <1>b DEF Process, TypeInv, TypeOK
  <2> HIDE DEF r
  <2>2. /\ Len(write') = n /\ write'[n] = r /\ 1..n = (1..Len(write)) \union {n}
    BY <1>b, <2>1, AppendProperties
  <2>3. Agrees(h, k)
    BY <1>c, <1>d, <2>1
  <2>4. \A w \in 1..Len(write) : Owed(h, w)' <=> Owed(h, w)
    BY <2>1 DEF Owed
  <2>5. CASE j # k
    <3>1. primary'[k] = primary[k]
      BY <2>1, <2>5 DEF TypeInv, TypeOK
    <3>2. \A w \in 1..n : write'[w].key = k => w \in 1..Len(write)
      BY <2>1, <2>2, <2>5
    <3>3. 1..Len(write) \subseteq 1..n
      BY <2>2
    <3> QED
      BY <1>a, <2>1, <2>2, <2>3, <2>4, <3>1, <3>2, <3>3 DEF Agrees
  <2>6. CASE j = k
    <3>1. op # "CMPSWP" /\ ~InFlight(k)
      BY <2>1, <2>6
    <3>2. \A w \in 1..Len(write) : write[w].key = k => ~Owed(h, w)
      BY <3>1, InFlightMoving, OwedFacts
    <3>3. replica[h][k] = primary[k]
      BY <2>3, <3>2 DEF Agrees
    <3>4. Result(op, replica'[h][k], v) = primary'[k]
      BY <2>1, <2>6, <3>3 DEF TypeInv, TypeOK
    <3>5. Owed(h, n)'
      <4>1. n \in Writes
        <5>1. Len(write') <= MaxWrites /\ MaxWrites \in Nat
          BY ReplicationAssumption DEF TypeInv, TypeOK
        <5> QED
          BY <1>b, <2>2, <5>1 DEF Writes
      <4>2. stage'[n] = "spawned"
        BY <1>1, <3>1, <4>1 DEF Process, TypeInv, TypeOK
      <4> QED
        BY <4>2 DEF Owed
    <3>6. \A w \in 1..n : write'[w].key = k /\ Owed(h, w)' => w = n
      BY <1>a, <2>2, <2>4, <3>2
    <3>7. /\ n \in 1..n /\ Len(write') = n
          /\ write'[n].op = op /\ write'[n].key = k /\ write'[n].val = v
      BY <2>1, <2>2, <2>6
    <3> QED
      BY <3>4, <3>5, <3>6, <3>7 DEF Agrees
  <2> QED
    BY <2>5, <2>6
<1>2. ASSUME NEW x \in 1..Len(write), Resolve(x) PROVE Agrees(h, k)'
  <2>1. /\ UNCHANGED <<members, primary, write, sent, replica>> /\ x \in Writes
        /\ \A w \in 1..Len(write) : w # x => todo'[w] = todo[w] /\ stage'[w] = stage[w]
        /\ todo'[x] = Replicas(write[x].key) /\ stage[x] = "spawned"
    BY <1>2, <1>b DEF Resolve, TypeInv, TypeOK
  <2>2. write[x].key = k => Named(todo'[x], h) > 0
    <3> SUFFICES ASSUME write[x].key = k PROVE Named(todo'[x], h) > 0
      OBVIOUS
    <3>1. todo'[x] \in Seq(Others) /\ h \in ToSet(todo'[x])
      BY <1>c, <2>1 DEF TypeInv, TypeOK
    <3>2. Named(todo'[x], h) \in Nat /\ Named(todo'[x], h) # 0
      BY <3>1, NamedType DEF ToSet
    <3> QED
      BY <3>2
  <2>3. \A w \in 1..Len(write) : write[w].key = k => (Owed(h, w)' <=> Owed(h, w))
    BY <2>1, <2>2 DEF Owed
  <2> QED
    BY <1>e, <2>1, <2>3
<1>3. ASSUME NEW x \in 1..Len(write), SendOnly(x) \/ Connect(x) \/ Broken(x) PROVE Agrees(h, k)'
  <2>1. /\ UNCHANGED <<members, primary, write, sent, todo, replica>>
        /\ \A w \in 1..Len(write) : stage'[w] = "spawned" <=> stage[w] = "spawned"
    BY <1>3, <1>b DEF SendOnly, Connect, Broken, TypeInv, TypeOK
  <2>2. \A w \in 1..Len(write) : Owed(h, w)' <=> Owed(h, w)
    BY <2>1 DEF Owed
  <2> QED
    BY <1>e, <2>1, <2>2
<1>4. ASSUME NEW x \in 1..Len(write), ConnectFails(x) \/ WriteLost(x) \/ GivesUp(x) PROVE Agrees(h, k)'
  <2>1. /\ Holds(x) /\ Return(x) /\ Excuse(x) /\ x \in Writes
        /\ UNCHANGED <<members, primary, write, sent, replica>>
    BY <1>4, <1>b DEF ConnectFails, WriteLost, GivesUp, Return
  <2>2. write[x].key = k => h # Target(x)
    BY <2>1 DEF Excuse
  <2>3. ASSUME NEW w \in 1..Len(write), write[w].key = k PROVE Owed(h, w)' <=> Owed(h, w)
    <3>1. CASE w = x
      <4>1. Named(todo[w], h) = Named(todo'[w], h) + 0 /\ Named(todo'[w], h) \in Nat
        BY <2>1, <2>2, <2>3, <3>1, ReturnFacts, NamedType
      <4>2. stage[w] # "spawned" /\ stage'[w] # "spawned"
        BY <2>1, <3>1, ReturnFacts
      <4> QED
        BY <2>1, <4>1, <4>2 DEF Owed
    <3>2. CASE w # x
      <4>1. todo'[w] = todo[w] /\ stage'[w] = stage[w]
        BY <1>b, <2>1, <3>2, ReturnFacts
      <4> QED
        BY <2>1, <4>1 DEF Owed
    <3> QED
      BY <3>1, <3>2
  <2> QED
    BY <1>e, <2>1, <2>3
<1>5. ASSUME NEW x \in 1..Len(write), Write(x) PROVE Agrees(h, k)'
  <2>1. /\ Holds(x) /\ Return(x) /\ x \in Writes /\ Target(x) \in Others
        /\ UNCHANGED <<members, primary, write, replica>>
        /\ sent'[h] = IF h = Target(x) THEN Append(sent[h], x) ELSE sent[h]
        /\ sent[h] \in Seq(Writes)
    BY <1>5, <1>b, ReturnFacts DEF Write, TypeInv, TypeOK
  <2>2. ASSUME NEW w \in 1..Len(write) PROVE Owed(h, w)' <=> Owed(h, w)
    <3>1. /\ Named(Append(sent[h], x), w) = Named(sent[h], w) + (IF x = w THEN 1 ELSE 0)
          /\ Named(sent[h], w) \in Nat
      BY <2>1, NamedAppend, NamedType
    <3>2. CASE w = x
      <4>1. /\ Named(todo[w], h) = Named(todo'[w], h) + (IF h = Target(x) THEN 1 ELSE 0)
            /\ Named(todo'[w], h) \in Nat
        BY <2>1, <3>2, ReturnFacts, NamedType
      <4>2. stage[w] # "spawned" /\ stage'[w] # "spawned"
        BY <2>1, <3>2, ReturnFacts
      <4> QED
        BY <2>1, <3>1, <3>2, <4>1, <4>2 DEF Owed
    <3>3. CASE w # x
      <4>1. todo'[w] = todo[w] /\ stage'[w] = stage[w]
        BY <1>b, <2>1, <3>3, ReturnFacts
      <4> QED
        BY <2>1, <3>1, <3>3, <4>1 DEF Owed
    <3> QED
      BY <3>2, <3>3
  <2> QED
    BY <1>e, <2>1, <2>2
<1>6. ASSUME NEW g \in Others, Serve(g) PROVE Agrees(h, k)'
  <2>1. /\ UNCHANGED <<members, primary, write, stage, todo>>
        /\ sent[g] \in Seq(1..Len(write)) /\ sent[g] # << >> /\ Execute(g, Head(sent[g]))
        /\ \A f \in Others : sent'[f] = IF f = g THEN Tail(sent[f]) ELSE sent[f]
    BY <1>6 DEF Serve, TypeInv
  <2>2. CASE g = h /\ write[Head(sent[g])].key = k
    <3>1. Agrees(h, k)
      BY <1>c, <1>d, <2>1
    <3> QED
      BY <1>6, <1>a, <2>2, <3>1, ServeAgrees
  <2>3. CASE ~(g = h /\ write[Head(sent[g])].key = k)
    <3>1. replica'[h][k] = replica[h][k]
      <4>1. Head(sent[g]) \in 1..Len(write)
        BY <2>1, HeadTailProperties
      <4>2. write[Head(sent[g])].key \in Keys
        BY <4>1, WritesFacts
      <4>3. replica \in [Others -> [Keys -> Seq(Vals)]]
        BY DEF TypeInv, TypeOK
      <4> QED
        BY <2>1, <2>3, <4>2, <4>3 DEF Execute
    <3>2. ASSUME NEW w \in 1..Len(write), write[w].key = k PROVE Owed(h, w)' <=> Owed(h, w)
      <4>1. Named(sent[g], w) = Named(Tail(sent[g]), w) + (IF Head(sent[g]) = w THEN 1 ELSE 0)
        BY <2>1, NamedTail
      <4>2. Named(Tail(sent[g]), w) \in Nat
        BY <2>1, HeadTailProperties, NamedType
      <4>3. Named(sent'[h], w) = Named(sent[h], w)
        BY <2>1, <2>3, <3>2, <4>1, <4>2
      <4> QED
        BY <2>1, <4>3 DEF Owed
    <3> QED
      BY <1>e, <2>1, <3>1, <3>2
  <2> QED
    BY <2>2, <2>3
<1>7. ASSUME NEW g \in Others, NEW x \in Writes, ServeStray(g, x) PROVE Agrees(h, k)'
  <2>1. /\ UNCHANGED <<members, primary, write, stage, todo, sent>>
        /\ <<g, x>> \in stray /\ x \in 1..Len(write) /\ Execute(g, x)
    BY <1>7 DEF ServeStray, TypeInv
  <2>2. ~(g = h /\ write[x].key = k)
    BY <1>a, <2>1 DEF ExcusesInv, Excused
  <2>3. replica'[h][k] = replica[h][k]
    BY <2>1, <2>2 DEF Execute, TypeInv, TypeOK
  <2>4. \A w \in 1..Len(write) : Owed(h, w)' <=> Owed(h, w)
    BY <2>1 DEF Owed
  <2> QED
    BY <1>e, <2>1, <2>3, <2>4
<1>8. ASSUME NEW g \in Others, Break(g) PROVE Agrees(h, k)'
  <2>1. /\ UNCHANGED <<members, primary, write, stage, todo, replica>>
        /\ sent[g] \in Seq(1..Len(write))
        /\ \A f \in Others : sent'[f] = IF f = g THEN << >> ELSE sent[f]
        /\ \A w \in ToSet(sent[g]) : <<g, write[w].key>> \in excused'
    BY <1>8 DEF Break, TypeInv
  <2>2. ASSUME NEW w \in 1..Len(write), write[w].key = k PROVE Owed(h, w)' <=> Owed(h, w)
    <3>1. CASE g # h
      BY <2>1, <3>1 DEF Owed
    <3>2. CASE g = h
      <4>1. w \notin ToSet(sent[h])
        BY <2>1, <2>2, <3>2
      <4>2. Named(sent[h], w) = 0
        BY <2>1, <3>2, <4>1, NamedType DEF ToSet
      <4>3. Named(sent'[h], w) = 0
        BY <2>1, <3>2, NamedEmpty
      <4> QED
        BY <2>1, <4>2, <4>3 DEF Owed
    <3> QED
      BY <3>1, <3>2
  <2> QED
    BY <1>e, <2>1, <2>2
<1>9. ASSUME NEW g \in Others, Goes(g) \/ Comes(g) PROVE Agrees(h, k)'
  BY <1>9, <1>e DEF Goes, Comes, Owed
<1>10. ASSUME MembershipChanges PROVE Agrees(h, k)'
  <2>1. UNCHANGED <<primary, write, stage, todo, sent, replica>>
    BY <1>10 DEF MembershipChanges
  <2>2. h \in ToSet(Replicas(k))
    <3> SUFFICES ASSUME h \notin ToSet(Replicas(k)) PROVE FALSE
      OBVIOUS
    <3> DEFINE p == <<h, k>>
    <3>1. p \in Others \X Keys /\ p[1] = h /\ p[2] = k
      OBVIOUS
    <3>2. p[1] \in ToSet(Replicas(p[2]))' \ ToSet(Replicas(p[2]))
      BY <3>1
    <3> HIDE DEF p
    <3>3. p \in excused'
      BY <1>10, <3>1, <3>2 DEF MembershipChanges
    <3> QED
      BY <3>3 DEF p
  <2> QED
    BY <1>d, <2>1, <2>2 DEF Agrees, Owed
<1>11. ASSUME UNCHANGED vars PROVE Agrees(h, k)'
  BY <1>11, <1>e DEF vars, Owed
<1> QED
  BY <1>1, <1>2, <1>3, <1>4, <1>5, <1>6, <1>7, <1>8, <1>9, <1>10, <1>11 DEF Next, Step

ReplicationInv == TypeInv /\ CopiesInv /\ ExcusesInv /\ AgreesInv

LEMMA ReplicationInvariant == Spec => []ReplicationInv
<1>1. Init => ReplicationInv
  BY TypeInit, CopiesInit, ExcusesInit, AgreesInit DEF ReplicationInv
<1>2. ReplicationInv /\ [Next]_vars => ReplicationInv'
  <2> SUFFICES ASSUME ReplicationInv, [Next]_vars PROVE ReplicationInv'
    OBVIOUS
  <2>1. TypeInv'
    BY TypeStep DEF ReplicationInv
  <2>2. CopiesInv' /\ ExcusesInv'
    BY <2>1, CopiesStep, ExcusesStep DEF ReplicationInv
  <2>3. AgreesInv'
    BY <2>1, AgreesStep DEF ReplicationInv
  <2> QED
    BY <2>1, <2>2, <2>3 DEF ReplicationInv
<1> QED
  BY <1>1, <1>2, PTL DEF Spec

(* A replica of a key that nothing was lost for, that joined before it was *)
(* written and whose writes did not overtake each other agrees with this   *)
(* node as soon as no write of the key is on its way.                      *)
THEOREM ConvergesHolds == Spec => []Converges
<1>1. ReplicationInv => Converges
  <2> SUFFICES ASSUME ReplicationInv, NEW k \in Keys, NEW h \in ToSet(Replicas(k)),
                      <<h, k>> \notin excused, ~InFlight(k)
               PROVE  replica[h][k] = primary[k]
    BY DEF Converges
  <2>1. h \in Others
    BY ReplicasType, ElementOfSeq DEF ReplicationInv, TypeInv, ToSet
  <2>2. \A w \in 1..Len(write) : write[w].key = k => ~Owed(h, w)
    BY <2>1, InFlightMoving, OwedFacts DEF ReplicationInv
  <2> QED
    BY <2>1, <2>2 DEF ReplicationInv, AgreesInv, Agrees
<1> QED
  BY <1>1, ReplicationInvariant, PTL
=============================================================================
