--------------------------- MODULE TransportProofs --------------------------
(***************************************************************************)
(* What the pool of tcp.rs keeps for any tasks, addresses and calls, alone *)
(* and as one of the transports of Transport.tla; what the chunks of       *)
(* chunking.rs make of any message; and what the callers of udp.rs get     *)
(* over a network that loses, reorders and doubles datagrams.              *)
(***************************************************************************)
EXTENDS Transport, FiniteSetTheorems, SequenceTheorems, WellFoundedInduction, TLAPS

Steps == {"idle", "get", "recycle", "connect", "gap", "panicked", "send", "recv", "remove",
          "uncount", "count", "clear", "count_out"}

(* Who uses a connection holds the Mutex; who is about to use one finds it *)
(* in the pool, unless a removal has overtaken it.                         *)
PoolInv ==
  /\ pc \in [Tasks -> [method : Methods \union {"none"}, step : Steps]]
  /\ pool \in [Addrs -> Nat \union {NoConn}]
  /\ DOMAIN target = Tasks
  /\ \A t \in Tasks :
       /\ Step(t) # "idle" => target[t] \in Addrs
       /\ Step(t) \in {"recycle", "connect", "send", "recv"} => lock = t
       /\ Step(t) \in {"send", "recv"} => pool[target[t]] # NoConn
       /\ Step(t) = "gap" /\ t \notin overtaken => pool[target[t]] # NoConn
       /\ Step(t) = "panicked" => t \in overtaken

LEMMA PoolInvInit == PoolInit => PoolInv
BY DEF PoolInit, PoolInv, Step, Steps

LEMMA PoolInvStep ==
  ASSUME PoolInv, [PoolNext]_poolVars
  PROVE  PoolInv'
<1> USE TcpPoolAssumption DEF PoolInv, Step, Steps
<1>1. ASSUME NEW t \in Tasks, NEW a \in Addrs, NEW m \in Methods, Use(t, a, m) PROVE PoolInv'
  BY <1>1 DEF Use
<1>2. ASSUME NEW t \in Tasks, Fresh(t) PROVE PoolInv'
  BY <1>2 DEF Fresh, Goto
<1>3. ASSUME NEW t \in Tasks, Recycle(t) PROVE PoolInv'
  BY <1>3 DEF Recycle, Goto
<1>4. ASSUME NEW t \in Tasks, Create(t) PROVE PoolInv'
  BY <1>4 DEF Create, Goto
<1>5. ASSUME NEW t \in Tasks, Connected(t) PROVE PoolInv'
  BY <1>5 DEF Connected, Goto
<1>6. ASSUME NEW t \in Tasks, ConnectFails(t) PROVE PoolInv'
  BY <1>6 DEF ConnectFails, Idle
<1>7. ASSUME NEW t \in Tasks, Take(t) PROVE PoolInv'
  BY <1>7 DEF Take, Goto
<1>8. ASSUME NEW t \in Tasks, Sent(t) PROVE PoolInv'
  BY <1>8 DEF Sent, Goto, Idle, Touched
<1>9. ASSUME NEW t \in Tasks, SendFails(t) PROVE PoolInv'
  BY <1>9 DEF SendFails, Goto, Idle
<1>10. ASSUME NEW t \in Tasks, Answered(t) PROVE PoolInv'
  BY <1>10 DEF Answered, Idle, Touched
<1>11. ASSUME NEW t \in Tasks, RecvFails(t) PROVE PoolInv'
  BY <1>11 DEF RecvFails, Goto
<1>12. ASSUME NEW t \in Tasks, RemoveConn(t) PROVE PoolInv'
  BY <1>12 DEF RemoveConn, Goto, Idle, InGap
<1>u. ASSUME NEW t \in Tasks, Uncount(t) PROVE PoolInv'
  BY <1>u DEF Uncount, Idle
<1>13. ASSUME NEW t \in Tasks, CountAll(t) PROVE PoolInv'
  BY <1>13 DEF CountAll, Goto
<1>14. ASSUME NEW t \in Tasks, Clear(t) PROVE PoolInv'
  BY <1>14 DEF Clear, Goto, InGap
<1>15. ASSUME NEW t \in Tasks, CountOut(t) PROVE PoolInv'
  BY <1>15 DEF CountOut, Idle
<1>16. CASE UNCHANGED poolVars
  BY <1>16 DEF poolVars
<1> QED
  BY <1>1, <1>2, <1>3, <1>4, <1>5, <1>6, <1>7, <1>8, <1>9, <1>10, <1>11, <1>12, <1>u,
     <1>13, <1>14, <1>15, <1>16 DEF PoolNext

(* get_mut(&key).unwrap(): whatever connects, sends and receives fail, and *)
(* however calls of the same address take turns at the Mutex, the entry is *)
(* missing only when remove_conn or close_all came into the gap.           *)
THEOREM OnlyRemovalPanicsHolds == PoolSpec => []OnlyRemovalPanics
<1>1. PoolInv => OnlyRemovalPanics
  BY DEF PoolInv, OnlyRemovalPanics
<1> QED
  BY <1>1, PoolInvInit, PoolInvStep, PTL DEF PoolSpec

(* The same of the pool that the factory makes, next to the other          *)
(* transports.                                                             *)
LEMMA FactoryPool ==
  ASSUME [Next]_vars
  PROVE  [PoolNext]_poolVars
<1>1. ASSUME NEW name, NEW side, CreateFor(name, side) PROVE UNCHANGED poolVars
  BY <1>1 DEF CreateFor
<1>2. ASSUME NEW c \in Callers, Block(c) \/ EnumLock(c) \/ EnumBind(c) PROVE UNCHANGED poolVars
  BY <1>2 DEF Block, EnumLock, EnumBind, At
<1>3. ASSUME NEW c \in Callers, Proxied(c) PROVE UNCHANGED poolVars
  BY <1>3 DEF Proxied
<1>4. InUdpServer \/ InTcpServer \/ InShutdown => UNCHANGED poolVars
  BY DEF InUdpServer, InTcpServer, InShutdown
<1>5. UNCHANGED vars => UNCHANGED poolVars
  BY DEF vars
<1> QED
  BY <1>1, <1>2, <1>3, <1>4, <1>5 DEF Next

THEOREM FactoryPoolHolds == Spec => []OnlyRemovalPanics
<1>1. Init => PoolInv
  BY PoolInvInit DEF Init
<1>2. PoolInv /\ [Next]_vars => PoolInv'
  BY FactoryPool, PoolInvStep
<1>3. PoolInv => OnlyRemovalPanics
  BY DEF PoolInv, OnlyRemovalPanics
<1> QED
  BY <1>1, <1>2, <1>3, PTL DEF Spec

-----------------------------------------------------------------------------
(* Numbers that wrap.                                                      *)

LEMMA DivMod ==
  ASSUME NEW g \in Nat \ {0}, NEW a \in Int
  PROVE  a % g \in 0..(g - 1) /\ \E q \in Int : a = q * g + (a % g)
<1>1. a \div g \in Int /\ a % g \in 0..(g - 1)
  OBVIOUS
<1>2. a = (a \div g) * g + (a % g)
  OBVIOUS
<1> QED
  BY <1>1, <1>2

LEMMA Multiples ==
  ASSUME NEW g \in Nat \ {0}, NEW d \in Int, d # 0
  PROVE  d * g >= g \/ d * g <= -g
<1>1. CASE d >= 1
  <2>1. (d - 1) * g >= 0
    BY <1>1
  <2> QED
    BY <2>1
<1>2. CASE d <= -1
  <2>1. (d + 1) * g <= 0
    BY <1>2
  <2> QED
    BY <2>1
<1> QED
  BY <1>1, <1>2

LEMMA ModUnique ==
  ASSUME NEW g \in Nat \ {0}, NEW q \in Int, NEW r \in 0..(g - 1)
  PROVE  (q * g + r) % g = r
<1> DEFINE a == q * g + r
<1>1. a \in Int
  OBVIOUS
<1>2. PICK p \in Int : a = p * g + (a % g)
  BY <1>1, DivMod
<1>3. a % g \in 0..(g - 1)
  BY <1>1, DivMod
<1>4. (p - q) * g = r - (a % g)
  <2>1. ASSUME NEW s \in Int, q * g + r = p * g + s PROVE (p - q) * g = r - s
    BY <2>1
  <2> QED
    BY <1>2, <1>3, <2>1
<1>5. p - q = 0
  <2>1. (p - q) * g < g /\ (p - q) * g > -g
    <3> HIDE DEF a
    <3>1. ASSUME NEW s \in 0..(g - 1) PROVE r - s < g /\ r - s > -g
      OBVIOUS
    <3> QED
      BY <1>3, <1>4, <3>1
  <2>2. p - q \in Int
    OBVIOUS
  <2>3. ASSUME NEW d \in Int, d * g < g, d * g > -g PROVE d = 0
    BY <2>3, Multiples
  <2> QED
    BY <2>1, <2>2, <2>3
<1>6. p = q
  BY <1>5
<1>7. ASSUME NEW s \in Int, q * g + r = q * g + s PROVE s = r
  BY <1>7
<1> QED
  BY <1>2, <1>3, <1>6, <1>7

LEMMA ModAdd ==
  ASSUME NEW g \in Nat \ {0}, NEW a \in Int, NEW x \in Int
  PROVE  ((a % g) + x) % g = (a + x) % g
<1> DEFINE m == a % g
           r == (m + x) % g
<1>1. m \in Int /\ m + x \in Int
  BY DivMod
<1>2. PICK p \in Int : a = p * g + m
  BY DivMod
<1> HIDE DEF m
<1>3. r \in 0..(g - 1) /\ \E q \in Int : m + x = q * g + r
  BY <1>1, DivMod
<1>4. PICK q \in Int : m + x = q * g + r
  BY <1>3
<1> HIDE DEF r
<1>5. a + x = (p + q) * g + r
  BY <1>1, <1>2, <1>3, <1>4
<1>6. (a + x) % g = r
  <2>1. p + q \in Int
    OBVIOUS
  <2>2. ((p + q) * g + r) % g = r
    BY <1>3, <2>1, ModUnique
  <2> QED
    BY <1>5, <2>2
<1> QED
  BY <1>6 DEF r, m

-----------------------------------------------------------------------------
(* The gauge.                                                              *)

(* The connections counted out that their recycler has still to replace,   *)
(* and those that remove_conn and close_all have still to count out.       *)
Replacing == {t \in Tasks : Step(t) = "recycle"}
Owed == UNION {{t} \X (1..counted[t]) : t \in {u \in Tasks : Step(u) = "count_out"}}
Uncounted == {t \in Tasks : Step(t) = "uncount"}

Truth == Cardinality(Open) + Cardinality(Owed) + Cardinality(Uncounted) - Cardinality(Replacing)
GaugeRight == misled \/ active = Truth % GaugeSize

GaugeInv ==
  /\ PoolInv
  /\ counted \in [Tasks -> Nat] /\ active \in Int
  /\ IsFiniteSet(Open) /\ IsFiniteSet(Replacing) /\ IsFiniteSet(Owed) /\ IsFiniteSet(Uncounted)
  /\ \A t \in Tasks :
       /\ Step(t) = "recycle" => pool[target[t]] # NoConn
       /\ Step(t) = "connect" => pool[target[t]] = NoConn
  /\ GaugeRight

LEMMA GaugeInit == PoolInit => GaugeInv
<1> SUFFICES ASSUME PoolInit PROVE GaugeInv
  OBVIOUS
<1>1. /\ Open = {} /\ Replacing = {} /\ Owed = {} /\ Uncounted = {}
      /\ \A t \in Tasks : Step(t) = "idle"
  BY DEF PoolInit, Open, Replacing, Owed, Uncounted, Step
<1>2. IsFiniteSet({}) /\ Cardinality({}) = 0
  BY FS_EmptySet
<1>3. counted \in [Tasks -> Nat] /\ active = 0
  BY DEF PoolInit
<1>4. Truth = 0
  BY <1>1, <1>2, <1>3 DEF Truth
<1>5. 0 % GaugeSize = 0
  BY TcpPoolAssumption
<1> QED
  BY PoolInvInit, <1>1, <1>2, <1>3, <1>4, <1>5 DEF GaugeInv, GaugeRight

(* Gauge and truth move together.                                          *)
LEMMA GaugeMoves ==
  ASSUME GaugeInv, NEW n \in Int, Truth' = Truth + n, misled' = misled,
         active' = (active + n) % GaugeSize \/ (n = 0 /\ active' = active)
  PROVE  GaugeRight' /\ active' \in Int
<1>1. GaugeSize \in Nat \ {0} /\ Truth \in Int /\ active \in Int /\ GaugeRight
  BY TcpPoolAssumption, FS_CardinalityType DEF GaugeInv, Truth
<1>2. CASE active' = (active + n) % GaugeSize
  <2>1. ((Truth % GaugeSize) + n) % GaugeSize = (Truth + n) % GaugeSize
    BY <1>1, ModAdd
  <2>2. active = Truth % GaugeSize => active' = Truth' % GaugeSize
    BY <1>1, <1>2, <2>1
  <2>3. active + n \in Int
    BY <1>1
  <2>4. (active + n) % GaugeSize \in 0..(GaugeSize - 1)
    BY <1>1, <2>3, DivMod
  <2>5. active' \in Int
    BY <1>1, <1>2, <2>4
  <2> QED
    BY <1>1, <2>2, <2>5 DEF GaugeRight
<1>3. CASE n = 0 /\ active' = active
  BY <1>1, <1>3 DEF GaugeRight
<1> QED
  BY <1>2, <1>3

(* What the truth depends on stays.                                        *)
LEMMA OpenStays ==
  ASSUME \A a \in Addrs : pool'[a] # NoConn <=> pool[a] # NoConn
  PROVE  Open' = Open
BY DEF Open

LEMMA DebtsStay ==
  ASSUME \A t \in Tasks :
           /\ Step(t)' = "recycle" <=> Step(t) = "recycle"
           /\ Step(t)' = "count_out" <=> Step(t) = "count_out"
           /\ Step(t)' = "uncount" <=> Step(t) = "uncount"
           /\ Step(t) = "count_out" => counted'[t] = counted[t]
  PROVE  Replacing' = Replacing /\ Owed' = Owed /\ Uncounted' = Uncounted
BY DEF Replacing, Owed, Uncounted

LEMMA GaugeStep ==
  ASSUME GaugeInv, [PoolNext]_poolVars
  PROVE  GaugeInv'
<1>0. /\ PoolInv /\ PoolInv'
      /\ pc \in [Tasks -> [method : Methods \union {"none"}, step : Steps]]
      /\ pool \in [Addrs -> Nat \union {NoConn}] /\ DOMAIN target = Tasks
      /\ \A t \in Tasks :
           /\ Step(t) # "idle" => target[t] \in Addrs
           /\ Step(t) \in {"recycle", "connect", "send", "recv"} => lock = t
           /\ Step(t) \in {"send", "recv"} => pool[target[t]] # NoConn
           /\ Step(t) = "recycle" => pool[target[t]] # NoConn
           /\ Step(t) = "connect" => pool[target[t]] = NoConn
      /\ counted \in [Tasks -> Nat] /\ active \in Int /\ GaugeRight
      /\ IsFiniteSet(Open) /\ IsFiniteSet(Replacing) /\ IsFiniteSet(Owed)
      /\ IsFiniteSet(Uncounted)
  BY PoolInvStep DEF GaugeInv, PoolInv
<1>n. /\ Cardinality(Open) \in Nat /\ Cardinality(Replacing) \in Nat /\ Cardinality(Owed) \in Nat
      /\ Cardinality(Uncounted) \in Nat
      /\ Truth \in Int /\ NoTask \notin Tasks /\ NoConn \notin Nat
  BY <1>0, FS_CardinalityType, TcpPoolAssumption DEF Truth
<1> DEFINE Holding == \A u \in Tasks :
             /\ Step(u)' = "recycle" => pool'[target'[u]] # NoConn
             /\ Step(u)' = "connect" => pool'[target'[u]] = NoConn
(* Steps that leave all of the truth alone.                                *)
<1>1. ASSUME Open' = Open, misled' = misled, active' = active, Holding,
             counted' \in [Tasks -> Nat],
             \A t \in Tasks :
               /\ Step(t)' = "recycle" <=> Step(t) = "recycle"
               /\ Step(t)' = "count_out" <=> Step(t) = "count_out"
               /\ Step(t)' = "uncount" <=> Step(t) = "uncount"
               /\ Step(t) = "count_out" => counted'[t] = counted[t]
      PROVE  GaugeInv'
  <2>1. Replacing' = Replacing /\ Owed' = Owed /\ Uncounted' = Uncounted
    BY <1>1, DebtsStay
  <2>2. Truth' = Truth
    BY <1>1, <2>1 DEF Truth
  <2> QED
    BY <1>0, <1>1, <2>1, <2>2 DEF GaugeInv, GaugeRight
<1>2. ASSUME NEW t \in Tasks, NEW a \in Addrs, NEW m \in Methods, Use(t, a, m) PROVE GaugeInv'
  <2>1. Open' = Open /\ misled' = misled /\ active' = active /\ counted' = counted /\ pool' = pool
    BY <1>2 DEF Use, Open
  <2>2. Step(t) = "idle" /\ Step(t)' \in {"remove", "count", "get"}
    BY <1>0, <1>2 DEF Use, Step
  <2>3. \A u \in Tasks \ {t} : Step(u)' = Step(u) /\ target'[u] = target[u]
    BY <1>0, <1>2 DEF Use, Step
  <2>4. Holding
    BY <1>0, <2>1, <2>2, <2>3
  <2> QED
    BY <1>0, <1>1, <2>1, <2>2, <2>3, <2>4
(* Steps of a task from one of these places to another.                    *)
<1>3. ASSUME NEW t \in Tasks,
             \A u \in Tasks \ {t} : Step(u)' = Step(u),
             target' = target, misled' = misled, active' = active,
             Step(t) \notin {"recycle", "uncount", "count_out"},
             Step(t)' \notin {"recycle", "uncount", "count_out"},
             Step(t)' = "connect" => pool[target[t]] = NoConn /\ Step(t) # "idle",
             \A u \in Tasks \ {t} : counted'[u] = counted[u], counted' \in [Tasks -> Nat],
             \A a \in Addrs : pool'[a] # NoConn <=> pool[a] # NoConn
      PROVE  GaugeInv'
  <2>1. Open' = Open
    BY <1>3, OpenStays
  <2>2. Holding
    BY <1>0, <1>3
  <2> QED
    BY <1>1, <1>3, <2>1, <2>2
<1>4. ASSUME NEW t \in Tasks, NEW step, Goto(t, step)
      PROVE  Step(t)' = step /\ \A u \in Tasks \ {t} : Step(u)' = Step(u)
  BY <1>0, <1>4 DEF Goto, Step
<1>5. ASSUME NEW t \in Tasks, Idle(t)
      PROVE  Step(t)' = "idle" /\ \A u \in Tasks \ {t} : Step(u)' = Step(u)
  BY <1>0, <1>5 DEF Idle, Step
<1>6. ASSUME NEW t \in Tasks, Fresh(t) \/ Create(t) \/ Take(t) \/ SendFails(t) \/ RecvFails(t)
                            \/ CountAll(t)
      PROVE  GaugeInv'
  <2>1. /\ UNCHANGED <<pool, active, target, misled>>
        /\ Step(t) \in {"get", "gap", "send", "recv", "count"}
    BY <1>6 DEF Fresh, Create, Take, SendFails, RecvFails, CountAll
  <2>2. /\ \A u \in Tasks \ {t} : Step(u)' = Step(u)
        /\ Step(t)' \in {"gap", "connect", "panicked", "send", "remove", "idle", "clear"}
        /\ Step(t)' = "connect" => pool[target[t]] = NoConn
    BY <1>4, <1>5, <1>6 DEF Fresh, Create, Take, SendFails, RecvFails, CountAll
  <2>3. counted' \in [Tasks -> Nat] /\ \A u \in Tasks \ {t} : counted'[u] = counted[u]
    BY <1>0, <1>6, <1>n DEF Fresh, Create, Take, SendFails, RecvFails, CountAll
  <2> QED
    BY <1>3, <2>1, <2>2, <2>3
<1>7. ASSUME NEW t \in Tasks, Sent(t) \/ Answered(t) PROVE GaugeInv'
  <2>1. /\ UNCHANGED <<active, target, misled, counted>> /\ pool' = Touched(target[t])
        /\ Step(t) \in {"send", "recv"}
    BY <1>7 DEF Sent, Answered
  <2>2. /\ \A u \in Tasks \ {t} : Step(u)' = Step(u)
        /\ Step(t)' \in {"recv", "idle"}
    BY <1>4, <1>5, <1>7 DEF Sent, Answered
  <2>3. \A a \in Addrs : pool'[a] # NoConn <=> pool[a] # NoConn
    <3>1. target[t] \in Addrs /\ pool[target[t]] # NoConn
      BY <1>0, <2>1
    <3>2. pool[target[t]] + 1 # NoConn
      BY <1>0, <1>n, <3>1
    <3> QED
      BY <1>0, <2>1, <3>1, <3>2 DEF Touched
  <2> QED
    BY <1>0, <1>3, <2>1, <2>2, <2>3
(* A connection worn out is counted out before it is replaced.             *)
<1>8. ASSUME NEW t \in Tasks, Recycle(t) PROVE GaugeInv'
  <2>1. /\ Step(t) = "get" /\ pool[target[t]] # NoConn /\ active' = (active - 1) % GaugeSize
        /\ UNCHANGED <<pool, target, counted, misled>>
    BY <1>8 DEF Recycle, Dec
  <2>2. Step(t)' = "recycle" /\ \A u \in Tasks \ {t} : Step(u)' = Step(u)
    BY <1>4, <1>8 DEF Recycle
  <2>3. Replacing' = Replacing \union {t} /\ t \notin Replacing
    BY <2>1, <2>2 DEF Replacing
  <2>4. Open' = Open /\ Owed' = Owed /\ Uncounted' = Uncounted
    BY <2>1, <2>2 DEF Open, Owed, Uncounted
  <2>5. IsFiniteSet(Replacing') /\ Cardinality(Replacing') = Cardinality(Replacing) + 1
    BY <1>0, <2>3, FS_AddElement
  <2>6. Truth' = Truth + (-1) /\ active' = (active + (-1)) % GaugeSize
    BY <1>0, <1>n, <2>1, <2>4, <2>5 DEF Truth
  <2>7. GaugeRight' /\ active' \in Int
    BY <2>1, <2>6, GaugeMoves
  <2>8. Holding
    BY <1>0, <2>1, <2>2
  <2> QED
    BY <1>0, <2>1, <2>4, <2>5, <2>7, <2>8 DEF GaugeInv
(* Connect: the entry is filled, or filled again.                          *)
<1>9. ASSUME NEW t \in Tasks, Connected(t) PROVE GaugeInv'
  <2>1. /\ Step(t) \in {"recycle", "connect"} /\ target[t] \in Addrs
        /\ pool' = [pool EXCEPT ![target[t]] = 0] /\ active' = (active + 1) % GaugeSize
        /\ UNCHANGED <<target, counted, misled>>
    BY <1>0, <1>9 DEF Connected, Inc
  <2>2. Step(t)' = "gap" /\ \A u \in Tasks \ {t} : Step(u)' = Step(u)
    BY <1>4, <1>9 DEF Connected
  <2>3. Owed' = Owed /\ Uncounted' = Uncounted
    BY <2>1, <2>2 DEF Owed, Uncounted
  <2>4. Open' = Open \union {target[t]}
    BY <1>0, <1>n, <2>1 DEF Open
  <2>5. /\ IsFiniteSet(Open')
        /\ Cardinality(Open') = Cardinality(Open) + (IF Step(t) = "connect" THEN 1 ELSE 0)
    <3>1. target[t] \in Open <=> Step(t) # "connect"
      BY <1>0, <2>1 DEF Open
    <3>2. /\ IsFiniteSet(Open \union {target[t]})
          /\ Cardinality(Open \union {target[t]}) =
               IF target[t] \in Open THEN Cardinality(Open) ELSE Cardinality(Open) + 1
      BY <1>0, FS_AddElement
    <3> QED
      BY <1>n, <2>4, <3>1, <3>2
  <2>6. /\ IsFiniteSet(Replacing')
        /\ Cardinality(Replacing') = Cardinality(Replacing) - (IF Step(t) = "connect" THEN 0 ELSE 1)
    <3>1. Replacing' = Replacing \ {t} /\ (t \in Replacing <=> Step(t) # "connect")
      BY <2>1, <2>2 DEF Replacing
    <3> QED
      BY <1>0, <1>n, <2>1, <3>1, FS_RemoveElement
  <2>7. Truth' = Truth + 1
    BY <1>0, <1>n, <2>1, <2>3, <2>5, <2>6 DEF Truth
  <2>8. GaugeRight' /\ active' \in Int
    BY <2>1, <2>7, GaugeMoves
  <2>9. Holding
    <3>1. \A u \in Tasks \ {t} : Step(u) \notin {"recycle", "connect"}
      BY <1>0, <2>1
    <3> QED
      BY <2>2, <3>1
  <2> QED
    BY <1>0, <2>1, <2>3, <2>5, <2>6, <2>8, <2>9 DEF GaugeInv
(* Nothing connects: what was counted out stays counted out.               *)
<1>10. ASSUME NEW t \in Tasks, ConnectFails(t) PROVE GaugeInv'
  <2>1. /\ Step(t) \in {"recycle", "connect"}
        /\ misled' = (misled \/ Step(t) = "recycle")
        /\ UNCHANGED <<pool, active, target, counted>>
    BY <1>10 DEF ConnectFails
  <2>2. Step(t)' = "idle" /\ \A u \in Tasks \ {t} : Step(u)' = Step(u)
    BY <1>5, <1>10 DEF ConnectFails
  <2>3. Open' = Open /\ Owed' = Owed /\ Uncounted' = Uncounted
    BY <2>1, <2>2 DEF Open, Owed, Uncounted
  <2>4. /\ IsFiniteSet(Replacing')
        /\ Cardinality(Replacing') = Cardinality(Replacing) - (IF Step(t) = "connect" THEN 0 ELSE 1)
    <3>1. Replacing' = Replacing \ {t} /\ (t \in Replacing <=> Step(t) # "connect")
      BY <2>1, <2>2 DEF Replacing
    <3> QED
      BY <1>0, <1>n, <2>1, <3>1, FS_RemoveElement
  <2>5. Step(t) = "connect" => Truth' = Truth
    BY <1>0, <1>n, <2>1, <2>3, <2>4 DEF Truth
  <2>6. GaugeRight' /\ active' \in Int
    BY <1>0, <2>1, <2>5 DEF GaugeRight
  <2>7. Holding
    BY <1>0, <2>1, <2>2
  <2> QED
    BY <1>0, <2>1, <2>3, <2>4, <2>5, <2>6, <2>7 DEF GaugeInv
(* Nobody holds the Mutex: nobody is connecting.                           *)
<1>11. ASSUME lock = NoTask PROVE \A u \in Tasks : Step(u) \notin {"recycle", "connect"}
  BY <1>0, <1>n, <1>11
<1>12. ASSUME NEW t \in Tasks, RemoveConn(t) PROVE GaugeInv'
  <2> DEFINE found == IF target[t] \in Open THEN 1 ELSE 0
  <2>1. /\ Step(t) = "remove" /\ lock = NoTask /\ target[t] \in Addrs
        /\ pool' = [pool EXCEPT ![target[t]] = NoConn]
        /\ UNCHANGED <<active, target, counted, misled>>
    BY <1>0, <1>12 DEF RemoveConn
  <2>2. /\ Step(t)' = IF target[t] \in Open THEN "uncount" ELSE "idle"
        /\ \A u \in Tasks \ {t} : Step(u)' = Step(u)
    BY <1>4, <1>5, <1>12 DEF RemoveConn
  <2>3. Replacing' = Replacing /\ Owed' = Owed
    BY <2>1, <2>2 DEF Replacing, Owed
  <2>4. Open' = Open \ {target[t]}
    BY <1>0, <2>1 DEF Open
  <2>5. IsFiniteSet(Open') /\ Cardinality(Open') = Cardinality(Open) - found
    <3>1. /\ IsFiniteSet(Open \ {target[t]})
          /\ Cardinality(Open \ {target[t]}) =
               IF target[t] \in Open THEN Cardinality(Open) - 1 ELSE Cardinality(Open)
      BY <1>0, FS_RemoveElement
    <3> QED
      BY <1>n, <2>4, <3>1
  <2>6. IsFiniteSet(Uncounted') /\ Cardinality(Uncounted') = Cardinality(Uncounted) + found
    <3>1. CASE target[t] \in Open
      <4>1. Uncounted' = Uncounted \union {t} /\ t \notin Uncounted
        BY <2>1, <2>2, <3>1 DEF Uncounted
      <4> QED
        BY <1>0, <3>1, <4>1, FS_AddElement
    <3>2. CASE target[t] \notin Open
      <4>1. Uncounted' = Uncounted
        BY <2>1, <2>2, <3>2 DEF Uncounted
      <4> QED
        BY <1>0, <1>n, <3>2, <4>1
    <3> QED
      BY <3>1, <3>2
  <2>7. Truth' = Truth
    BY <1>n, <2>3, <2>5, <2>6 DEF Truth
  <2>8. GaugeRight' /\ active' \in Int
    BY <1>0, <2>1, <2>7 DEF GaugeRight
  <2>9. Holding
    BY <1>11, <2>1, <2>2
  <2> QED
    BY <1>0, <2>1, <2>3, <2>5, <2>6, <2>8, <2>9 DEF GaugeInv
<1>u. ASSUME NEW t \in Tasks, Uncount(t) PROVE GaugeInv'
  <2>1. /\ Step(t) = "uncount" /\ active' = (active - 1) % GaugeSize
        /\ UNCHANGED <<pool, target, counted, misled>>
    BY <1>u DEF Uncount, Dec
  <2>2. Step(t)' = "idle" /\ \A u \in Tasks \ {t} : Step(u)' = Step(u)
    BY <1>5, <1>u DEF Uncount
  <2>3. Replacing' = Replacing /\ Owed' = Owed /\ Open' = Open
    BY <2>1, <2>2 DEF Replacing, Owed, Open
  <2>4. Uncounted' = Uncounted \ {t} /\ t \in Uncounted
    BY <2>1, <2>2 DEF Uncounted
  <2>5. IsFiniteSet(Uncounted') /\ Cardinality(Uncounted') = Cardinality(Uncounted) - 1
    BY <1>0, <2>4, FS_RemoveElement
  <2>6. Truth' = Truth + (-1) /\ active' = (active + (-1)) % GaugeSize
    BY <1>0, <1>n, <2>1, <2>3, <2>5 DEF Truth
  <2>7. GaugeRight' /\ active' \in Int
    BY <2>1, <2>6, GaugeMoves
  <2>8. Holding
    BY <1>0, <2>1, <2>2
  <2> QED
    BY <1>0, <2>1, <2>3, <2>5, <2>7, <2>8 DEF GaugeInv
(* What close_all counted it owes the gauge.                               *)
<1>d. ASSUME NEW t \in Tasks
      PROVE  /\ IsFiniteSet({t} \X (1..counted[t]))
             /\ Cardinality({t} \X (1..counted[t])) = counted[t]
  <2>1. counted[t] \in Nat
    BY <1>0
  <2>2. IsFiniteSet(1..counted[t]) /\ Cardinality(1..counted[t]) = counted[t]
    BY <2>1, FS_Interval
  <2>3. IsFiniteSet({t}) /\ Cardinality({t}) = 1
    BY FS_Singleton
  <2>4. /\ IsFiniteSet({t} \X (1..counted[t]))
        /\ Cardinality({t} \X (1..counted[t])) = Cardinality({t}) * Cardinality(1..counted[t])
    BY <2>2, <2>3, FS_Product
  <2>5. 1 * counted[t] = counted[t]
    BY <2>1
  <2> QED
    BY <2>2, <2>3, <2>4, <2>5
<1>13. ASSUME NEW t \in Tasks, Clear(t) PROVE GaugeInv'
  <2> DEFINE debt == {t} \X (1..counted[t])
  <2>1. /\ Step(t) = "clear" /\ lock = NoTask /\ pool' = [a \in Addrs |-> NoConn]
        /\ misled' = (misled \/ Cardinality(Open) # counted[t])
        /\ UNCHANGED <<active, target, counted>>
    BY <1>13 DEF Clear
  <2>2. Step(t)' = "count_out" /\ \A u \in Tasks \ {t} : Step(u)' = Step(u)
    BY <1>4, <1>13 DEF Clear
  <2>3. Replacing' = Replacing /\ Uncounted' = Uncounted
    BY <2>1, <2>2 DEF Replacing, Uncounted
  <2>4. Open' = {} /\ IsFiniteSet({}) /\ Cardinality({}) = 0
    BY <2>1, FS_EmptySet DEF Open
  <2>5. Owed' = Owed \union debt
    <3>1. {u \in Tasks : Step(u)' = "count_out"} = {u \in Tasks : Step(u) = "count_out"} \union {t}
      BY <2>2
    <3> QED
      BY <2>1, <3>1 DEF Owed
  <2>6. Owed \cap debt = {}
    BY <2>1 DEF Owed
  <2>7. IsFiniteSet(Owed') /\ Cardinality(Owed') = Cardinality(Owed) + counted[t]
    <3>1. IsFiniteSet(debt) /\ Cardinality(debt) = counted[t] /\ counted[t] \in Nat
      BY <1>0, <1>d
    <3>2. Cardinality(Owed \cap debt) = 0
      BY <2>4, <2>6
    <3> HIDE DEF debt
    <3>3. /\ IsFiniteSet(Owed \union debt)
          /\ Cardinality(Owed \union debt) =
               Cardinality(Owed) + Cardinality(debt) - Cardinality(Owed \cap debt)
      BY <1>0, <3>1, FS_Union
    <3> QED
      BY <1>n, <2>5, <3>1, <3>2, <3>3
  <2>8. Cardinality(Open) = counted[t] => Truth' = Truth
    BY <1>0, <1>n, <2>1, <2>3, <2>4, <2>7 DEF Truth
  <2>9. GaugeRight' /\ active' \in Int
    BY <1>0, <2>1, <2>8 DEF GaugeRight
  <2>10. Holding
    BY <1>11, <2>1, <2>2
  <2> QED
    BY <1>0, <2>1, <2>3, <2>4, <2>7, <2>8, <2>9, <2>10 DEF GaugeInv
<1>14. ASSUME NEW t \in Tasks, CountOut(t) PROVE GaugeInv'
  <2> DEFINE debt == {t} \X (1..counted[t])
  <2>1. /\ Step(t) = "count_out" /\ active' = (active - counted[t]) % GaugeSize
        /\ counted' = [counted EXCEPT ![t] = 0]
        /\ UNCHANGED <<pool, target, misled>>
    BY <1>14 DEF CountOut, Dec
  <2>2. Step(t)' = "idle" /\ \A u \in Tasks \ {t} : Step(u)' = Step(u)
    BY <1>5, <1>14 DEF CountOut
  <2>3. Replacing' = Replacing /\ Open' = Open /\ Uncounted' = Uncounted
    BY <2>1, <2>2 DEF Replacing, Open, Uncounted
  <2>4. Owed = Owed' \union debt /\ Owed' \cap debt = {}
    <3>1. {u \in Tasks : Step(u) = "count_out"} = {u \in Tasks : Step(u)' = "count_out"} \union {t}
      BY <2>1, <2>2
    <3>2. \A u \in Tasks : Step(u)' = "count_out" => u # t /\ counted'[u] = counted[u]
      BY <1>0, <2>1, <2>2
    <3>3. Owed' = UNION {{u} \X (1..counted[u]) : u \in {v \in Tasks : Step(v)' = "count_out"}}
      BY <3>2 DEF Owed
    <3> QED
      BY <3>1, <3>2, <3>3 DEF Owed
  <2>5. IsFiniteSet(Owed') /\ Cardinality(Owed') = Cardinality(Owed) - counted[t]
    <3>1. IsFiniteSet(debt) /\ Cardinality(debt) = counted[t] /\ counted[t] \in Nat
      BY <1>0, <1>d
    <3>2. Owed' = Owed \ debt /\ Owed \cap debt = debt
      BY <2>4
    <3> HIDE DEF debt
    <3>3. /\ IsFiniteSet(Owed \ debt)
          /\ Cardinality(Owed \ debt) = Cardinality(Owed) - Cardinality(Owed \cap debt)
      BY <1>0, FS_Difference
    <3> QED
      BY <3>1, <3>2, <3>3
  <2>6. counted[t] \in Nat /\ counted' \in [Tasks -> Nat]
    BY <1>0, <2>1
  <2>7. Truth' = Truth + (-counted[t]) /\ active' = (active + (-counted[t])) % GaugeSize
    BY <1>0, <1>n, <2>1, <2>3, <2>5, <2>6 DEF Truth
  <2>8. GaugeRight' /\ active' \in Int
    <3>1. -counted[t] \in Int
      BY <2>6
    <3> QED
      BY <2>1, <2>7, <3>1, GaugeMoves
  <2>9. Holding
    BY <1>0, <2>1, <2>2
  <2> QED
    BY <1>0, <2>1, <2>3, <2>5, <2>6, <2>8, <2>9 DEF GaugeInv
<1>15. CASE UNCHANGED poolVars
  BY <1>0, <1>1, <1>15 DEF poolVars, Open, Step
<1> QED
  BY <1>2, <1>6, <1>7, <1>8, <1>9, <1>10, <1>12, <1>u, <1>13, <1>14,
     <1>15 DEF PoolNext

(* The gauge counts the connections in the pool whenever no task is        *)
(* between the one and the other, unless a recycle failed or the pool      *)
(* changed under a close_all, for any tasks and addresses and however often*)
(* the counter has wrapped.                                                *)
THEOREM GaugeAgreesHolds == Spec => []GaugeAgrees
<1>1. Init => GaugeInv
  BY GaugeInit DEF Init
<1>2. GaugeInv /\ [Next]_vars => GaugeInv'
  BY FactoryPool, GaugeStep
<1>3. ASSUME GaugeInv, ~misled,
             \A t \in Tasks : Step(t) \notin {"recycle", "uncount", "count_out"}
      PROVE  active = Cardinality(Open) % GaugeSize
  <2>1. Replacing = {} /\ Owed = {} /\ Uncounted = {}
    BY <1>3 DEF Replacing, Owed, Uncounted
  <2>2. Cardinality({}) = 0 /\ Cardinality(Open) \in Nat
    BY <1>3, FS_EmptySet, FS_CardinalityType DEF GaugeInv
  <2>3. Truth = Cardinality(Open)
    BY <1>3, <2>1, <2>2 DEF Truth, GaugeInv
  <2> QED
    BY <1>3, <2>3 DEF GaugeInv, GaugeRight
<1>4. GaugeInv => GaugeAgrees
  BY <1>3 DEF GaugeAgrees
<1> QED
  BY <1>1, <1>2, <1>4, PTL DEF Spec

-----------------------------------------------------------------------------
(* The chunks of chunking.rs.                                              *)

(* Appending one after the other is flattening.                            *)
LEMMA FlattenedBy ==
  ASSUME NEW pieces, Len(pieces) \in Nat \ {0},
         NEW F, DOMAIN F = 1..Len(pieces),
         \A i \in 1..Len(pieces) : F[i] = IF i = 1 THEN pieces[i] ELSE F[i - 1] \o pieces[i]
  PROVE  FlattenSeq(pieces) = F[Len(pieces)]
<1> DEFINE n == Len(pieces)
           Appends(f) == f = [i \in 1..n |-> IF i = 1 THEN pieces[i] ELSE f[i - 1] \o pieces[i]]
           flatten == CHOOSE f : Appends(f)
<1>1. Appends([i \in 1..n |-> F[i]])
  <2> DEFINE f == [i \in 1..n |-> F[i]]
  <2>1. ASSUME NEW i \in 1..n PROVE f[i] = IF i = 1 THEN pieces[i] ELSE f[i - 1] \o pieces[i]
    <3>1. i # 1 => i - 1 \in 1..n
      OBVIOUS
    <3> QED
      BY <3>1
  <2> HIDE DEF n
  <2> QED
    BY <2>1
<1>2. Appends(flatten)
  <2> HIDE DEF Appends
  <2> QED
    BY <1>1
<1> HIDE DEF flatten
<1>3. \A i \in 1..n : flatten[i] = IF i = 1 THEN pieces[i] ELSE flatten[i - 1] \o pieces[i]
  <2> HIDE DEF n
  <2> QED
    BY <1>2
<1>4. \A i \in 1..n : flatten[i] = F[i]
  <2> SUFFICES ASSUME \E i \in 1..n : flatten[i] # F[i] PROVE FALSE
    OBVIOUS
  <2> DEFINE T == {i \in 1..n : flatten[i] # F[i]}
  <2>1. T \in SUBSET Nat /\ T # {}
    OBVIOUS
  <2>2. PICK m \in T : \A i \in T : ~ (<<i, m>> \in OpToRel(<, Nat))
    <3> HIDE DEF T
    <3> QED
      BY <2>1, WFMin, NatLessThanWellFounded
  <2>3. m \in 1..n /\ flatten[m] # F[m]
    OBVIOUS
  <2>4. m # 1
    BY <1>3, <2>3
  <2>5. m - 1 \in 1..n /\ m - 1 \in Nat /\ m - 1 < m
    BY <2>3, <2>4
  <2>6. m - 1 \notin T
    <3>1. <<m - 1, m>> \in OpToRel(<, Nat)
      BY <2>3, <2>5 DEF OpToRel
    <3> QED
      BY <2>2, <3>1
  <2>7. flatten[m - 1] = F[m - 1]
    BY <2>5, <2>6
  <2>8. F[m] = F[m - 1] \o pieces[m] /\ flatten[m] = flatten[m - 1] \o pieces[m]
    BY <1>3, <2>3, <2>4
  <2> QED
    BY <2>3, <2>7, <2>8
<1>5. FlattenSeq(pieces) = flatten[n]
  BY DEF FlattenSeq, flatten
<1> QED
  BY <1>4, <1>5

LEMMA LesserOf ==
  ASSUME NEW a \in Int, NEW b \in Int
  PROVE  Min({a, b}) = IF a <= b THEN a ELSE b
<1>1. CASE a <= b
  <2>1. \A y \in {a, b} : a <= y
    BY <1>1
  <2>2. \A x \in {a, b} : (\A y \in {a, b} : x <= y) => x = a
    BY <1>1
  <2> QED
    BY <1>1, <2>1, <2>2 DEF Min
<1>2. CASE ~(a <= b)
  <2>1. \A y \in {a, b} : b <= y
    BY <1>2
  <2>2. \A x \in {a, b} : (\A y \in {a, b} : x <= y) => x = b
    BY <1>2
  <2> QED
    BY <1>2, <2>1, <2>2 DEF Min
<1> QED
  BY <1>1, <1>2

(* A stretch of a message and the one behind it.                           *)
LEMMA Adjoining ==
  ASSUME NEW S, NEW data \in Seq(S), NEW a \in Nat, NEW b \in Nat, a <= b, b <= Len(data)
  PROVE  SubSeq(data, 1, a) \o SubSeq(data, a + 1, b) = SubSeq(data, 1, b)
<1> DEFINE left == SubSeq(data, 1, a)
           right == SubSeq(data, a + 1, b)
           whole == SubSeq(data, 1, b)
<1>0. Len(data) \in Nat /\ \A i \in 1..Len(data) : data[i] \in S
  BY LenProperties, ElementOfSeq
<1>1. left \in Seq(S) /\ Len(left) = a /\ \A i \in 1..a : left[i] = data[i]
  BY <1>0
<1>2. whole \in Seq(S) /\ Len(whole) = b /\ \A i \in 1..b : whole[i] = data[i]
  BY <1>0
<1>3. right \in Seq(S) /\ Len(right) = b - a /\ \A i \in 1..b - a : right[i] = data[a + i]
  <2>1. a + 1 \in Int /\ \A i \in a + 1..b : data[i] \in S
    BY <1>0
  <2>2. /\ right \in Seq(S)
        /\ Len(right) = IF a + 1 <= b THEN b - (a + 1) + 1 ELSE 0
        /\ \A i \in 1..b - (a + 1) + 1 : right[i] = data[(a + 1) + i - 1]
    BY <2>1, SubSeqProperties
  <2> HIDE DEF right
  <2>3. Len(right) = b - a
    BY <2>2
  <2>4. ASSUME NEW i \in 1..b - a PROVE right[i] = data[a + i]
    <3>1. i \in 1..b - (a + 1) + 1 /\ (a + 1) + i - 1 = a + i
      OBVIOUS
    <3> QED
      BY <2>2, <3>1
  <2> QED
    BY <2>2, <2>3, <2>4
<1> HIDE DEF left, right, whole
<1>4. /\ left \o right \in Seq(S)
      /\ Len(left \o right) = b
      /\ \A i \in 1..b : (left \o right)[i] = IF i <= a THEN left[i] ELSE right[i - a]
  BY <1>1, <1>3, ConcatProperties
<1>5. ASSUME NEW i \in 1..b PROVE (left \o right)[i] = whole[i]
  <2>1. CASE i <= a
    BY <1>1, <1>2, <1>4, <2>1
  <2>2. CASE ~(i <= a)
    <3>1. i - a \in 1..b - a /\ a + (i - a) = i
      BY <2>2
    <3> QED
      BY <1>2, <1>3, <1>4, <2>2, <3>1
  <2> QED
    BY <2>1, <2>2
<1>6. left \o right = whole
  BY <1>2, <1>4, <1>5, SeqEqual
<1> QED
  BY <1>6 DEF left, right, whole

(* How many chunks of a size cover a message.                              *)
LEMMA ChunkCount ==
  ASSUME NEW len \in Nat \ {0}, NEW size \in Nat \ {0}
  PROVE  LET total == (len + size - 1) \div size
         IN  /\ total \in Nat \ {0}
             /\ len <= total * size
             /\ \A i \in 1..total : (i - 1) * size < len /\ (i - 1) * size \in Nat /\ i * size \in Nat
                                    /\ i * size = (i - 1) * size + size
<1> DEFINE total == (len + size - 1) \div size
           rest == (len + size - 1) % size
<1>1. total \in Nat /\ rest \in 0..size - 1
  OBVIOUS
<1>2. len + size - 1 = size * total + rest
  OBVIOUS
<1> HIDE DEF total, rest
<1>3. size * total = total * size /\ total * size \in Nat
  BY <1>1
<1>4. len <= total * size /\ total * size < len + size
  BY <1>1, <1>2, <1>3
<1>5. total # 0
  BY <1>4
<1>6. ASSUME NEW i \in 1..total
      PROVE  /\ (i - 1) * size < len /\ (i - 1) * size \in Nat /\ i * size \in Nat
             /\ i * size = (i - 1) * size + size
  <2>1. (i - 1) * size \in Nat /\ i * size \in Nat /\ i * size = (i - 1) * size + size
    BY <1>1
  <2>2. i * size <= total * size
    BY <1>1
  <2> QED
    BY <1>3, <1>4, <2>1, <2>2
<1> QED
  BY <1>1, <1>4, <1>5, <1>6 DEF total

(* The payloads of the chunks of any message, one after the other, are the *)
(* message, while the header of chunk_message has digits for the size of a *)
(* piece, for the number of the pieces and so for theirs.                  *)
THEOREM ChunksJoinBack ==
  ASSUME NEW S, NEW data \in Seq(S), NEW size \in Nat \ {0}, NEW id,
         size < SizeLimit, Len(ChunkMessage(id, data, size)) < CountLimit
  PROVE  Joined(ChunkMessage(id, data, size)) = data
<1> DEFINE chunks == ChunkMessage(id, data, size)
           pieces == [i \in 1..Len(chunks) |-> ParsedPayload(chunks[i])]
           total == (Len(data) + size - 1) \div size
           upto(i) == Min({i * size, Len(data)})
           piece(i) == SubSeq(data, (i - 1) * size + 1, upto(i))
           F == [i \in 1..total |-> SubSeq(data, 1, upto(i))]
<1>0. Len(data) \in Nat /\ SizeLimit \in Nat
  BY LenProperties, ChunkingAssumption
<1>1. CASE data = << >>
  <2>1. Min({1 * size, Len(data)}) = 0
    BY <1>1, LesserOf
  <2>2. piece(1) = << >>
    BY <1>1, <2>1
  <2>3. chunks = [i \in 1..1 |->
                    [id |-> id, seq |-> i - 1, total |-> 1, payload |-> piece(i)]]
    BY <1>1 DEF ChunkMessage
  <2> HIDE DEF piece
  <2>4. Len(chunks) = 1 /\ chunks[1].total = 1 /\ chunks[1].payload = << >>
    <3>1. Len(chunks) = 1 /\ chunks[1].total = 1
      BY <2>3
    <3>2. chunks[1].payload = piece(1)
      BY <2>3
    <3> QED
      BY <2>2, <3>1, <3>2
  <2> HIDE DEF chunks
  <2>5. ParsedPayload(chunks[1]) = << >>
    BY <2>4, ChunkingAssumption DEF ParsedPayload
  <2> HIDE DEF pieces
  <2>6. Len(pieces) = 1 /\ pieces[1] = << >> /\ pieces = [i \in 1..1 |-> << >>]
    BY <2>4, <2>5 DEF pieces
  <2>7. FlattenSeq(pieces) = << >>
    <3> DEFINE G == [i \in 1..1 |-> << >>]
    <3>1. /\ DOMAIN G = 1..Len(pieces)
          /\ \A i \in 1..Len(pieces) : G[i] = IF i = 1 THEN pieces[i] ELSE G[i - 1] \o pieces[i]
      BY <2>6
    <3>2. Len(pieces) \in Nat \ {0} /\ G[Len(pieces)] = << >>
      BY <2>6
    <3> HIDE DEF G
    <3> QED
      BY <3>1, <3>2, FlattenedBy
  <2> QED
    BY <1>1, <2>7 DEF Joined, pieces, chunks
<1>2. CASE data # << >>
  <2>0. Len(data) \in Nat \ {0}
    BY <1>0, <1>2, EmptySeq
  <2>1. /\ total \in Nat \ {0} /\ Len(data) <= total * size
        /\ \A i \in 1..total : /\ (i - 1) * size < Len(data) /\ (i - 1) * size \in Nat
                               /\ i * size \in Nat /\ i * size = (i - 1) * size + size
    BY <2>0, ChunkCount
  <2>2. chunks = [i \in 1..total |->
                    [id |-> id, seq |-> i - 1, total |-> total, payload |-> piece(i)]]
    BY <1>2 DEF ChunkMessage
  <2> HIDE DEF total
  <2>3. \A i \in 1..total :
          /\ upto(i) \in Nat /\ (i - 1) * size < upto(i) /\ upto(i) <= Len(data)
          /\ upto(i) <= (i - 1) * size + size
    BY <1>0, <2>1, LesserOf
  <2> HIDE DEF upto
  <2>4. ASSUME NEW i \in 1..total
        PROVE  piece(i) \in Seq(S) /\ Len(piece(i)) <= size /\ Len(piece(i)) \in Nat
    <3>1. PICK a \in Nat, b \in Nat :
            a = (i - 1) * size /\ b = upto(i) /\ a < b /\ b <= Len(data) /\ b <= a + size
      BY <2>1, <2>3
    <3>2. a + 1 \in Int /\ b \in Int /\ \A j \in a + 1..b : data[j] \in S
      BY <1>0, <3>1, ElementOfSeq
    <3>3. /\ SubSeq(data, a + 1, b) \in Seq(S)
          /\ Len(SubSeq(data, a + 1, b)) = IF a + 1 <= b THEN b - (a + 1) + 1 ELSE 0
      BY <3>2, SubSeqProperties
    <3>4. piece(i) = SubSeq(data, a + 1, b)
      BY <3>1 DEF piece
    <3> QED
      BY <3>1, <3>3, <3>4
  <2> HIDE DEF piece
  <2>5. /\ Len(chunks) = total /\ Len(chunks) < CountLimit
        /\ \A i \in 1..total : chunks[i].total = total /\ chunks[i].payload = piece(i)
    BY <2>1, <2>2
  <2> HIDE DEF chunks
  <2>6. \A i \in 1..total : ParsedPayload(chunks[i]) = piece(i)
    BY <1>0, <2>4, <2>5 DEF ParsedPayload
  <2>7. Len(pieces) = total /\ \A i \in 1..total : pieces[i] = piece(i)
    <3>1. Len(chunks) = total
      BY <2>5
    <3> QED
      BY <2>1, <2>6, <3>1
  <2> HIDE DEF pieces
  <2>8. ASSUME NEW i \in 1..total
        PROVE  F[i] = IF i = 1 THEN piece(i) ELSE F[i - 1] \o piece(i)
    <3>1. CASE i = 1
      <4>1. (i - 1) * size + 1 = 1
        BY <3>1
      <4>2. piece(i) = SubSeq(data, 1, upto(i))
        BY <4>1 DEF piece
      <4> QED
        BY <3>1, <4>2
    <3>2. CASE i # 1
      <4>1. i - 1 \in 1..total /\ ((i - 1) - 1) * size \in Nat
        BY <2>1, <3>2
      <4>2. upto(i - 1) = (i - 1) * size
        BY <1>0, <2>1, LesserOf DEF upto
      <4>3. SubSeq(data, 1, (i - 1) * size) \o SubSeq(data, (i - 1) * size + 1, upto(i))
              = SubSeq(data, 1, upto(i))
        <5>1. PICK a \in Nat, b \in Nat :
                a = (i - 1) * size /\ b = upto(i) /\ a < b /\ b <= Len(data)
          BY <2>1, <2>3
        <5>2. a <= b
          BY <5>1
        <5>3. SubSeq(data, 1, a) \o SubSeq(data, a + 1, b) = SubSeq(data, 1, b)
          BY <5>1, <5>2, Adjoining
        <5> QED
          BY <5>1, <5>3
      <4> QED
        BY <3>2, <4>1, <4>2, <4>3 DEF piece
    <3> QED
      BY <3>1, <3>2
  <2>9. F[total] = data
    <3>1. upto(total) = Len(data)
      BY <1>0, <2>1, LesserOf DEF upto
    <3>2. SubSeq(data, 1, Len(data)) = data
      BY <1>0
    <3> QED
      BY <2>1, <3>1, <3>2
  <2>10. DOMAIN F = 1..total
    OBVIOUS
  <2> HIDE DEF F
  <2>11. FlattenSeq(pieces) = F[Len(pieces)]
    BY <2>1, <2>7, <2>8, <2>10, FlattenedBy
  <2> QED
    BY <2>7, <2>9, <2>11 DEF Joined, pieces, chunks
<1> QED
  BY <1>1, <1>2

-----------------------------------------------------------------------------
(* The datagrams of udp.rs.                                                *)

Elements(s) == {s[i] : i \in 1..Len(s)}
Chunks == UNION {Elements(ChunkMessage(id, Bytes(r), ChunkSize)) : id \in Ids, r \in Requests}

HasSocket(c) == at[c] \in {"sendrecv!", "send_only!", "chunks", "waiting"}
Calling(c) == at[c] \in {"sendrecv", "send_only"} \/ HasSocket(c)
Whole(d) == ~(d.to = "server" /\ IsChunk(d))

(* The calls whose datagrams may be under way without a caller.            *)
Astray == loose \union displaced

(* A request in one datagram, or its answer, is under way only while its   *)
(* caller waits, and only one of them, unless the call is astray.          *)
FramesInv ==
  /\ \A d \in net : Whole(d) =>
       \/ d.number \in Astray
       \/ \E c \in Callers : at[c] = "waiting" /\ call[c].number = d.number
  /\ \A d, e \in net :
       Whole(d) /\ Whole(e) /\ d.number = e.number /\ d.number \notin Astray => d = e

CallsInv ==
  /\ DOMAIN at = Callers /\ DOMAIN call = Callers /\ DOMAIN answer = Callers
  /\ unsent \in [Callers -> Seq(Chunks)]
  /\ calls \in Nat
  /\ \A c \in Callers :
       /\ HasSocket(c) => socket = c
       /\ Calling(c) => call[c].number \in 1..calls /\ call[c].request \in Requests
       /\ at[c] = "chunks" => unsent[c] # << >>
  /\ \A c, d \in Callers : Calling(c) /\ Calling(d) /\ call[c].number = call[d].number => c = d

DatagramInv == CallsInv /\ FramesInv /\ OwnDatagram

LEMMA ChunksOfMessage ==
  ASSUME NEW id \in Ids, NEW r \in Requests
  PROVE  /\ Total(r) \in Nat \ {0}
         /\ ChunkMessage(id, Bytes(r), ChunkSize) \in Seq(Chunks)
         /\ Len(ChunkMessage(id, Bytes(r), ChunkSize)) = Total(r)
         /\ \A i \in 1..Total(r) :
              LET chunk == ChunkMessage(id, Bytes(r), ChunkSize)[i]
              IN  /\ chunk.id = id /\ chunk.seq = i - 1 /\ chunk.total = Total(r)
                  /\ "payload" \in DOMAIN chunk
<1> DEFINE message == ChunkMessage(id, Bytes(r), ChunkSize)
<1>1. SizeOf[r] \in Nat \ {0} /\ ChunkSize \in Nat \ {0}
  BY UdpAssumption
<1>2. Bytes(r) \in Seq({r} \X Nat) /\ Len(Bytes(r)) = SizeOf[r] /\ Bytes(r) # << >>
  BY <1>1 DEF Bytes
<1>3. ASSUME NEW n \in Nat \ {0}, NEW p \in Nat \ {0} PROVE (n + p - 1) \div p \in Nat \ {0}
  <2>1. (n + p - 1) \div p \in Nat
    OBVIOUS
  <2>2. (n + p - 1) \div p # 0
    OBVIOUS
  <2> QED
    BY <2>1, <2>2
<1>4. Total(r) \in Nat \ {0}
  BY <1>1, <1>3 DEF Total
<1>5. message = [i \in 1..Total(r) |->
         [id |-> id, seq |-> i - 1, total |-> Total(r),
          payload |-> SubSeq(Bytes(r), (i - 1) * ChunkSize + 1,
                             Min({i * ChunkSize, Len(Bytes(r))}))]]
  BY <1>2 DEF ChunkMessage, Total
<1>6. Len(message) = Total(r)
  BY <1>4, <1>5
<1>7. \A i \in 1..Total(r) : message[i] \in Chunks
  <2>1. Elements(message) \subseteq Chunks
    BY DEF Chunks
  <2> HIDE DEF message
  <2>2. \A i \in 1..Total(r) : message[i] \in Elements(message)
    BY <1>6 DEF Elements
  <2> QED
    BY <2>1, <2>2
<1>8. \A i \in 1..Total(r) :
        /\ message[i].id = id /\ message[i].seq = i - 1 /\ message[i].total = Total(r)
        /\ "payload" \in DOMAIN message[i]
  BY <1>5
<1>9. DOMAIN message = 1..Total(r) /\ message = [i \in 1..Total(r) |-> message[i]]
  BY <1>5
<1> HIDE DEF message
<1>10. message \in Seq(Chunks)
  BY <1>4, <1>7, <1>9
<1> QED
  BY <1>4, <1>6, <1>8, <1>10 DEF message

LEMMA ChunkHasPayload ==
  ASSUME NEW chunk \in Chunks
  PROVE  "payload" \in DOMAIN chunk
<1>1. PICK id \in Ids, r \in Requests : chunk \in Elements(ChunkMessage(id, Bytes(r), ChunkSize))
  BY DEF Chunks
<1>2. PICK i \in 1..Total(r) : chunk = ChunkMessage(id, Bytes(r), ChunkSize)[i]
  BY <1>1, ChunksOfMessage DEF Elements
<1> QED
  BY <1>2, ChunksOfMessage

LEMMA DatagramInit == UdpInit => DatagramInv
<1> SUFFICES ASSUME UdpInit PROVE DatagramInv
  OBVIOUS
<1>1. CallsInv
  BY DEF UdpInit, CallsInv, HasSocket, Calling
<1>2. FramesInv
  BY DEF UdpInit, FramesInv
<1>3. OwnDatagram
  BY DEF UdpInit, OwnDatagram
<1> QED
  BY <1>1, <1>2, <1>3 DEF DatagramInv

(* Frames that stay: none is added but of calls astray, and the calls that *)
(* lose their caller go astray.                                            *)
LEMMA FramesStay ==
  ASSUME FramesInv, Astray \subseteq Astray',
         \A d \in net' : Whole(d) => d \in net \/ d.number \in Astray',
         \A c \in Callers : at[c] = "waiting" =>
            \/ at'[c] = "waiting" /\ call'[c].number = call[c].number
            \/ \A d \in net' : Whole(d) /\ d.number = call[c].number => d.number \in Astray'
  PROVE  FramesInv'
<1>1. ASSUME NEW d \in net', Whole(d), d.number \notin Astray'
      PROVE  \E c \in Callers : at'[c] = "waiting" /\ call'[c].number = d.number
  <2>1. PICK c \in Callers : at[c] = "waiting" /\ call[c].number = d.number
    BY <1>1 DEF FramesInv
  <2> QED
    BY <1>1, <2>1
<1>2. ASSUME NEW d \in net', NEW e \in net', Whole(d), Whole(e), d.number = e.number,
             d.number \notin Astray'
      PROVE  d = e
  BY <1>2 DEF FramesInv
<1> QED
  BY <1>1, <1>2 DEF FramesInv, Whole, IsChunk

(* A step of one caller keeps the calls apart.                             *)
LEMMA CallsStay ==
  ASSUME CallsInv, NEW c \in Callers,
         DOMAIN at' = Callers, DOMAIN call' = Callers, DOMAIN answer' = Callers,
         unsent' \in [Callers -> Seq(Chunks)], calls' \in Nat, calls <= calls',
         \A d \in Callers \ {c} :
           at'[d] = at[d] /\ call'[d] = call[d] /\ unsent'[d] = unsent[d],
         \/ ~Calling(c)'
         \/ Calling(c) /\ call'[c] = call[c]
         \/ /\ call'[c].number = calls + 1 /\ calls' = calls + 1
            /\ call'[c].request \in Requests,
         HasSocket(c)' => socket' = c,
         socket' = socket \/ socket \in {Nobody, c},
         at'[c] = "chunks" => unsent'[c] # << >>
  PROVE  CallsInv'
<1>0. Nobody \notin Callers
  BY UdpAssumption
<1>1. \A d \in Callers \ {c} :
        /\ HasSocket(d)' <=> HasSocket(d)
        /\ Calling(d)' <=> Calling(d)
  BY DEF HasSocket, Calling
<1>2. \A d \in Callers : HasSocket(d)' => socket' = d
  BY <1>0, <1>1 DEF CallsInv
<1>3. \A d \in Callers : Calling(d) => call[d].number \in 1..calls
  BY DEF CallsInv
<1>4. \A d \in Callers :
        Calling(d)' => call'[d].number \in 1..calls' /\ call'[d].request \in Requests
  BY <1>1, <1>3 DEF CallsInv
<1>5. ASSUME NEW d \in Callers, NEW e \in Callers, Calling(d)', Calling(e)',
             call'[d].number = call'[e].number
      PROVE  d = e
  <2>1. calls \in Nat /\ (\A n \in 1..calls : n # calls + 1)
    BY DEF CallsInv
  <2>2. \A f, g \in Callers : Calling(f) /\ Calling(g) /\ call[f].number = call[g].number => f = g
    BY DEF CallsInv
  <2>3. \A f \in Callers \ {c} : Calling(f)' =>
          Calling(f) /\ call'[f].number = call[f].number /\ call[f].number \in 1..calls
    BY <1>1, <1>3
  <2>4. CASE d # c /\ e # c
    BY <1>5, <2>2, <2>3, <2>4
  <2>5. ASSUME NEW f \in Callers \ {c}, Calling(f)', Calling(c)'
        PROVE  call'[f].number # call'[c].number
    <3>1. CASE Calling(c) /\ call'[c].number = call[c].number
      BY <2>2, <2>3, <2>5, <3>1
    <3>2. CASE call'[c].number = calls + 1
      BY <2>1, <2>3, <2>5, <3>2
    <3> QED
      BY <2>5, <3>1, <3>2
  <2> QED
    BY <1>5, <2>4, <2>5
<1>6. \A d \in Callers : at'[d] = "chunks" => unsent'[d] # << >>
  BY DEF CallsInv
<1> QED
  BY <1>2, <1>4, <1>5, <1>6 DEF CallsInv


LEMMA AnswersStay ==
  ASSUME OwnDatagram, NEW c \in Callers, loose \subseteq loose', displaced \subseteq displaced',
         displaced' = displaced \/ loose' # {},
         \A d \in Callers \ {c} : answer'[d] = answer[d],
         \/ answer'[c] = answer[c] \/ answer'[c] = NoValue \/ answer'[c].code # "ok"
         \/ answer'[c].answered \in Astray' \union {answer'[c].asked}
  PROVE  OwnDatagram'
BY DEF OwnDatagram, Astray

(* A call that returns gives the socket back and is over.                  *)
LEMMA ReturnsApart ==
  ASSUME CallsInv, NEW c \in Callers, HasSocket(c), NEW what, Return(c, what), calls' = calls
  PROVE  /\ CallsInv'
         /\ answer'[c] = what
         /\ \A d \in Callers \ {c} :
              at'[d] = at[d] /\ call'[d] = call[d] /\ answer'[d] = answer[d]
<1>1. /\ DOMAIN at = Callers /\ DOMAIN call = Callers /\ DOMAIN answer = Callers
      /\ unsent \in [Callers -> Seq(Chunks)] /\ calls \in Nat
      /\ socket = c
  BY DEF CallsInv
<1>2. << >> \in Seq(Chunks)
  OBVIOUS
<1>3. /\ DOMAIN at' = Callers /\ DOMAIN call' = Callers /\ DOMAIN answer' = Callers
      /\ unsent' \in [Callers -> Seq(Chunks)] /\ calls' \in Nat /\ calls <= calls'
      /\ at'[c] = "idle" /\ answer'[c] = what /\ socket' = Nobody
      /\ \A d \in Callers \ {c} : /\ at'[d] = at[d] /\ call'[d] = call[d]
                                  /\ answer'[d] = answer[d] /\ unsent'[d] = unsent[d]
  BY <1>1, <1>2 DEF Return
<1>4. ~HasSocket(c)' /\ ~Calling(c)' /\ at'[c] # "chunks"
  BY <1>3 DEF HasSocket, Calling
<1>5. socket' = socket \/ socket \in {Nobody, c}
  BY <1>1
<1>6. CallsInv'
  BY <1>3, <1>4, <1>5, CallsStay
<1> QED
  BY <1>3, <1>6

LEMMA CallApart ==
  ASSUME DatagramInv, NEW c \in Callers, NEW r \in RequestsOf[c],
         NEW how \in {"sendrecv", "send_only"}, Call(c, r, how)
  PROVE  DatagramInv'
<1>0. CallsInv /\ FramesInv /\ OwnDatagram
  BY DEF DatagramInv
<1>1. /\ DOMAIN at = Callers /\ DOMAIN call = Callers /\ DOMAIN answer = Callers
      /\ unsent \in [Callers -> Seq(Chunks)] /\ calls \in Nat
  BY <1>0 DEF CallsInv
<1>2. r \in Requests
  BY DEF Requests
<1>3. /\ DOMAIN call' = Callers /\ unsent' \in [Callers -> Seq(Chunks)]
      /\ call'[c].number = calls + 1 /\ call'[c].request = r
      /\ \A d \in Callers \ {c} : call'[d] = call[d] /\ unsent'[d] = unsent[d]
  <2>1. CASE how = "sendrecv" /\ Chunked(r)
    <3>1. PICK id \in Ids :
            /\ call' = [call EXCEPT ![c] = [number |-> calls + 1, request |-> r, id |-> id]]
            /\ unsent' = [unsent EXCEPT ![c] = ChunkMessage(id, Bytes(r), ChunkSize)]
      BY <2>1 DEF Call
    <3>2. ChunkMessage(id, Bytes(r), ChunkSize) \in Seq(Chunks)
      BY <1>2, ChunksOfMessage
    <3> QED
      BY <1>1, <3>1, <3>2
  <2>2. CASE ~(how = "sendrecv" /\ Chunked(r))
    BY <1>1, <2>2 DEF Call
  <2> QED
    BY <2>1, <2>2
<1>4. /\ DOMAIN at' = Callers /\ DOMAIN answer' = Callers
      /\ calls' = calls + 1 /\ at[c] = "idle" /\ at'[c] = how /\ answer'[c] = NoValue
      /\ socket' = socket /\ net' = net /\ loose' = loose /\ displaced' = displaced
      /\ \A d \in Callers \ {c} : at'[d] = at[d] /\ answer'[d] = answer[d]
  BY <1>1 DEF Call
<1>5. calls' \in Nat /\ calls <= calls' /\ ~HasSocket(c)' /\ at'[c] # "chunks"
  BY <1>1, <1>4 DEF HasSocket
<1>6. CallsInv'
  BY <1>0, <1>2, <1>3, <1>4, <1>5, CallsStay
<1>7. FramesInv'
  BY <1>0, <1>3, <1>4, FramesStay DEF Astray
<1>8. OwnDatagram'
  BY <1>0, <1>4, AnswersStay
<1> QED
  BY <1>6, <1>7, <1>8 DEF DatagramInv

LEMMA LockApart ==
  ASSUME DatagramInv, NEW c \in Callers, Lock(c)
  PROVE  DatagramInv'
<1>0. CallsInv /\ FramesInv /\ OwnDatagram
  BY DEF DatagramInv
<1>1. /\ DOMAIN at = Callers /\ DOMAIN call = Callers /\ DOMAIN answer = Callers
      /\ unsent \in [Callers -> Seq(Chunks)] /\ calls \in Nat
  BY <1>0 DEF CallsInv
<1>2. /\ at[c] \in {"sendrecv", "send_only"} /\ socket = Nobody /\ socket' = c
      /\ call' = call /\ unsent' = unsent /\ answer' = answer /\ net' = net
      /\ loose' = loose /\ displaced' = displaced /\ calls' = calls
  BY DEF Lock, history
<1>3. /\ DOMAIN at' = Callers
      /\ \A d \in Callers \ {c} : at'[d] = at[d]
      /\ at'[c] = "chunks" => unsent[c] # << >>
  BY <1>1, <1>2 DEF Lock
<1>4. Calling(c) /\ at[c] # "waiting"
  BY <1>2 DEF Calling
<1>5. CallsInv'
  BY <1>0, <1>1, <1>2, <1>3, <1>4, CallsStay
<1>6. FramesInv'
  BY <1>0, <1>2, <1>3, <1>4, FramesStay DEF Astray
<1>7. OwnDatagram'
  BY <1>0, <1>2, AnswersStay
<1> QED
  BY <1>5, <1>6, <1>7 DEF DatagramInv


(* While a caller has the socket and does not wait yet, no frame of its    *)
(* call is under way, unless the call is astray.                           *)
LEMMA NothingSentYet ==
  ASSUME CallsInv, FramesInv, NEW c \in Callers, HasSocket(c), at[c] # "waiting",
         NEW d \in net, Whole(d), d.number = call[c].number
  PROVE  d.number \in Astray
<1>1. SUFFICES ASSUME NEW e \in Callers, at[e] = "waiting", call[e].number = d.number
               PROVE  FALSE
  BY DEF FramesInv
<1>2. socket = c /\ socket = e
  BY <1>1 DEF CallsInv, HasSocket
<1> QED
  BY <1>1, <1>2

LEMMA SendFrameApart ==
  ASSUME DatagramInv, NEW c \in Callers, SendFrame(c)
  PROVE  DatagramInv'
<1>0. CallsInv /\ FramesInv /\ OwnDatagram
  BY DEF DatagramInv
<1> DEFINE n == call[c].number
           frame == Frame("server", n, call[c].request)
<1>1. /\ DOMAIN at = Callers /\ DOMAIN call = Callers /\ DOMAIN answer = Callers
      /\ unsent \in [Callers -> Seq(Chunks)] /\ calls \in Nat
  BY <1>0 DEF CallsInv
<1>2. /\ at[c] \in {"sendrecv!", "send_only!"} /\ net' = net \union {frame} /\ calls' = calls
      /\ frame.number = n
  BY DEF SendFrame, Frame
<1> HIDE DEF frame
<1>3. HasSocket(c) /\ Calling(c) /\ at[c] # "waiting"
  BY <1>2 DEF Calling, HasSocket
<1>4. CASE at[c] = "sendrecv!"
  <2>1. /\ at' = [at EXCEPT ![c] = "waiting"] /\ socket' = socket /\ call' = call
        /\ unsent' = unsent /\ answer' = answer /\ loose' = loose /\ displaced' = displaced
    BY <1>4 DEF SendFrame
  <2>2. DOMAIN at' = Callers /\ at'[c] = "waiting" /\ (\A d \in Callers \ {c} : at'[d] = at[d])
    BY <1>1, <2>1
  <2>3. HasSocket(c)' => socket' = c
    BY <1>0, <1>3, <2>1 DEF CallsInv
  <2>4. CallsInv'
    BY <1>0, <1>1, <1>2, <1>3, <2>1, <2>2, <2>3, CallsStay
  <2>5. \A d \in net : Whole(d) /\ d.number = n => d.number \in Astray
    BY <1>0, <1>3, NothingSentYet
  <2>6. ASSUME NEW d \in net', Whole(d), d.number \notin Astray'
        PROVE  \E e \in Callers : at'[e] = "waiting" /\ call'[e].number = d.number
    <3>1. CASE d = frame
      BY <1>2, <2>1, <2>2, <3>1
    <3>2. CASE d \in net
      <4>1. PICK e \in Callers : at[e] = "waiting" /\ call[e].number = d.number
        BY <1>0, <2>1, <2>6, <3>2 DEF FramesInv, Astray
      <4> QED
        BY <1>3, <2>1, <2>2, <4>1
    <3> QED
      BY <1>2, <2>6, <3>1, <3>2
  <2>7. ASSUME NEW d \in net', NEW e \in net', Whole(d), Whole(e), d.number = e.number,
               d.number \notin Astray'
        PROVE  d = e
    <3>1. CASE d \in net /\ e \in net
      BY <1>0, <2>1, <2>7, <3>1 DEF FramesInv, Astray
    <3>2. CASE d = frame \/ e = frame
      BY <1>2, <2>1, <2>5, <2>7, <3>2 DEF Astray
    <3> QED
      BY <1>2, <2>7, <3>1, <3>2
  <2>8. FramesInv'
    BY <2>6, <2>7 DEF FramesInv, Whole, IsChunk
  <2>9. OwnDatagram'
    BY <1>0, <2>1, AnswersStay
  <2> QED
    BY <2>4, <2>8, <2>9 DEF DatagramInv
<1>5. CASE at[c] = "send_only!"
  <2>1. /\ loose' = loose \union {n} /\ displaced' = displaced
        /\ Return(c, [code |-> "sent"])
    BY <1>5 DEF SendFrame
  <2>2. /\ CallsInv' /\ answer'[c] = [code |-> "sent"]
        /\ \A d \in Callers \ {c} :
             at'[d] = at[d] /\ call'[d] = call[d] /\ answer'[d] = answer[d]
    BY <1>0, <1>2, <1>3, <2>1, ReturnsApart
  <2>3. FramesInv'
    BY <1>0, <1>2, <1>3, <2>1, <2>2, FramesStay DEF Astray
  <2>4. OwnDatagram'
    BY <1>0, <2>1, <2>2, AnswersStay
  <2> QED
    BY <2>2, <2>3, <2>4 DEF DatagramInv
<1> QED
  BY <1>2, <1>4, <1>5

(* A call that fails before it waits leaves nothing under way.             *)
LEMMA FailsApart ==
  ASSUME DatagramInv, NEW c \in Callers, FrameFails(c) \/ SendChunkFails(c)
  PROVE  DatagramInv'
<1>0. CallsInv /\ FramesInv /\ OwnDatagram
  BY DEF DatagramInv
<1>1. /\ at[c] \in {"sendrecv!", "send_only!", "chunks"}
      /\ Return(c, [code |-> "SendFailed"])
      /\ calls' = calls /\ net' = net /\ loose' = loose /\ displaced' = displaced
  BY DEF FrameFails, SendChunkFails, history
<1>2. HasSocket(c) /\ at[c] # "waiting"
  BY <1>1 DEF HasSocket
<1>3. /\ CallsInv' /\ answer'[c] = [code |-> "SendFailed"]
      /\ \A d \in Callers \ {c} :
           at'[d] = at[d] /\ call'[d] = call[d] /\ answer'[d] = answer[d]
  BY <1>0, <1>1, <1>2, ReturnsApart
<1>4. FramesInv'
  BY <1>0, <1>1, <1>2, <1>3, FramesStay DEF Astray
<1>5. OwnDatagram'
  BY <1>0, <1>1, <1>3, AnswersStay
<1> QED
  BY <1>3, <1>4, <1>5 DEF DatagramInv

LEMMA SendChunkApart ==
  ASSUME DatagramInv, NEW c \in Callers, SendChunk(c)
  PROVE  DatagramInv'
<1>0. CallsInv /\ FramesInv /\ OwnDatagram
  BY DEF DatagramInv
<1> DEFINE piece == Piece(call[c].number, Head(unsent[c]))
<1>1. /\ DOMAIN at = Callers /\ DOMAIN call = Callers /\ DOMAIN answer = Callers
      /\ unsent \in [Callers -> Seq(Chunks)] /\ calls \in Nat
  BY <1>0 DEF CallsInv
<1>2. /\ at[c] = "chunks" /\ net' = net \union {piece}
      /\ unsent' = [unsent EXCEPT ![c] = Tail(@)]
      /\ at' = [at EXCEPT ![c] = IF Len(unsent[c]) = 1 THEN "waiting" ELSE "chunks"]
      /\ socket' = socket /\ call' = call /\ answer' = answer
      /\ loose' = loose /\ displaced' = displaced /\ calls' = calls
  BY DEF SendChunk, history
<1>3. HasSocket(c) /\ Calling(c) /\ socket = c
  BY <1>0, <1>2 DEF CallsInv, HasSocket, Calling
<1>4. unsent[c] \in Seq(Chunks) /\ unsent[c] # << >>
  BY <1>0, <1>2 DEF CallsInv
<1>5. /\ Head(unsent[c]) \in Chunks /\ Tail(unsent[c]) \in Seq(Chunks)
      /\ Len(unsent[c]) # 1 => Tail(unsent[c]) # << >>
  <2>1. ASSUME NEW s \in Seq(Chunks), s # << >>
        PROVE  /\ Head(s) \in Chunks /\ Tail(s) \in Seq(Chunks)
               /\ Len(Tail(s)) = Len(s) - 1 /\ Len(s) \in Nat
    BY <2>1
  <2>2. ASSUME Len(unsent[c]) # 1 PROVE Tail(unsent[c]) # << >>
    <3>1. Len(Tail(unsent[c])) # 0
      BY <1>4, <2>1, <2>2
    <3>2. Len(<< >>) = 0
      OBVIOUS
    <3> QED
      BY <3>1, <3>2, Zenon
  <2> QED
    BY <1>4, <2>1, <2>2
<1>6. /\ DOMAIN at' = Callers /\ unsent' \in [Callers -> Seq(Chunks)]
      /\ at'[c] = "chunks" => unsent'[c] # << >>
      /\ \A d \in Callers \ {c} : at'[d] = at[d] /\ unsent'[d] = unsent[d]
  BY <1>1, <1>2, <1>5
<1>7. CallsInv'
  BY <1>0, <1>1, <1>2, <1>3, <1>6, CallsStay
<1>8. ~Whole(piece)
  <2>1. "payload" \in DOMAIN Head(unsent[c])
    BY <1>5, ChunkHasPayload
  <2> QED
    BY <2>1 DEF Whole, IsChunk, Piece
<1> HIDE DEF piece
<1>9. FramesInv'
  BY <1>0, <1>2, <1>6, <1>8, FramesStay DEF Astray
<1>10. OwnDatagram'
  BY <1>0, <1>2, AnswersStay
<1> QED
  BY <1>7, <1>9, <1>10 DEF DatagramInv

LEMMA TimeoutApart ==
  ASSUME DatagramInv, NEW c \in Callers, Timeout(c)
  PROVE  DatagramInv'
<1>0. CallsInv /\ FramesInv /\ OwnDatagram
  BY DEF DatagramInv
<1>1. /\ at[c] = "waiting" /\ loose' = loose \union {call[c].number} /\ displaced' = displaced
      /\ Return(c, [code |-> "RecvFailed"])
      /\ calls' = calls /\ net' = net
  BY DEF Timeout
<1>2. HasSocket(c)
  BY <1>1 DEF HasSocket
<1>3. /\ CallsInv' /\ answer'[c] = [code |-> "RecvFailed"]
      /\ \A d \in Callers \ {c} :
           at'[d] = at[d] /\ call'[d] = call[d] /\ answer'[d] = answer[d]
  BY <1>0, <1>1, <1>2, ReturnsApart
<1>4. FramesInv'
  BY <1>0, <1>1, <1>3, FramesStay DEF Astray
<1>5. OwnDatagram'
  BY <1>0, <1>1, <1>3, AnswersStay
<1> QED
  BY <1>3, <1>4, <1>5 DEF DatagramInv

(* What a waiting caller receives is the answer to its own call, or to one *)
(* astray.  There is none of those before a call is loose.                 *)
LEMMA ReceiveApart ==
  ASSUME DatagramInv, NEW c \in Callers, NEW d \in net, NEW copied \in BOOLEAN,
         Receive(c, d, copied)
  PROVE  DatagramInv'
<1>0. CallsInv /\ FramesInv /\ OwnDatagram
  BY DEF DatagramInv
<1> DEFINE n == call[c].number
           what == [code |-> "ok", asked |-> n, answered |-> d.number]
<1>1. /\ at[c] = "waiting" /\ d.to = "proxy" /\ net' = Rest(d, copied)
      /\ loose' = loose \union (IF copied THEN {d.number} ELSE {})
      /\ displaced' = displaced \union ({n} \ {d.number})
      /\ Return(c, what) /\ calls' = calls
  BY DEF Receive
<1>2. HasSocket(c) /\ socket = c /\ Whole(d)
  BY <1>0, <1>1 DEF CallsInv, HasSocket, Whole
<1>3. /\ CallsInv' /\ answer'[c] = what
      /\ \A e \in Callers \ {c} :
           at'[e] = at[e] /\ call'[e] = call[e] /\ answer'[e] = answer[e]
  <2> HIDE DEF what
  <2> QED
    BY <1>0, <1>1, <1>2, ReturnsApart
<1>4. /\ net' \subseteq net /\ (~copied => d \notin net')
      /\ loose \subseteq loose' /\ displaced \subseteq displaced' /\ Astray \subseteq Astray'
  BY <1>1 DEF Rest, Astray
<1>5. d.number \in Astray \/ d.number = n
  <2>1. SUFFICES ASSUME NEW e \in Callers, at[e] = "waiting", call[e].number = d.number
                 PROVE  d.number = n
    BY <1>0, <1>2 DEF FramesInv
  <2>2. socket = e
    BY <1>0, <2>1 DEF CallsInv, HasSocket
  <2> QED
    BY <1>2, <2>1, <2>2
<1>6. ASSUME NEW e \in net', Whole(e), e.number = n, e.number \notin Astray'
      PROVE  FALSE
  <2>1. d.number = n /\ ~copied
    BY <1>1, <1>6 DEF Astray
  <2>2. e = d
    BY <1>0, <1>2, <1>4, <1>6, <2>1 DEF FramesInv
  <2> QED
    BY <1>4, <2>1, <2>2
<1>7. FramesInv'
  <2>1. \A e \in Callers : at[e] = "waiting" =>
          \/ at'[e] = "waiting" /\ call'[e].number = call[e].number
          \/ \A f \in net' : Whole(f) /\ f.number = call[e].number => f.number \in Astray'
    BY <1>3, <1>6
  <2> QED
    BY <1>0, <1>4, <2>1, FramesStay DEF Astray
<1>8. OwnDatagram'
  <2>1. what.asked = n /\ what.answered = d.number
    OBVIOUS
  <2> HIDE DEF what
  <2>2. answer'[c].answered \in Astray' \union {answer'[c].asked}
    BY <1>3, <1>4, <1>5, <2>1
  <2>3. displaced' = displaced \/ loose' # {}
    <3>1. CASE d.number = n
      BY <1>1, <3>1
    <3>2. CASE d.number \in Astray
      BY <1>0, <1>4, <3>2 DEF OwnDatagram, Astray
    <3> QED
      BY <1>5, <3>1, <3>2
  <2> QED
    BY <1>0, <1>3, <1>4, <2>2, <2>3, AnswersStay
<1> QED
  BY <1>3, <1>7, <1>8 DEF DatagramInv


-----------------------------------------------------------------------------
(* The server answers a frame with one of the same number, and a chunk     *)
(* with nothing.                                                           *)
LEMMA ServeFrameApart ==
  ASSUME DatagramInv, NEW d \in net, NEW copied \in BOOLEAN, ServeFrame(d, copied)
  PROVE  DatagramInv'
<1>0. CallsInv /\ FramesInv /\ OwnDatagram
  BY DEF DatagramInv
<1>1. /\ d.to = "server" /\ ~IsChunk(d)
      /\ loose' = IF copied THEN loose \union {d.number} ELSE loose
      /\ displaced' = displaced
      /\ at' = at /\ call' = call /\ answer' = answer /\ unsent' = unsent /\ socket' = socket
      /\ calls' = calls
  BY DEF ServeFrame
<1>2. PICK reply : net' = Rest(d, copied) \union Replies(d.number, reply)
  BY DEF ServeFrame
<1>3. Whole(d)
  BY <1>1 DEF Whole
<1>4. \A e \in net' : \/ e \in net /\ (e = d => copied)
                      \/ e = Frame("proxy", d.number, reply)
  BY <1>2 DEF Rest, Replies
<1> DEFINE frame == Frame("proxy", d.number, reply)
<1>5. frame.number = d.number
  BY DEF Frame
<1> HIDE DEF frame
<1>6. \A e \in net' : (e \in net /\ (e = d => copied)) \/ e = frame
  BY <1>4 DEF frame
<1>7. ASSUME NEW e \in net', Whole(e), e.number \notin Astray'
      PROVE  \E c \in Callers : at'[c] = "waiting" /\ call'[c].number = e.number
  <2>1. PICK f \in net : Whole(f) /\ f.number = e.number /\ f.number \notin Astray
    BY <1>1, <1>3, <1>5, <1>6, <1>7 DEF Astray
  <2> QED
    BY <1>0, <1>1, <2>1 DEF FramesInv
<1>8. ASSUME NEW e \in net', Whole(e), e.number \notin Astray', e.number = d.number
      PROVE  e = frame
  <2>1. ~copied
    BY <1>1, <1>8 DEF Astray
  <2>2. e \in net => e = d
    BY <1>0, <1>1, <1>3, <1>8 DEF FramesInv, Astray
  <2> QED
    BY <1>6, <2>1, <2>2
<1>9. ASSUME NEW e \in net', NEW f \in net', Whole(e), Whole(f), e.number = f.number,
             e.number \notin Astray'
      PROVE  e = f
  <2>1. CASE e.number = d.number
    BY <1>8, <1>9, <2>1
  <2>2. CASE e.number # d.number
    <3>1. e \in net /\ f \in net /\ e.number \notin Astray
      BY <1>1, <1>5, <1>6, <1>9, <2>2 DEF Astray
    <3> QED
      BY <1>0, <1>9, <3>1 DEF FramesInv
  <2> QED
    BY <2>1, <2>2
<1>10. FramesInv'
  BY <1>7, <1>9 DEF FramesInv, Whole, IsChunk
<1>11. CallsInv'
  BY <1>0, <1>1 DEF CallsInv, HasSocket, Calling
<1>12. OwnDatagram'
  BY <1>0, <1>1 DEF OwnDatagram
<1> QED
  BY <1>10, <1>11, <1>12 DEF DatagramInv

(* Steps that leave the calls alone and add no datagram.                   *)
LEMMA NothingAdded ==
  ASSUME DatagramInv, net' \subseteq net,
         UNCHANGED <<socket, at, call, unsent, answer, loose, displaced, calls>>
  PROVE  DatagramInv'
<1>1. CallsInv'
  BY DEF DatagramInv, CallsInv, HasSocket, Calling
<1>2. FramesInv'
  BY DEF DatagramInv, FramesInv, Whole, IsChunk, Astray
<1>3. OwnDatagram'
  BY DEF DatagramInv, OwnDatagram
<1> QED
  BY <1>1, <1>2, <1>3 DEF DatagramInv

(* The enum around the proxy: a caller that is not in a call blocks, gets  *)
(* the guard, or fails to bind.                                            *)
LEMMA EnumApart ==
  ASSUME DatagramInv, NEW c \in Callers, Block(c) \/ EnumLock(c) \/ EnumBind(c)
  PROVE  DatagramInv'
<1>0. CallsInv /\ FramesInv /\ OwnDatagram
  BY DEF DatagramInv
<1>1. /\ DOMAIN at = Callers /\ DOMAIN call = Callers /\ DOMAIN answer = Callers
      /\ unsent \in [Callers -> Seq(Chunks)] /\ calls \in Nat
  BY <1>0 DEF CallsInv
<1>2. /\ socket' = socket /\ call' = call /\ unsent' = unsent /\ answer' = answer
      /\ net' = net /\ loose' = loose /\ displaced' = displaced
      /\ calls' \in {calls, calls + 1}
      /\ \/ at' = at
         \/ at[c] \in {"idle", "blocked"} /\ \E place \in {"idle", "blocked"} :
              at' = [at EXCEPT ![c] = place]
  <2>1. CASE Block(c)
    BY <2>1 DEF Block, At, history
  <2>2. CASE EnumLock(c)
    BY <2>2 DEF EnumLock, At, Blocked, history
  <2>3. CASE EnumBind(c)
    BY <2>3 DEF EnumBind, history
  <2> QED
    BY <2>1, <2>2, <2>3
<1>3. /\ DOMAIN at' = Callers /\ calls' \in Nat /\ calls <= calls'
      /\ \A d \in Callers \ {c} : at'[d] = at[d]
      /\ at'[c] = at[c] \/ (at[c] \in {"idle", "blocked"} /\ at'[c] \in {"idle", "blocked"})
  BY <1>1, <1>2
<1>4. /\ ~Calling(c)' \/ (Calling(c) /\ call'[c] = call[c])
      /\ HasSocket(c)' => HasSocket(c)
      /\ at'[c] = "chunks" => at[c] = "chunks"
      /\ at[c] = "waiting" => at'[c] = "waiting"
  BY <1>2, <1>3 DEF Calling, HasSocket
<1>5. CallsInv'
  <2>1. HasSocket(c)' => socket' = c
    BY <1>0, <1>2, <1>4 DEF CallsInv
  <2>2. at'[c] = "chunks" => unsent'[c] # << >>
    BY <1>0, <1>2, <1>4 DEF CallsInv
  <2> QED
    BY <1>0, <1>1, <1>2, <1>3, <1>4, <2>1, <2>2, CallsStay
<1>6. FramesInv'
  BY <1>0, <1>2, <1>3, <1>4, FramesStay DEF Astray
<1>7. OwnDatagram'
  BY <1>0, <1>2, AnswersStay
<1> QED
  BY <1>5, <1>6, <1>7 DEF DatagramInv

LEMMA DatagramStep == DatagramInv /\ [Next]_vars => DatagramInv'
<1> SUFFICES ASSUME DatagramInv, [Next]_vars PROVE DatagramInv'
  OBVIOUS
<1>1. CASE UNCHANGED udpVars
  BY <1>1, NothingAdded DEF udpVars, history
<1>2. ASSUME NEW c \in Callers, UdpStep(c) PROVE DatagramInv'
  <2>1. CASE \E r \in RequestsOf[c], how \in {"sendrecv", "send_only"} : Call(c, r, how)
    BY <2>1, CallApart
  <2>2. CASE \E d \in net, copied \in BOOLEAN : Receive(c, d, copied)
    BY <2>2, ReceiveApart
  <2>3. CASE FrameFails(c) \/ SendChunkFails(c)
    BY <2>3, FailsApart
  <2> QED
    BY <1>2, <2>1, <2>2, <2>3, LockApart, SendFrameApart, SendChunkApart, TimeoutApart
       DEF UdpStep
<1>3. CASE UdpServerNext
  <2>1. ASSUME NEW d \in net, NEW copied \in BOOLEAN, ServeChunk(d, copied)
        PROVE  DatagramInv'
    <3>1. /\ net' \subseteq net
          /\ UNCHANGED <<socket, at, call, unsent, answer, loose, displaced, calls>>
      BY <2>1 DEF ServeChunk, Rest
    <3> QED
      BY <3>1, NothingAdded
  <2>2. CASE UdpServerStops
    BY <2>2, NothingAdded DEF UdpServerStops, history
  <2> QED
    BY <1>3, <2>1, <2>2, ServeFrameApart DEF UdpServerNext
<1>4. CASE Next
  <2>1. CASE \E name \in Asked, side \in {"client", "server", "proxy"} : CreateFor(name, side)
    BY <1>1, <2>1 DEF CreateFor
  <2>2. CASE \E c \in Callers : \/ Block(c) \/ EnumLock(c) \/ EnumBind(c)
                                \/ UdpStep(c) /\ Proxied(c)
    BY <1>2, <2>2, EnumApart
  <2>3. CASE UdpServerNext /\ InUdpServer
    BY <1>3, <2>3
  <2>4. CASE InPool \/ InTcpServer \/ InShutdown
    BY <1>1, <2>4 DEF InPool, InTcpServer, InShutdown
  <2> QED
    BY <1>4, <2>1, <2>2, <2>3, <2>4 DEF Next
<1> QED
  BY <1>1, <1>4 DEF vars

(* Callers that share the socket of a UdpProxy get the answers to their    *)
(* own calls, until one times out, sends only or has its datagrams         *)
(* doubled: from then on an answer may be that of such a call, or of one   *)
(* that itself took the answer of another.                                 *)
THEOREM OwnDatagramHolds == Spec => []OwnDatagram
<1>1. Init => DatagramInv
  BY DatagramInit DEF Init
<1>2. DatagramInv => OwnDatagram
  BY DEF DatagramInv
<1> QED
  BY <1>1, <1>2, DatagramStep, PTL DEF Spec

-----------------------------------------------------------------------------
(* The chunks of long requests.                                            *)

Cut(id, r) == ChunkMessage(id, Bytes(r), ChunkSize)

(* The chunks that a caller has still to send are the last ones of its     *)
(* message, and their id is that of no other message, unless it was given  *)
(* twice.                                                                  *)
SendingInv ==
  /\ \A id \in DOMAIN given : id \in Ids /\ given[id] \in Requests
  /\ \A c \in Callers : unsent[c] # << >> =>
       /\ at[c] \in {"sendrecv", "chunks"}
       /\ call[c].id \in DOMAIN given /\ call[c].request \in Requests
       /\ call[c].id \notin collided => call[c].request = given[call[c].id]
       /\ Len(unsent[c]) <= Total(call[c].request)
       /\ at[c] = "sendrecv" => Len(unsent[c]) = Total(call[c].request)
       /\ \A i \in 1..Len(unsent[c]) :
            /\ unsent[c][i].id = call[c].id
            /\ unsent[c][i].total = Total(call[c].request)
            /\ unsent[c][i].seq = Total(call[c].request) - Len(unsent[c]) + i - 1
            /\ unsent[c][i] = Cut(call[c].id, call[c].request)[unsent[c][i].seq + 1]
  /\ \A c, d \in Callers :
       /\ unsent[c] # << >> /\ unsent[d] # << >>
       /\ call[c].id = call[d].id /\ call[c].id \notin collided
       => c = d

(* A chunk belongs to the message its id was given to.                     *)
Fits(chunk) ==
  /\ chunk.id \in DOMAIN given
  /\ chunk.id \notin collided =>
       /\ chunk.total = Total(given[chunk.id]) /\ chunk.seq \in 0..(chunk.total - 1)
       /\ chunk = Cut(chunk.id, given[chunk.id])[chunk.seq + 1]

PiecesInv == \A d \in net : ~Whole(d) => Fits(d.body)

EntryFits(id) ==
  /\ id \in DOMAIN given
  /\ DOMAIN inflight[id] = {"total", "chunks"}
  /\ DOMAIN inflight[id].chunks # {}
  /\ ~IsComplete(inflight[id])
  /\ id \notin collided =>
       /\ inflight[id].total = Total(given[id])
       /\ DOMAIN inflight[id].chunks \subseteq 0..(Total(given[id]) - 1)
       /\ \A s \in DOMAIN inflight[id].chunks :
            inflight[id].chunks[s] = ParsedPayload(Cut(id, given[id])[s + 1])

EntriesInv == \A id \in DOMAIN inflight : EntryFits(id)

(* Where a chunk may be.                                                   *)
Arrived(id, s) == id \in DOMAIN inflight /\ s \in DOMAIN inflight[id].chunks
OnWay(id, s) == \E d \in net : ~Whole(d) /\ d.body.id = id /\ d.body.seq = s
ToCome(id, s) ==
  \E c \in Callers : /\ unsent[c] # << >> /\ call[c].id = id
                     /\ s >= Total(call[c].request) - Len(unsent[c])
Somewhere(id, s) == Arrived(id, s) \/ OnWay(id, s) \/ ToCome(id, s)

Seqs(id) == 0..(Total(given[id]) - 1)
Clean == DOMAIN given \ (collided \union broken)

(* Each chunk of a message whose id was given once, and that was neither   *)
(* cut off nor doubled, is in one place, or, when the message has been put *)
(* together, none is anywhere.                                             *)
Once(id) ==
  /\ \A d, e \in net :
       /\ ~Whole(d) /\ ~Whole(e)
       /\ d.body.id = id /\ e.body.id = id /\ d.body.seq = e.body.seq
       => d = e
  /\ \A s \in Seqs(id) :
       /\ ~(Arrived(id, s) /\ OnWay(id, s))
       /\ ~(Arrived(id, s) /\ ToCome(id, s))
       /\ ~(OnWay(id, s) /\ ToCome(id, s))
AllOrNone(id) ==
  (\E s \in Seqs(id) : Somewhere(id, s)) => \A s \in Seqs(id) : Somewhere(id, s)

PartsInv == \A id \in Clean : Once(id) /\ AllOrNone(id)

LeakInv == SendingInv /\ PiecesInv /\ EntriesInv /\ PartsInv

(* A message that was put together has the chunks of the one its id was    *)
(* given to, in their order.                                               *)
TrueTo(m) ==
  /\ m.id \in DOMAIN given
  /\ m.id \notin collided => m.data = Joined(Cut(m.id, given[m.id]))

AssembledInv ==
  /\ \A m \in assembled : TrueTo(m)
  /\ server = "panicked" => collided # {}

MessagesInv == DatagramInv /\ LeakInv /\ AssembledInv

LEMMA LeakInit == UdpInit => LeakInv
<1> SUFFICES ASSUME UdpInit PROVE LeakInv
  OBVIOUS
<1>1. /\ given = << >> /\ net = {} /\ inflight = << >> /\ \A c \in Callers : unsent[c] = << >>
  BY DEF UdpInit
<1>2. DOMAIN given = {} /\ DOMAIN inflight = {}
  BY <1>1
<1>3. SendingInv
  BY <1>1, <1>2 DEF SendingInv
<1>4. PiecesInv /\ EntriesInv /\ PartsInv
  BY <1>1, <1>2 DEF PiecesInv, EntriesInv, PartsInv, Clean
<1> QED
  BY <1>3, <1>4 DEF LeakInv

(* Steps that neither send, receive nor drop a chunk.                      *)
LEMMA PiecesStay ==
  ASSUME LeakInv,
         \A d : ~Whole(d) => (d \in net' <=> d \in net),
         UNCHANGED <<inflight, given, collided>>, broken \subseteq broken',
         \A c \in Callers :
           /\ unsent'[c] = unsent[c]
           /\ unsent[c] # << >> =>
                /\ call'[c] = call[c]
                /\ at'[c] = at[c] \/ at'[c] = "chunks"
  PROVE  LeakInv'
<1>1. /\ SendingInv /\ PiecesInv /\ EntriesInv /\ PartsInv
      /\ inflight' = inflight /\ given' = given /\ collided' = collided
  BY DEF LeakInv
<1>2. SendingInv'
  BY <1>1 DEF SendingInv
<1>3. PiecesInv'
  BY <1>1 DEF PiecesInv, Fits, Whole, IsChunk
<1>4. EntriesInv'
  BY <1>1 DEF EntriesInv, EntryFits
<1>5. ASSUME NEW id, NEW s
      PROVE  /\ Arrived(id, s)' <=> Arrived(id, s)
             /\ OnWay(id, s)' <=> OnWay(id, s)
             /\ ToCome(id, s)' <=> ToCome(id, s)
  <2>1. Arrived(id, s)' <=> Arrived(id, s)
    BY <1>1 DEF Arrived
  <2>2. OnWay(id, s)' <=> OnWay(id, s)
    BY DEF OnWay, Whole, IsChunk
  <2>3. ToCome(id, s)' <=> ToCome(id, s)
    BY DEF ToCome
  <2> QED
    BY <2>1, <2>2, <2>3
<1>6. ASSUME NEW id \in Clean' PROVE Once(id)' /\ AllOrNone(id)'
  <2>1. id \in Clean /\ Seqs(id)' = Seqs(id)
    BY <1>1 DEF Clean, Seqs
  <2>2. Once(id) /\ AllOrNone(id)
    BY <1>1, <2>1 DEF PartsInv
  <2>3. Once(id)'
    BY <1>5, <2>1, <2>2 DEF Once, Whole, IsChunk
  <2>4. AllOrNone(id)'
    BY <1>5, <2>1, <2>2 DEF AllOrNone, Somewhere
  <2> QED
    BY <2>3, <2>4
<1> QED
  BY <1>2, <1>3, <1>4, <1>6 DEF LeakInv, PartsInv


LEMMA CallLeaks ==
  ASSUME CallsInv, LeakInv, NEW c \in Callers, NEW r \in RequestsOf[c],
         NEW how \in {"sendrecv", "send_only"}, Call(c, r, how)
  PROVE  LeakInv'
<1>1. /\ SendingInv /\ PiecesInv /\ EntriesInv /\ PartsInv
      /\ DOMAIN at = Callers /\ DOMAIN call = Callers /\ DOMAIN unsent = Callers
  BY DEF LeakInv, CallsInv
<1>2. /\ at[c] = "idle" /\ at' = [at EXCEPT ![c] = how]
      /\ net' = net /\ inflight' = inflight /\ broken' = broken
      /\ r \in Requests
  BY DEF Call, Requests
<1>3. unsent[c] = << >>
  BY <1>1, <1>2 DEF SendingInv
<1>4. CASE ~(how = "sendrecv" /\ Chunked(r))
  <2>1. /\ unsent' = unsent /\ given' = given /\ collided' = collided
        /\ \A d \in Callers \ {c} : call'[d] = call[d] /\ at'[d] = at[d]
    BY <1>1, <1>2, <1>4 DEF Call
  <2> QED
    BY <1>2, <1>3, <2>1, PiecesStay
<1>5. CASE how = "sendrecv" /\ Chunked(r)
  <2>1. PICK id \in Ids :
          /\ call' = [call EXCEPT ![c] = [number |-> calls + 1, request |-> r, id |-> id]]
          /\ unsent' = [unsent EXCEPT ![c] = ChunkMessage(id, Bytes(r), ChunkSize)]
          /\ given' = IF id \in DOMAIN given THEN given
                      ELSE [i \in DOMAIN given \union {id} |-> IF i = id THEN r ELSE given[i]]
          /\ collided' = IF id \in DOMAIN given THEN collided \union {id} ELSE collided
    BY <1>5 DEF Call
  <2> DEFINE message == ChunkMessage(id, Bytes(r), ChunkSize)
  <2>2. /\ at'[c] = "sendrecv" /\ call'[c].id = id /\ call'[c].request = r
        /\ unsent'[c] = message
        /\ \A d \in Callers \ {c} : at'[d] = at[d] /\ call'[d] = call[d] /\ unsent'[d] = unsent[d]
    BY <1>1, <1>2, <1>5, <2>1
  <2>3. /\ Total(r) \in Nat \ {0} /\ Len(message) = Total(r)
        /\ \A i \in 1..Total(r) :
             message[i].id = id /\ message[i].total = Total(r) /\ message[i].seq = i - 1
        /\ message = Cut(id, r)
    BY <1>2, ChunksOfMessage DEF Cut
  <2> HIDE DEF message
  <2>4. /\ DOMAIN given' = DOMAIN given \union {id}
        /\ \A i \in DOMAIN given : given'[i] = given[i]
        /\ id \notin DOMAIN given => given'[id] = r
        /\ id \in DOMAIN given => id \in collided'
        /\ collided \subseteq collided'
        /\ \A i \in collided' : i = id \/ i \in collided
    BY <2>1
  <2>5. SendingInv'
    <3>1. \A i \in DOMAIN given' : i \in Ids /\ given'[i] \in Requests
      BY <1>1, <1>2, <2>4 DEF SendingInv
    <3>2. /\ at'[c] \in {"sendrecv", "chunks"}
          /\ call'[c].id \in DOMAIN given' /\ call'[c].request \in Requests
          /\ call'[c].id \notin collided' => call'[c].request = given'[call'[c].id]
      BY <1>2, <2>2, <2>4
    <3>3. /\ Len(unsent'[c]) = Total(call'[c].request)
          /\ Len(unsent'[c]) <= Total(call'[c].request)
          /\ \A i \in 1..Len(unsent'[c]) :
               /\ unsent'[c][i].id = call'[c].id
               /\ unsent'[c][i].total = Total(call'[c].request)
               /\ unsent'[c][i].seq = Total(call'[c].request) - Len(unsent'[c]) + i - 1
               /\ unsent'[c][i] = Cut(call'[c].id, call'[c].request)[unsent'[c][i].seq + 1]
      BY <2>2, <2>3
    <3>4. ASSUME NEW d \in Callers \ {c}, unsent'[d] # << >>
          PROVE  /\ at'[d] \in {"sendrecv", "chunks"}
                 /\ call'[d].id \in DOMAIN given /\ call'[d].id \in DOMAIN given'
                 /\ call'[d].request \in Requests
                 /\ call'[d].id \notin collided' => call'[d].request = given'[call'[d].id]
                 /\ Len(unsent'[d]) <= Total(call'[d].request)
                 /\ at'[d] = "sendrecv" => Len(unsent'[d]) = Total(call'[d].request)
                 /\ \A i \in 1..Len(unsent'[d]) :
                      /\ unsent'[d][i].id = call'[d].id
                      /\ unsent'[d][i].total = Total(call'[d].request)
                      /\ unsent'[d][i].seq = Total(call'[d].request) - Len(unsent'[d]) + i - 1
                      /\ unsent'[d][i] = Cut(call'[d].id, call'[d].request)[unsent'[d][i].seq + 1]
      <4>1. unsent[d] # << >> /\ call'[d] = call[d] /\ unsent'[d] = unsent[d] /\ at'[d] = at[d]
        BY <2>2, <3>4
      <4>2. call[d].id \in DOMAIN given
        BY <1>1, <4>1 DEF SendingInv
      <4> QED
        BY <1>1, <2>4, <4>1, <4>2 DEF SendingInv
    <3>5. ASSUME NEW d \in Callers, NEW e \in Callers, unsent'[d] # << >>, unsent'[e] # << >>,
                 call'[d].id = call'[e].id, call'[d].id \notin collided'
          PROVE  d = e
      <4>1. CASE d # c /\ e # c
        BY <1>1, <2>2, <2>4, <3>5, <4>1 DEF SendingInv
      <4>2. CASE d = c \/ e = c
        BY <2>2, <2>4, <3>4, <3>5, <4>2
      <4> QED
        BY <4>1, <4>2
    <3>6. ASSUME NEW d \in Callers, unsent'[d] # << >>
          PROVE  /\ at'[d] \in {"sendrecv", "chunks"}
                 /\ call'[d].id \in DOMAIN given' /\ call'[d].request \in Requests
                 /\ call'[d].id \notin collided' => call'[d].request = given'[call'[d].id]
                 /\ Len(unsent'[d]) <= Total(call'[d].request)
                 /\ at'[d] = "sendrecv" => Len(unsent'[d]) = Total(call'[d].request)
                 /\ \A i \in 1..Len(unsent'[d]) :
                      /\ unsent'[d][i].id = call'[d].id
                      /\ unsent'[d][i].total = Total(call'[d].request)
                      /\ unsent'[d][i].seq = Total(call'[d].request) - Len(unsent'[d]) + i - 1
                      /\ unsent'[d][i] = Cut(call'[d].id, call'[d].request)[unsent'[d][i].seq + 1]
      <4>1. CASE d = c
        BY <3>2, <3>3, <4>1
      <4>2. CASE d # c
        BY <3>4, <3>6, <4>2
      <4> QED
        BY <4>1, <4>2
    <3> QED
      BY <3>1, <3>5, <3>6 DEF SendingInv
  <2>6. PiecesInv'
    BY <1>1, <1>2, <2>4 DEF PiecesInv, Fits, Whole, IsChunk
  <2>7. EntriesInv'
    BY <1>1, <1>2, <2>4 DEF EntriesInv, EntryFits
  <2>8. ASSUME NEW x \in Clean', x # id PROVE Once(x)' /\ AllOrNone(x)'
    <3>1. x \in Clean /\ Seqs(x)' = Seqs(x)
      BY <1>2, <2>4, <2>8 DEF Clean, Seqs
    <3>2. Once(x) /\ AllOrNone(x)
      BY <1>1, <3>1 DEF PartsInv
    <3>3. \A s : /\ Arrived(x, s)' <=> Arrived(x, s)
                 /\ OnWay(x, s)' <=> OnWay(x, s)
                 /\ ToCome(x, s)' <=> ToCome(x, s)
      BY <1>2, <1>3, <2>2, <2>8 DEF Arrived, OnWay, ToCome, Whole, IsChunk
    <3>4. Once(x)'
      BY <1>2, <3>1, <3>2, <3>3 DEF Once, Whole, IsChunk
    <3>5. AllOrNone(x)'
      BY <3>1, <3>2, <3>3 DEF AllOrNone, Somewhere
    <3> QED
      BY <3>4, <3>5
  <2>9. ASSUME id \in Clean' PROVE Once(id)' /\ AllOrNone(id)'
    <3>1. id \notin DOMAIN given /\ Seqs(id)' = 0..(Total(r) - 1)
      BY <2>4, <2>9 DEF Clean, Seqs
    <3>2. /\ id \notin DOMAIN inflight'
          /\ \A d \in net' : ~Whole(d) => d.body.id # id
      BY <1>1, <1>2, <3>1 DEF EntriesInv, EntryFits, PiecesInv, Fits
    <3>3. \A s : ~Arrived(id, s)' /\ ~OnWay(id, s)'
      BY <3>2 DEF Arrived, OnWay, Whole, IsChunk
    <3>4. unsent'[c] # << >>
      <4>1. Len(<< >>) = 0
        OBVIOUS
      <4> QED
        BY <2>2, <2>3, <4>1
    <3>5. \A s \in 0..(Total(r) - 1) : ToCome(id, s)'
      BY <2>2, <2>3, <3>4 DEF ToCome
    <3>6. Once(id)'
      BY <3>2, <3>3 DEF Once, Whole, IsChunk
    <3>7. AllOrNone(id)'
      BY <3>1, <3>5 DEF AllOrNone, Somewhere
    <3> QED
      BY <3>6, <3>7
  <2> QED
    BY <2>5, <2>6, <2>7, <2>8, <2>9 DEF LeakInv, PartsInv
<1> QED
  BY <1>4, <1>5

(* A message that is cut off is a broken one.                              *)
LEMMA CutOffLeaks ==
  ASSUME CallsInv, LeakInv, NEW c \in Callers, SendChunkFails(c)
  PROVE  LeakInv'
<1>1. /\ SendingInv /\ PiecesInv /\ EntriesInv /\ PartsInv
      /\ DOMAIN at = Callers /\ DOMAIN call = Callers /\ DOMAIN unsent = Callers
  BY DEF LeakInv, CallsInv
<1>2. /\ net' = net /\ inflight' = inflight /\ given' = given /\ collided' = collided
      /\ broken' = broken \union {call[c].id}
      /\ unsent'[c] = << >>
      /\ \A d \in Callers \ {c} : at'[d] = at[d] /\ call'[d] = call[d] /\ unsent'[d] = unsent[d]
  BY <1>1 DEF SendChunkFails, Return
<1>3. SendingInv'
  <2>1. \A d \in Callers : unsent'[d] # << >> =>
          /\ unsent[d] # << >>
          /\ at'[d] = at[d] /\ call'[d] = call[d] /\ unsent'[d] = unsent[d]
    BY <1>2
  <2>2. \A d, e \in Callers :
          /\ unsent'[d] # << >> /\ unsent'[e] # << >>
          /\ call'[d].id = call'[e].id /\ call'[d].id \notin collided'
          => d = e
    BY <1>1, <1>2, <2>1 DEF SendingInv
  <2> QED
    BY <1>1, <1>2, <2>1, <2>2 DEF SendingInv
<1>4. PiecesInv'
  BY <1>1, <1>2 DEF PiecesInv, Fits, Whole, IsChunk
<1>5. EntriesInv'
  BY <1>1, <1>2 DEF EntriesInv, EntryFits
<1>6. ASSUME NEW x \in Clean' PROVE Once(x)' /\ AllOrNone(x)'
  <2>1. x \in Clean /\ x # call[c].id /\ Seqs(x)' = Seqs(x)
    BY <1>2, <1>6 DEF Clean, Seqs
  <2>2. Once(x) /\ AllOrNone(x)
    BY <1>1, <2>1 DEF PartsInv
  <2>3. \A s : /\ Arrived(x, s)' <=> Arrived(x, s)
               /\ OnWay(x, s)' <=> OnWay(x, s)
               /\ ToCome(x, s)' <=> ToCome(x, s)
    BY <1>2, <2>1 DEF Arrived, OnWay, ToCome, Whole, IsChunk
  <2>4. Once(x)'
    BY <1>2, <2>1, <2>2, <2>3 DEF Once, Whole, IsChunk
  <2>5. AllOrNone(x)'
    BY <2>1, <2>2, <2>3 DEF AllOrNone, Somewhere
  <2> QED
    BY <2>4, <2>5
<1> QED
  BY <1>3, <1>4, <1>5, <1>6 DEF LeakInv, PartsInv


LEMMA SendChunkLeaks ==
  ASSUME CallsInv, LeakInv, NEW c \in Callers, SendChunk(c)
  PROVE  LeakInv'
<1>0. PICK id : id = call[c].id
  OBVIOUS
<1> DEFINE r == call[c].request
           first == Total(r) - Len(unsent[c])
           piece == Piece(call[c].number, Head(unsent[c]))
<1>1. /\ SendingInv /\ PiecesInv /\ EntriesInv /\ PartsInv
      /\ DOMAIN at = Callers /\ DOMAIN call = Callers
      /\ unsent \in [Callers -> Seq(Chunks)]
  BY DEF LeakInv, CallsInv
<1>2. /\ at[c] = "chunks" /\ net' = net \union {piece}
      /\ unsent' = [unsent EXCEPT ![c] = Tail(@)]
      /\ at' = [at EXCEPT ![c] = IF Len(unsent[c]) = 1 THEN "waiting" ELSE "chunks"]
      /\ call' = call /\ inflight' = inflight /\ given' = given
      /\ collided' = collided /\ broken' = broken
  BY DEF SendChunk, history
<1>3. unsent[c] \in Seq(Chunks) /\ unsent[c] # << >>
  BY <1>1, <1>2 DEF CallsInv
<1>4. ASSUME NEW s \in Seq(Chunks), s # << >>
      PROVE  /\ Len(s) \in Nat \ {0} /\ Head(s) = s[1] /\ s[1] \in Chunks
             /\ Tail(s) \in Seq(Chunks) /\ Len(Tail(s)) = Len(s) - 1
             /\ \A i \in 1..Len(s) - 1 : Tail(s)[i] = s[i + 1]
  BY <1>4
<1>5. ASSUME NEW s \in Seq(Chunks) PROVE s = << >> <=> Len(s) = 0
  BY <1>5
<1>6. /\ id \in DOMAIN given /\ r \in Requests
      /\ id \notin collided => r = given[id]
      /\ Len(unsent[c]) <= Total(r)
      /\ \A i \in 1..Len(unsent[c]) :
           /\ unsent[c][i].id = id /\ unsent[c][i].total = Total(r)
           /\ unsent[c][i].seq = first + i - 1
           /\ unsent[c][i] = Cut(id, r)[unsent[c][i].seq + 1]
  BY <1>0, <1>1, <1>3 DEF SendingInv
<1>7. Total(r) \in Nat \ {0}
  <2>1. id \in Ids
    BY <1>1, <1>6 DEF SendingInv
  <2> QED
    BY <1>6, <2>1, ChunksOfMessage
<1>8. Len(unsent[c]) \in 1..Total(r) /\ first \in 0..(Total(r) - 1)
  BY <1>3, <1>4, <1>6, <1>7
<1>9. /\ Head(unsent[c]).id = id /\ Head(unsent[c]).total = Total(r)
      /\ Head(unsent[c]).seq = first
      /\ Head(unsent[c]) = Cut(id, r)[first + 1]
      /\ "payload" \in DOMAIN Head(unsent[c])
  BY <1>3, <1>4, <1>6, <1>8, ChunkHasPayload
<1>10. /\ ~Whole(piece) /\ piece.body.id = id /\ piece.body.seq = first
       /\ piece.body.total = Total(r) /\ piece.body = Cut(id, r)[first + 1]
  BY <1>9 DEF Whole, IsChunk, Piece
<1> HIDE DEF piece
<1>11. /\ unsent'[c] = Tail(unsent[c])
       /\ Len(unsent'[c]) = Len(unsent[c]) - 1
       /\ unsent'[c] # << >> => at'[c] = "chunks" /\ Len(unsent[c]) # 1
       /\ \A d \in Callers \ {c} : at'[d] = at[d] /\ unsent'[d] = unsent[d]
  <2>1. unsent'[c] = Tail(unsent[c]) /\ Tail(unsent[c]) \in Seq(Chunks)
        /\ Len(Tail(unsent[c])) = Len(unsent[c]) - 1
    BY <1>1, <1>2, <1>3, <1>4
  <2>2. unsent'[c] # << >> => Len(unsent[c]) # 1
    <3>1. Len(unsent[c]) = 1 => Len(Tail(unsent[c])) = 0
      BY <2>1
    <3> QED
      BY <1>5, <2>1, <3>1, Zenon
  <2> QED
    BY <1>1, <1>2, <2>1, <2>2
<1>12. SendingInv'
  <2>1. ASSUME unsent'[c] # << >>
        PROVE  /\ at'[c] = "chunks"
               /\ Len(unsent'[c]) <= Total(r)
               /\ \A i \in 1..Len(unsent'[c]) :
                    /\ unsent'[c][i].id = id /\ unsent'[c][i].total = Total(r)
                    /\ unsent'[c][i].seq = Total(r) - Len(unsent'[c]) + i - 1
                    /\ unsent'[c][i] = Cut(id, r)[unsent'[c][i].seq + 1]
    <3>1. ASSUME NEW i \in 1..Len(unsent'[c])
          PROVE  /\ unsent'[c][i].id = id /\ unsent'[c][i].total = Total(r)
                 /\ unsent'[c][i].seq = Total(r) - Len(unsent'[c]) + i - 1
                 /\ unsent'[c][i] = Cut(id, r)[unsent'[c][i].seq + 1]
      <4>1. unsent'[c][i] = unsent[c][i + 1] /\ i + 1 \in 1..Len(unsent[c])
        BY <1>3, <1>4, <1>8, <1>11
      <4> QED
        BY <1>6, <1>7, <1>8, <1>11, <4>1
    <3> QED
      BY <1>7, <1>8, <1>11, <2>1, <3>1
  <2>2. \A d \in Callers : unsent'[d] # << >> => unsent[d] # << >>
    BY <1>3, <1>11
  <2>3. \A d, e \in Callers :
          /\ unsent'[d] # << >> /\ unsent'[e] # << >>
          /\ call'[d].id = call'[e].id /\ call'[d].id \notin collided'
          => d = e
    BY <1>1, <1>2, <2>2 DEF SendingInv
  <2>4. ASSUME NEW d \in Callers \ {c}, unsent'[d] # << >>
        PROVE  /\ at'[d] \in {"sendrecv", "chunks"}
               /\ call'[d].id \in DOMAIN given' /\ call'[d].request \in Requests
               /\ call'[d].id \notin collided' => call'[d].request = given'[call'[d].id]
               /\ Len(unsent'[d]) <= Total(call'[d].request)
               /\ at'[d] = "sendrecv" => Len(unsent'[d]) = Total(call'[d].request)
               /\ \A i \in 1..Len(unsent'[d]) :
                    /\ unsent'[d][i].id = call'[d].id
                    /\ unsent'[d][i].total = Total(call'[d].request)
                    /\ unsent'[d][i].seq = Total(call'[d].request) - Len(unsent'[d]) + i - 1
                    /\ unsent'[d][i] = Cut(call'[d].id, call'[d].request)[unsent'[d][i].seq + 1]
    BY <1>1, <1>2, <1>11, <2>4 DEF SendingInv
  <2>5. ASSUME unsent'[c] # << >>
        PROVE  /\ at'[c] \in {"sendrecv", "chunks"}
               /\ call'[c].id \in DOMAIN given' /\ call'[c].request \in Requests
               /\ call'[c].id \notin collided' => call'[c].request = given'[call'[c].id]
               /\ Len(unsent'[c]) <= Total(call'[c].request)
               /\ at'[c] = "sendrecv" => Len(unsent'[c]) = Total(call'[c].request)
               /\ \A i \in 1..Len(unsent'[c]) :
                    /\ unsent'[c][i].id = call'[c].id
                    /\ unsent'[c][i].total = Total(call'[c].request)
                    /\ unsent'[c][i].seq = Total(call'[c].request) - Len(unsent'[c]) + i - 1
                    /\ unsent'[c][i] = Cut(call'[c].id, call'[c].request)[unsent'[c][i].seq + 1]
    BY <1>0, <1>2, <1>6, <2>1, <2>5
  <2>6. \A i \in DOMAIN given' : i \in Ids /\ given'[i] \in Requests
    BY <1>1, <1>2 DEF SendingInv
  <2> QED
    BY <2>3, <2>4, <2>5, <2>6 DEF SendingInv
<1>13. PiecesInv'
  <2>1. Fits(piece.body)
    BY <1>6, <1>8, <1>10 DEF Fits
  <2> QED
    BY <1>1, <1>2, <2>1 DEF PiecesInv, Fits, Whole, IsChunk
<1>14. EntriesInv'
  BY <1>1, <1>2 DEF EntriesInv, EntryFits
<1>15. ASSUME NEW x \in Clean', x # id PROVE Once(x)' /\ AllOrNone(x)'
  <2>1. x \in Clean /\ Seqs(x)' = Seqs(x)
    BY <1>2, <1>15 DEF Clean, Seqs
  <2>2. Once(x) /\ AllOrNone(x)
    BY <1>1, <2>1 DEF PartsInv
  <2>3. \A s : /\ Arrived(x, s)' <=> Arrived(x, s)
               /\ OnWay(x, s)' <=> OnWay(x, s)
               /\ ToCome(x, s)' <=> ToCome(x, s)
    BY <1>0, <1>2, <1>10, <1>11, <1>15 DEF Arrived, OnWay, ToCome, Whole, IsChunk
  <2>4. Once(x)'
    BY <1>2, <1>10, <1>15, <2>1, <2>2, <2>3 DEF Once, Whole, IsChunk
  <2>5. AllOrNone(x)'
    BY <2>1, <2>2, <2>3 DEF AllOrNone, Somewhere
  <2> QED
    BY <2>4, <2>5
<1>16. ASSUME id \in Clean' PROVE Once(id)' /\ AllOrNone(id)'
  <2>1. /\ id \in Clean /\ id \notin collided /\ r = given[id]
        /\ Seqs(id) = 0..(Total(r) - 1) /\ Seqs(id)' = 0..(Total(r) - 1)
    BY <1>2, <1>6, <1>16 DEF Clean, Seqs
  <2>2. Once(id) /\ AllOrNone(id)
    BY <1>1, <2>1 DEF PartsInv
  <2>3. \A d \in Callers \ {c} : unsent[d] # << >> => call[d].id # id
    BY <1>0, <1>1, <1>3, <2>1 DEF SendingInv
  <2>4. ASSUME NEW s \in 0..(Total(r) - 1)
        PROVE  /\ Arrived(id, s)' <=> Arrived(id, s)
               /\ OnWay(id, s)' <=> OnWay(id, s) \/ s = first
               /\ ToCome(id, s) <=> s >= first
               /\ ToCome(id, s)' <=> s > first
    <3>1. Arrived(id, s)' <=> Arrived(id, s)
      BY <1>2 DEF Arrived
    <3>2. OnWay(id, s)' <=> OnWay(id, s) \/ s = first
      BY <1>2, <1>10 DEF OnWay, Whole, IsChunk
    <3>3. ToCome(id, s) <=> s >= first
      BY <1>0, <1>3, <2>3 DEF ToCome
    <3>4. ToCome(id, s)' <=> unsent'[c] # << >> /\ s >= Total(r) - Len(unsent'[c])
      BY <1>0, <1>2, <1>11, <2>3 DEF ToCome
    <3>5. Total(r) - Len(unsent'[c]) = first + 1
      BY <1>7, <1>8, <1>11
    <3>6. s > first => unsent'[c] # << >>
      <4>1. unsent'[c] \in Seq(Chunks)
        BY <1>3, <1>4, <1>11
      <4>2. s > first => Len(unsent[c]) # 1
        <5>1. ASSUME NEW t \in Nat, NEW l \in Nat, NEW n \in 0..(t - 1), n > t - l
              PROVE  l # 1
          BY <5>1
        <5> QED
          BY <1>7, <1>8, <2>4, <5>1
      <4>3. Len(unsent[c]) # 1 => Len(unsent'[c]) # 0
        BY <1>8, <1>11
      <4> QED
        BY <1>5, <4>1, <4>2, <4>3, Zenon
    <3> QED
      BY <1>8, <3>1, <3>2, <3>3, <3>4, <3>5, <3>6
  <2>5. ~OnWay(id, first) /\ ~Arrived(id, first)
    BY <1>8, <2>1, <2>2, <2>4 DEF Once
  <2>6. \A d \in net : ~Whole(d) /\ d.body.id = id => d.body.seq # first
    BY <2>5 DEF OnWay
  <2>7. \A d, e \in net' :
          /\ ~Whole(d) /\ ~Whole(e)
          /\ d.body.id = id /\ e.body.id = id /\ d.body.seq = e.body.seq
          => d = e
    BY <1>2, <1>10, <2>2, <2>6 DEF Once
  <2>8. ASSUME NEW s \in 0..(Total(r) - 1)
        PROVE  /\ ~(Arrived(id, s)' /\ OnWay(id, s)')
               /\ ~(Arrived(id, s)' /\ ToCome(id, s)')
               /\ ~(OnWay(id, s)' /\ ToCome(id, s)')
               /\ Somewhere(id, s)' <=> Somewhere(id, s)
    <3>1. s > first => s >= first /\ s # first
      BY <1>8
    <3>2. s >= first => s > first \/ s = first
      BY <1>8
    <3>3. /\ ~(Arrived(id, s) /\ OnWay(id, s))
          /\ ~(Arrived(id, s) /\ ToCome(id, s))
          /\ ~(OnWay(id, s) /\ ToCome(id, s))
      BY <2>1, <2>2 DEF Once
    <3>4. s = first => ToCome(id, s)
      BY <1>8, <2>4
    <3> QED
      BY <2>4, <2>5, <3>1, <3>2, <3>3, <3>4 DEF Somewhere
  <2>9. Once(id)'
    BY <2>1, <2>7, <2>8 DEF Once, Whole, IsChunk
  <2>10. AllOrNone(id)'
    BY <2>1, <2>2, <2>8 DEF AllOrNone
  <2> QED
    BY <2>9, <2>10
<1> QED
  BY <1>12, <1>13, <1>14, <1>15, <1>16 DEF LeakInv, PartsInv


(* The entry of an id with one more chunk, and the reassemblers with it.   *)
EntryWith(id, chunk, entry) ==
  /\ DOMAIN entry = {"total", "chunks"}
  /\ entry.total = IF id \in DOMAIN inflight THEN inflight[id].total ELSE chunk.total
  /\ DOMAIN entry.chunks =
       (IF id \in DOMAIN inflight THEN DOMAIN inflight[id].chunks ELSE {}) \union {chunk.seq}
  /\ \A s \in DOMAIN entry.chunks :
       entry.chunks[s] = IF s = chunk.seq THEN ParsedPayload(chunk) ELSE inflight[id].chunks[s]

InflightWith(id, entry, after) ==
  /\ DOMAIN after = IF IsComplete(entry) THEN DOMAIN inflight \ {id}
                    ELSE DOMAIN inflight \union {id}
  /\ ~IsComplete(entry) => after[id] = entry
  /\ \A x \in DOMAIN inflight \ {id} : after[x] = inflight[x]

LEMMA ReceivedFacts ==
  ASSUME EntriesInv, NEW chunk
  PROVE  /\ EntryWith(chunk.id, chunk, Inserted(inflight, chunk))
         /\ InflightWith(chunk.id, Inserted(inflight, chunk), Received(inflight, chunk))
<1>0. PICK entry : entry = Inserted(inflight, chunk)
  OBVIOUS
<1> DEFINE before == IF chunk.id \in DOMAIN inflight THEN inflight[chunk.id]
                     ELSE [total |-> chunk.total, chunks |-> << >>]
           with == [s \in DOMAIN before.chunks \union {chunk.seq} |->
                      IF s = chunk.seq THEN ParsedPayload(chunk) ELSE before.chunks[s]]
<1>1. entry = [before EXCEPT !.chunks = with]
  BY <1>0 DEF Inserted
<1>2. /\ DOMAIN before = {"total", "chunks"}
      /\ before.total = IF chunk.id \in DOMAIN inflight THEN inflight[chunk.id].total
                        ELSE chunk.total
      /\ DOMAIN before.chunks =
           IF chunk.id \in DOMAIN inflight THEN DOMAIN inflight[chunk.id].chunks ELSE {}
      /\ chunk.id \in DOMAIN inflight => before.chunks = inflight[chunk.id].chunks
  <2>1. DOMAIN << >> = {}
    OBVIOUS
  <2>2. CASE chunk.id \in DOMAIN inflight
    BY <2>2 DEF EntriesInv, EntryFits
  <2>3. CASE chunk.id \notin DOMAIN inflight
    BY <2>1, <2>3
  <2> QED
    BY <2>2, <2>3
<1>3. /\ DOMAIN with = DOMAIN before.chunks \union {chunk.seq}
      /\ \A s \in DOMAIN with :
           with[s] = IF s = chunk.seq THEN ParsedPayload(chunk) ELSE before.chunks[s]
  OBVIOUS
<1> HIDE DEF before, with
<1>4. DOMAIN entry = {"total", "chunks"} /\ entry.total = before.total /\ entry.chunks = with
  BY <1>1, <1>2
<1> DEFINE others == [i \in DOMAIN inflight \ {chunk.id} |-> inflight[i]]
<1>5. Received(inflight, chunk) =
        IF IsComplete(entry) THEN others
        ELSE [i \in DOMAIN others \union {chunk.id} |->
                IF i = chunk.id THEN entry ELSE others[i]]
  BY <1>0 DEF Received
<1>6. DOMAIN others = DOMAIN inflight \ {chunk.id}
      /\ \A i \in DOMAIN inflight \ {chunk.id} : others[i] = inflight[i]
  OBVIOUS
<1> HIDE DEF others
<1>7. EntryWith(chunk.id, chunk, entry)
  BY <1>2, <1>3, <1>4 DEF EntryWith
<1>8. InflightWith(chunk.id, entry, Received(inflight, chunk))
  <2>1. CASE IsComplete(entry)
    BY <1>5, <1>6, <2>1 DEF InflightWith
  <2>2. CASE ~IsComplete(entry)
    BY <1>5, <1>6, <2>2 DEF InflightWith
  <2> QED
    BY <2>1, <2>2
<1> QED
  BY <1>0, <1>7, <1>8

(* A complete reassembler has all the chunks of its message.               *)
LEMMA CompleteHasAll ==
  ASSUME NEW entry, NEW n \in Nat, entry.total = n, DOMAIN entry.chunks \subseteq 0..(n - 1)
  PROVE  IsComplete(entry) <=> DOMAIN entry.chunks = 0..(n - 1)
<1>1. IsFiniteSet(0..(n - 1)) /\ Cardinality(0..(n - 1)) = n
  <2>1. IsFiniteSet(0..(n - 1))
        /\ Cardinality(0..(n - 1)) = IF 0 > n - 1 THEN 0 ELSE n - 1 - 0 + 1
    BY FS_Interval
  <2> QED
    BY <2>1
<1>2. Cardinality(DOMAIN entry.chunks) = n => DOMAIN entry.chunks = 0..(n - 1)
  BY <1>1, FS_Subset
<1> QED
  BY <1>1, <1>2 DEF IsComplete


LEMMA ServeChunkLeaks ==
  ASSUME LeakInv, NEW d \in net, NEW copied \in BOOLEAN, ServeChunk(d, copied)
  PROVE  /\ LeakInv' /\ given' = given /\ collided' = collided
         /\ server' = "panicked" => server = "panicked" \/ collided # {}
         /\ \A m \in assembled' : m \in assembled \/ TrueTo(m)
<1> DEFINE chunk == d.body
<1>0. PICK id : id = d.body.id
  OBVIOUS
<1>1. /\ SendingInv /\ PiecesInv /\ EntriesInv /\ PartsInv
  BY DEF LeakInv
<1>2. PICK entry : entry = Inserted(inflight, chunk)
  OBVIOUS
<1>3. /\ ~Whole(d) /\ inflight' = Received(inflight, chunk)
      /\ net' = Rest(d, copied)
      /\ unsent' = unsent /\ at' = at /\ call' = call /\ given' = given /\ collided' = collided
      /\ broken' = IF copied THEN broken \union {id} ELSE broken
      /\ server' = IF IsComplete(entry) /\ LacksChunk(entry) THEN "panicked" ELSE server
  BY <1>0, <1>2 DEF ServeChunk, Delivered, Whole
<1>4. Fits(chunk)
  BY <1>1, <1>3 DEF PiecesInv
<1>5. id \in DOMAIN given /\ Total(given[id]) \in Nat \ {0}
  BY <1>0, <1>1, <1>4, ChunksOfMessage DEF Fits, SendingInv
<1>6. EntryWith(id, chunk, entry) /\ InflightWith(id, entry, inflight')
  <2>1. EntryWith(chunk.id, chunk, Inserted(inflight, chunk))
        /\ InflightWith(chunk.id, Inserted(inflight, chunk), Received(inflight, chunk))
    BY <1>1, ReceivedFacts
  <2> QED
    BY <1>0, <1>2, <1>3, <2>1
<1>7. id \notin collided =>
        /\ entry.total = Total(given[id])
        /\ chunk.seq \in Seqs(id)
        /\ DOMAIN entry.chunks \subseteq 0..(Total(given[id]) - 1)
        /\ \A s \in DOMAIN entry.chunks :
             entry.chunks[s] = ParsedPayload(Cut(id, given[id])[s + 1])
  <2>1. SUFFICES ASSUME id \notin collided
                 PROVE  /\ entry.total = Total(given[id])
                        /\ chunk.seq \in Seqs(id)
                        /\ DOMAIN entry.chunks \subseteq 0..(Total(given[id]) - 1)
                        /\ \A s \in DOMAIN entry.chunks :
                             entry.chunks[s] = ParsedPayload(Cut(id, given[id])[s + 1])
    OBVIOUS
  <2>2. /\ chunk.total = Total(given[id]) /\ chunk.seq \in 0..(Total(given[id]) - 1)
        /\ chunk = Cut(id, given[id])[chunk.seq + 1]
    BY <1>0, <1>4, <2>1 DEF Fits
  <2>3. id \in DOMAIN inflight =>
          /\ inflight[id].total = Total(given[id])
          /\ DOMAIN inflight[id].chunks \subseteq 0..(Total(given[id]) - 1)
          /\ \A s \in DOMAIN inflight[id].chunks :
               inflight[id].chunks[s] = ParsedPayload(Cut(id, given[id])[s + 1])
    BY <1>1, <2>1 DEF EntriesInv, EntryFits
  <2>4. /\ entry.total = Total(given[id])
        /\ chunk.seq \in Seqs(id)
        /\ DOMAIN entry.chunks \subseteq 0..(Total(given[id]) - 1)
    BY <1>6, <2>2, <2>3 DEF Seqs, EntryWith
  <2>5. ASSUME NEW s \in DOMAIN entry.chunks
        PROVE  entry.chunks[s] = ParsedPayload(Cut(id, given[id])[s + 1])
    <3>1. CASE s = chunk.seq
      <4>1. entry.chunks[s] = ParsedPayload(chunk) /\ chunk = Cut(id, given[id])[s + 1]
        BY <1>6, <2>2, <2>5, <3>1 DEF EntryWith
      <4> QED
        BY <4>1
    <3>2. CASE s # chunk.seq
      BY <1>6, <2>3, <2>5, <3>2 DEF EntryWith
    <3> QED
      BY <3>1, <3>2
  <2> QED
    BY <2>4, <2>5
<1>8. id \notin collided => (IsComplete(entry) <=> DOMAIN entry.chunks = 0..(Total(given[id]) - 1))
  BY <1>5, <1>7, CompleteHasAll
<1>9. server' = "panicked" => server = "panicked" \/ collided # {}
  <2>1. ASSUME id \notin collided PROVE ~(IsComplete(entry) /\ LacksChunk(entry))
    BY <1>7, <1>8, <2>1 DEF LacksChunk
  <2> QED
    BY <1>3, <2>1
<1>16. ASSUME NEW m \in assembled', m \notin assembled PROVE TrueTo(m)
  <2>1. IsComplete(entry) /\ m = [id |-> id, data |-> Reassembled(entry)]
    BY <1>0, <1>2, <1>16 DEF ServeChunk
  <2>2. SUFFICES ASSUME id \notin collided PROVE m.data = Joined(Cut(id, given[id]))
    BY <1>5, <2>1 DEF TrueTo
  <2>3. Len(Cut(id, given[id])) = Total(given[id])
    BY <1>1, <1>5, ChunksOfMessage DEF Cut, SendingInv
  <2>4. ASSUME NEW i \in 1..Total(given[id])
        PROVE  entry.chunks[i - 1] = ParsedPayload(Cut(id, given[id])[i])
    <3>1. i - 1 \in 0..(Total(given[id]) - 1) /\ i - 1 + 1 = i
      BY <1>5
    <3>2. i - 1 \in DOMAIN entry.chunks
      BY <1>8, <2>1, <2>2, <3>1
    <3>3. entry.chunks[i - 1] = ParsedPayload(Cut(id, given[id])[i - 1 + 1])
      BY <1>7, <2>2, <3>2
    <3> QED
      BY <3>1, <3>3
  <2>5. [i \in 1..entry.total |-> entry.chunks[i - 1]]
          = [i \in 1..Total(given[id]) |-> ParsedPayload(Cut(id, given[id])[i])]
    BY <1>7, <2>2, <2>4
  <2> QED
    BY <2>1, <2>3, <2>5 DEF Reassembled, Joined
<1>10. SendingInv'
  BY <1>1, <1>3 DEF SendingInv
<1>11. net' \subseteq net /\ (~copied => net' = net \ {d})
  BY <1>3 DEF Rest
<1>12. PiecesInv'
  BY <1>1, <1>3, <1>11 DEF PiecesInv, Fits, Whole, IsChunk
<1>13. EntriesInv'
  <2>1. ASSUME NEW x \in DOMAIN inflight', x # id PROVE EntryFits(x)'
    <3>1. x \in DOMAIN inflight /\ inflight'[x] = inflight[x]
      BY <1>6, <2>1 DEF InflightWith
    <3>2. EntryFits(x)
      BY <1>1, <3>1 DEF EntriesInv
    <3> QED
      BY <1>3, <3>1, <3>2 DEF EntryFits
  <2>2. ASSUME id \in DOMAIN inflight' PROVE EntryFits(id)'
    <3>1. ~IsComplete(entry) /\ inflight'[id] = entry
      BY <1>6, <2>2 DEF InflightWith
    <3> QED
      BY <1>3, <1>5, <1>6, <1>7, <3>1 DEF EntryFits, EntryWith
  <2> QED
    BY <2>1, <2>2 DEF EntriesInv
<1>14. ASSUME NEW x \in Clean', x # id PROVE Once(x)' /\ AllOrNone(x)'
  <2>1. x \in Clean /\ Seqs(x)' = Seqs(x)
    BY <1>3, <1>14 DEF Clean, Seqs
  <2>2. Once(x) /\ AllOrNone(x)
    BY <1>1, <2>1 DEF PartsInv
  <2>3. ASSUME NEW s
        PROVE  /\ Arrived(x, s)' <=> Arrived(x, s)
               /\ OnWay(x, s)' <=> OnWay(x, s)
               /\ ToCome(x, s)' <=> ToCome(x, s)
    <3>1. Arrived(x, s)' <=> Arrived(x, s)
      BY <1>6, <1>14 DEF Arrived, InflightWith
    <3>2. OnWay(x, s)' <=> OnWay(x, s)
      BY <1>0, <1>3, <1>14 DEF OnWay, Whole, IsChunk, Rest
    <3>3. ToCome(x, s)' <=> ToCome(x, s)
      BY <1>3 DEF ToCome
    <3> QED
      BY <3>1, <3>2, <3>3
  <2>4. Once(x)'
    BY <1>11, <2>1, <2>2, <2>3 DEF Once, Whole, IsChunk
  <2>5. AllOrNone(x)'
    BY <2>1, <2>2, <2>3 DEF AllOrNone, Somewhere
  <2> QED
    BY <2>4, <2>5
<1>15. ASSUME id \in Clean' PROVE Once(id)' /\ AllOrNone(id)'
  <2>1. /\ id \in Clean /\ id \notin collided /\ ~copied
        /\ Seqs(id)' = Seqs(id) /\ Seqs(id) = 0..(Total(given[id]) - 1)
    BY <1>3, <1>15 DEF Clean, Seqs
  <2>2. Once(id) /\ AllOrNone(id)
    BY <1>1, <2>1 DEF PartsInv
  <2>3. PICK first : first = chunk.seq
    OBVIOUS
  <2>4. OnWay(id, first) /\ first \in Seqs(id)
    BY <1>0, <1>3, <1>7, <2>1, <2>3 DEF OnWay
  <2>5. ~Arrived(id, first) /\ ~ToCome(id, first)
    BY <2>2, <2>4 DEF Once
  <2>6. ASSUME NEW s
        PROVE  /\ OnWay(id, s)' <=> OnWay(id, s) /\ s # first
               /\ ToCome(id, s)' <=> ToCome(id, s)
               /\ s \in DOMAIN entry.chunks <=> Arrived(id, s) \/ s = first
    <3>1. OnWay(id, s)' => OnWay(id, s) /\ s # first
      BY <1>0, <1>3, <1>11, <2>1, <2>2, <2>3 DEF OnWay, Once, Whole, IsChunk
    <3>2. OnWay(id, s) /\ s # first => OnWay(id, s)'
      BY <1>11, <2>1, <2>3 DEF OnWay, Whole, IsChunk
    <3>3. ToCome(id, s)' <=> ToCome(id, s)
      BY <1>3 DEF ToCome
    <3>4. s \in DOMAIN entry.chunks <=> Arrived(id, s) \/ s = first
      BY <1>6, <2>3 DEF Arrived, EntryWith
    <3> QED
      BY <3>1, <3>2, <3>3, <3>4
  <2>7. \A e, f \in net' :
          /\ ~Whole(e) /\ ~Whole(f)
          /\ e.body.id = id /\ f.body.id = id /\ e.body.seq = f.body.seq
          => e = f
    BY <1>11, <2>2 DEF Once
  <2>8. CASE IsComplete(entry)
    <3>1. \A s : ~Arrived(id, s)'
      BY <1>6, <2>8 DEF Arrived, InflightWith
    <3>2. \A s \in Seqs(id) : Arrived(id, s) \/ s = first
      BY <1>8, <2>1, <2>6, <2>8
    <3>3. \A s \in Seqs(id) : ~OnWay(id, s)' /\ ~ToCome(id, s)'
      BY <2>2, <2>5, <2>6, <3>2 DEF Once
    <3>4. Once(id)'
      BY <2>1, <2>7, <3>1, <3>3 DEF Once, Whole, IsChunk
    <3>5. AllOrNone(id)'
      BY <2>1, <3>1, <3>3 DEF AllOrNone, Somewhere
    <3> QED
      BY <3>4, <3>5
  <2>9. CASE ~IsComplete(entry)
    <3>1. \A s : Arrived(id, s)' <=> Arrived(id, s) \/ s = first
      BY <1>6, <2>6, <2>9 DEF Arrived, InflightWith
    <3>2. \A s \in Seqs(id) :
            /\ ~(Arrived(id, s)' /\ OnWay(id, s)')
            /\ ~(Arrived(id, s)' /\ ToCome(id, s)')
            /\ ~(OnWay(id, s)' /\ ToCome(id, s)')
      BY <2>2, <2>5, <2>6, <3>1 DEF Once
    <3>3. \A s : Somewhere(id, s)' <=> Somewhere(id, s)
      BY <2>4, <2>6, <3>1 DEF Somewhere
    <3>4. Once(id)'
      BY <2>1, <2>7, <3>2 DEF Once, Whole, IsChunk
    <3>5. AllOrNone(id)'
      BY <2>1, <2>2, <3>3 DEF AllOrNone
    <3> QED
      BY <3>4, <3>5
  <2> QED
    BY <2>8, <2>9
<1> QED
  BY <1>3, <1>9, <1>10, <1>12, <1>13, <1>14, <1>15, <1>16 DEF LeakInv, PartsInv

LEMMA NobodyLeaks ==
  ASSUME LeakInv
  PROVE  NoLeak
<1> SUFFICES ASSUME NEW id \in DOMAIN inflight, id \notin collided \union broken,
                    \A d \in net : ~(IsChunk(d) /\ d.body.id = id)
             PROVE  \E c \in Callers : at[c] = "chunks" /\ call[c].id = id
  BY DEF NoLeak
<1>1. SendingInv /\ EntryFits(id) /\ id \in Clean
  BY DEF LeakInv, EntriesInv, EntryFits, Clean
<1>2. Once(id) /\ AllOrNone(id)
  BY <1>1 DEF LeakInv, PartsInv
<1>3. Total(given[id]) \in Nat \ {0}
  BY <1>1, ChunksOfMessage DEF EntryFits, SendingInv
<1>4. /\ DOMAIN inflight[id].chunks # {} /\ DOMAIN inflight[id].chunks \subseteq Seqs(id)
      /\ DOMAIN inflight[id].chunks # Seqs(id)
  BY <1>1, <1>3, CompleteHasAll DEF EntryFits, Seqs
<1>5. PICK arrived \in Seqs(id), missing \in Seqs(id) :
        Arrived(id, arrived) /\ ~Arrived(id, missing)
  BY <1>4 DEF Arrived
<1>6. ToCome(id, missing)
  BY <1>2, <1>5 DEF AllOrNone, Somewhere, OnWay, Whole
<1>7. PICK c \in Callers : unsent[c] # << >> /\ call[c].id = id
  BY <1>6 DEF ToCome
<1>8. at[c] # "sendrecv"
  <2>1. SUFFICES ASSUME at[c] = "sendrecv" PROVE FALSE
    OBVIOUS
  <2>2. call[c].request = given[id] /\ Len(unsent[c]) = Total(given[id])
    BY <1>1, <1>7, <2>1 DEF SendingInv
  <2>3. arrived >= Total(call[c].request) - Len(unsent[c])
    BY <1>3, <1>5, <2>2 DEF Seqs
  <2>4. ToCome(id, arrived)
    BY <1>7, <2>3 DEF ToCome
  <2> QED
    BY <1>2, <1>5, <2>4 DEF Once
<1> QED
  BY <1>1, <1>7, <1>8 DEF SendingInv


(* Steps that put nothing together.                                        *)
LEMMA AssembledStay ==
  ASSUME AssembledInv, assembled' = assembled, server' = "panicked" => server = "panicked",
         DOMAIN given \subseteq DOMAIN given', collided \subseteq collided',
         \A i \in DOMAIN given : given'[i] = given[i]
  PROVE  AssembledInv'
<1>1. \A m : TrueTo(m) => TrueTo(m)'
  BY DEF TrueTo
<1> QED
  BY <1>1 DEF AssembledInv

LEMMA MessagesOwnStep ==
  ASSUME CallsInv, LeakInv, AssembledInv, NEW c \in Callers, UdpStep(c)
  PROVE  LeakInv' /\ AssembledInv'
<1>1. /\ DOMAIN at = Callers /\ DOMAIN call = Callers /\ unsent \in [Callers -> Seq(Chunks)]
      /\ SendingInv
  BY DEF CallsInv, LeakInv
<1>2. ASSUME NEW r \in RequestsOf[c], NEW how \in {"sendrecv", "send_only"}, Call(c, r, how)
      PROVE  LeakInv' /\ AssembledInv'
  <2>1. /\ assembled' = assembled /\ server' = server
        /\ DOMAIN given \subseteq DOMAIN given' /\ collided \subseteq collided'
        /\ \A i \in DOMAIN given : given'[i] = given[i]
    <3>1. CASE how = "sendrecv" /\ Chunked(r)
      BY <1>2, <3>1 DEF Call
    <3>2. CASE ~(how = "sendrecv" /\ Chunked(r))
      BY <1>2, <3>2 DEF Call
    <3> QED
      BY <3>1, <3>2
  <2> QED
    BY <1>2, <2>1, AssembledStay, CallLeaks
<1>3. CASE SendChunk(c)
  <2>1. assembled' = assembled /\ server' = server /\ given' = given /\ collided' = collided
    BY <1>3 DEF SendChunk, history
  <2> QED
    BY <1>3, <2>1, AssembledStay, SendChunkLeaks
<1>4. CASE SendChunkFails(c)
  <2>1. assembled' = assembled /\ server' = server /\ given' = given /\ collided' = collided
    BY <1>4 DEF SendChunkFails
  <2> QED
    BY <1>4, <2>1, AssembledStay, CutOffLeaks
<1>5. ASSUME UNCHANGED <<inflight, given, collided, assembled, server>>,
             broken \subseteq broken',
             \A d : ~Whole(d) => (d \in net' <=> d \in net),
             unsent[c] = << >> => unsent'[c] = << >>,
             unsent[c] # << >> =>
               unsent' = unsent /\ call' = call /\ (at'[c] = at[c] \/ at'[c] = "chunks"),
             \A d \in Callers \ {c} :
               at'[d] = at[d] /\ call'[d] = call[d] /\ unsent'[d] = unsent[d]
      PROVE  LeakInv' /\ AssembledInv'
  <2>1. LeakInv'
    BY <1>5, PiecesStay
  <2>2. AssembledInv'
    BY <1>5, AssembledStay
  <2> QED
    BY <2>1, <2>2
<1>6. ASSUME at[c] \notin {"sendrecv", "chunks"}, NEW what, Return(c, what)
      PROVE  /\ unsent[c] = << >> /\ unsent'[c] = << >>
             /\ \A d \in Callers \ {c} :
                  at'[d] = at[d] /\ call'[d] = call[d] /\ unsent'[d] = unsent[d]
  BY <1>1, <1>6 DEF Return, SendingInv
<1>7. CASE Lock(c)
  <2>1. /\ UNCHANGED <<inflight, given, collided, assembled, server, broken, net, unsent, call>>
        /\ unsent[c] # << >> => at'[c] = "chunks"
        /\ \A d \in Callers \ {c} : at'[d] = at[d]
    BY <1>1, <1>7 DEF Lock, history
  <2> QED
    BY <1>5, <2>1
<1>8. CASE SendFrame(c)
  <2>1. PICK frame : frame = Frame("server", call[c].number, call[c].request)
    OBVIOUS
  <2>2. /\ UNCHANGED <<inflight, given, collided, assembled, server, broken>>
        /\ net' = net \union {frame}
        /\ at[c] \in {"sendrecv!", "send_only!"}
    BY <1>8, <2>1 DEF SendFrame
  <2>3. Whole(frame)
    <3>1. "payload" \notin DOMAIN call[c].request
      BY <2>2, UdpAssumption DEF CallsInv, Calling, HasSocket
    <3> QED
      BY <2>1, <3>1 DEF Whole, IsChunk, Frame
  <2>4. /\ unsent[c] = << >> /\ unsent'[c] = << >>
        /\ \A d \in Callers \ {c} :
             at'[d] = at[d] /\ call'[d] = call[d] /\ unsent'[d] = unsent[d]
    <3>1. CASE at[c] = "sendrecv!"
      BY <1>1, <1>8, <3>1 DEF SendFrame, SendingInv
    <3>2. CASE at[c] = "send_only!"
      BY <1>6, <1>8, <3>2 DEF SendFrame
    <3> QED
      BY <2>2, <3>1, <3>2
  <2> QED
    BY <1>5, <2>2, <2>3, <2>4
<1>9. CASE FrameFails(c)
  <2>1. /\ UNCHANGED <<inflight, given, collided, assembled, server, broken, net>>
        /\ at[c] \notin {"sendrecv", "chunks"} /\ Return(c, [code |-> "SendFailed"])
    BY <1>9 DEF FrameFails, history
  <2> QED
    BY <1>5, <1>6, <2>1
<1>10. CASE Timeout(c)
  <2>1. /\ UNCHANGED <<inflight, given, collided, assembled, server, broken, net>>
        /\ at[c] \notin {"sendrecv", "chunks"} /\ Return(c, [code |-> "RecvFailed"])
    BY <1>10 DEF Timeout
  <2> QED
    BY <1>5, <1>6, <2>1
<1>11. ASSUME NEW d \in net, NEW copied \in BOOLEAN, Receive(c, d, copied)
       PROVE  LeakInv' /\ AssembledInv'
  <2>1. /\ UNCHANGED <<inflight, given, collided, assembled, server>> /\ broken \subseteq broken'
        /\ at[c] = "waiting" /\ Whole(d) /\ net' = Rest(d, copied)
    BY <1>11 DEF Receive, Delivered, Whole
  <2>2. PICK what : Return(c, what)
    BY <1>11 DEF Receive
  <2>3. \A e : ~Whole(e) => (e \in net' <=> e \in net)
    BY <2>1 DEF Rest
  <2> QED
    BY <1>5, <1>6, <2>1, <2>2, <2>3
<1> QED
  BY <1>2, <1>3, <1>4, <1>7, <1>8, <1>9, <1>10, <1>11 DEF UdpStep

LEMMA MessagesStep == MessagesInv /\ [Next]_vars => MessagesInv'
<1> SUFFICES ASSUME CallsInv, LeakInv, AssembledInv, [Next]_vars
             PROVE  LeakInv' /\ AssembledInv'
  BY DatagramStep DEF MessagesInv, DatagramInv
<1>1. ASSUME UNCHANGED <<inflight, given, collided, assembled>>,
             server' = "panicked" => server = "panicked", broken \subseteq broken',
             \A d : ~Whole(d) => (d \in net' <=> d \in net),
             UNCHANGED <<unsent, call>>,
             \A c \in Callers : unsent[c] # << >> => at'[c] = at[c]
      PROVE  LeakInv' /\ AssembledInv'
  <2>1. LeakInv'
    BY <1>1, PiecesStay
  <2>2. AssembledInv'
    BY <1>1, AssembledStay
  <2> QED
    BY <2>1, <2>2
<1>2. CASE UNCHANGED udpVars
  BY <1>1, <1>2 DEF udpVars, history
<1>3. CASE UdpServerNext
  <2>1. ASSUME NEW d \in net, NEW copied \in BOOLEAN, ServeFrame(d, copied)
        PROVE  LeakInv' /\ AssembledInv'
    <3>1. /\ UNCHANGED <<inflight, given, collided, assembled, server, unsent, call, at>>
          /\ broken \subseteq broken' /\ Whole(d)
      BY <2>1 DEF ServeFrame, Delivered, Whole
    <3>2. PICK reply : net' = Rest(d, copied) \union Replies(d.number, reply)
      BY <2>1 DEF ServeFrame
    <3>3. \A e \in Replies(d.number, reply) : Whole(e)
      BY DEF Replies, Frame, Whole
    <3>4. \A e : ~Whole(e) => (e \in net' <=> e \in net)
      BY <3>1, <3>2, <3>3 DEF Rest
    <3> QED
      BY <1>1, <3>1, <3>4
  <2>2. ASSUME NEW d \in net, NEW copied \in BOOLEAN, ServeChunk(d, copied)
        PROVE  LeakInv' /\ AssembledInv'
    <3>1. /\ LeakInv' /\ given' = given /\ collided' = collided
          /\ server' = "panicked" => server = "panicked" \/ collided # {}
          /\ \A m \in assembled' : m \in assembled \/ TrueTo(m)
      BY <2>2, ServeChunkLeaks
    <3>2. \A m : TrueTo(m)' <=> TrueTo(m)
      BY <3>1 DEF TrueTo
    <3> QED
      BY <3>1, <3>2 DEF AssembledInv
  <2>3. CASE UdpServerStops
    BY <1>1, <2>3 DEF UdpServerStops, history
  <2> QED
    BY <1>3, <2>1, <2>2, <2>3 DEF UdpServerNext
<1>4. ASSUME NEW c \in Callers, Block(c) \/ EnumLock(c) \/ EnumBind(c)
      PROVE  LeakInv' /\ AssembledInv'
  <2>1. /\ UNCHANGED <<inflight, given, collided, assembled, server, broken, net, unsent, call>>
        /\ \/ at' = at
           \/ at[c] \in {"idle", "blocked"} /\ \E place : at' = [at EXCEPT ![c] = place]
    <3>1. CASE Block(c)
      BY <3>1 DEF Block, At, history
    <3>2. CASE EnumLock(c)
      BY <3>2 DEF EnumLock, At, Blocked, history
    <3>3. CASE EnumBind(c)
      BY <3>3 DEF EnumBind, history
    <3> QED
      BY <1>4, <3>1, <3>2, <3>3
  <2>2. \A d \in Callers : unsent[d] # << >> => at'[d] = at[d]
    BY <2>1 DEF CallsInv, LeakInv, SendingInv
  <2> QED
    BY <1>1, <2>1, <2>2
<1>5. CASE Next
  <2>1. CASE \E name \in Asked, side \in {"client", "server", "proxy"} : CreateFor(name, side)
    BY <1>2, <2>1 DEF CreateFor
  <2>2. CASE \E c \in Callers : \/ Block(c) \/ EnumLock(c) \/ EnumBind(c)
                                \/ UdpStep(c) /\ Proxied(c)
    BY <1>4, <2>2, MessagesOwnStep
  <2>3. CASE UdpServerNext /\ InUdpServer
    BY <1>3, <2>3
  <2>4. CASE InPool \/ InTcpServer \/ InShutdown
    BY <1>2, <2>4 DEF InPool, InTcpServer, InShutdown
  <2> QED
    BY <1>5, <2>1, <2>2, <2>3, <2>4 DEF Next
<1> QED
  BY <1>2, <1>5 DEF vars

LEMMA MessagesAlways == Spec => []MessagesInv
<1>1. Init => MessagesInv
  <2> SUFFICES ASSUME UdpInit PROVE MessagesInv
    BY DEF Init
  <2>1. AssembledInv
    BY DEF UdpInit, AssembledInv
  <2> QED
    BY <2>1, DatagramInit, LeakInit DEF MessagesInv
<1> QED
  BY <1>1, MessagesStep, PTL DEF Spec

(* A reassembler waits only for chunks that may still come, unless its     *)
(* message was cut off or doubled, or its id was given twice.              *)
THEOREM NoLeakHolds == Spec => []NoLeak
<1>1. MessagesInv => NoLeak
  BY NobodyLeaks DEF MessagesInv
<1> QED
  BY <1>1, MessagesAlways, PTL

(* In whatever order the chunks of concurrent messages arrive, and however *)
(* often, what the receiver puts together is the message, and it panics    *)
(* only on an id that was given twice.                                     *)
THEOREM ReassemblesHolds == Spec => []Reassembles
<1>0. ASSUME NEW id \in Ids, NEW r \in Requests
      PROVE  Joined(ChunkMessage(id, Bytes(r), ChunkSize)) = Bytes(r)
  <2>1. SizeOf[r] \in Nat /\ ChunkSize \in Nat \ {0} /\ ChunkSize < SizeLimit
    BY UdpAssumption
  <2>2. Bytes(r) \in Seq({r} \X Nat)
    BY <2>1 DEF Bytes
  <2>3. Len(ChunkMessage(id, Bytes(r), ChunkSize)) < CountLimit
    BY ChunksOfMessage, UdpAssumption
  <2> QED
    BY <2>1, <2>2, <2>3, ChunksJoinBack
<1>1. ASSUME MessagesInv PROVE Reassembles
  <2>1. AssembledInv /\ SendingInv
    BY <1>1 DEF MessagesInv, LeakInv
  <2>2. ASSUME NEW m \in assembled, m.id \notin collided PROVE m.data = Bytes(given[m.id])
    <3>1. m.id \in Ids /\ given[m.id] \in Requests /\ m.data = Joined(Cut(m.id, given[m.id]))
      BY <2>1, <2>2 DEF AssembledInv, TrueTo, SendingInv
    <3> QED
      BY <1>0, <3>1 DEF Cut
  <2> QED
    BY <2>1, <2>2 DEF Reassembles, AssembledInv
<1> QED
  BY <1>1, MessagesAlways, PTL
=============================================================================
