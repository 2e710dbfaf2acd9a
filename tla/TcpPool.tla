------------------------------ MODULE TcpPool ------------------------------
(***************************************************************************)
(* zht-transport, tcp.rs: TcpProxy, a pool of connections whose Mutex is   *)
(* released between making a connection and using it, and the gauge of     *)
(* active connections in TransportMetrics.  What goes over a connection    *)
(* succeeds or fails.  The file is not compiled at this commit.            *)
(***************************************************************************)
EXTENDS Integers, FiniteSetsExt

CONSTANTS Tasks, Addrs,
          NoConn, NoTask,
          MaxOps,    \* MAX_OPS
          GaugeSize, \* the numbers in the gauge: 2^64
          MaxUses    \* bound on the calls

ASSUME TcpPoolAssumption ==
  /\ MaxOps \in Nat \ {0} /\ GaugeSize \in Nat \ {0} /\ MaxUses \in Nat
  /\ NoTask \notin Tasks /\ NoConn \notin Nat

VARIABLES lock,      \* who holds the Mutex of the pool
          pool,      \* per address: the operations of its connection, or NoConn
          active,    \* the gauge
          pc,        \* per task: where its call is
          target,    \* per task: the address
          counted,   \* per task in close_all: the connections it has counted
          overtaken, \* tasks whose connection was removed in the gap (history)
          misled,    \* a recycle failed, or a close_all miscounted (history)
          uses

poolVars == <<lock, pool, active, pc, target, counted, overtaken, misled, uses>>

Methods == {"sendrecv", "send_only", "close_connection", "close_all"}

PoolInit ==
  /\ lock = NoTask
  /\ pool = [a \in Addrs |-> NoConn]
  /\ active = 0
  /\ pc = [t \in Tasks |-> [method |-> "none", step |-> "idle"]]
  /\ target = [t \in Tasks |-> CHOOSE a \in Addrs : TRUE]
  /\ counted = [t \in Tasks |-> 0]
  /\ overtaken = {}
  /\ misled = FALSE
  /\ uses = 0

Open == {a \in Addrs : pool[a] # NoConn}
Step(t) == pc[t].step
Goto(t, step) == pc' = [pc EXCEPT ![t].step = step]
Idle(t) == pc' = [pc EXCEPT ![t] = [method |-> "none", step |-> "idle"]]

(* inc_active_connections, dec_active_connections: fetch_sub wraps.        *)
Inc == active' = (active + 1) % GaugeSize
Dec(n) == active' = (active - n) % GaugeSize

(* A task between get_or_create and the use of its connection.             *)
InGap(a) == {t \in Tasks : Step(t) = "gap" /\ target[t] = a}

Use(t, a, m) ==
  /\ Step(t) = "idle"
  /\ uses < MaxUses
  /\ uses' = uses + 1
  /\ target' = [target EXCEPT ![t] = a]
  /\ pc' = [pc EXCEPT ![t] =
              [method |-> m,
               step |-> CASE m = "close_connection" -> "remove"
                          [] m = "close_all" -> "count"
                          [] OTHER -> "get"]]
  /\ overtaken' = overtaken \ {t}
  /\ UNCHANGED <<lock, pool, active, counted, misled>>

-----------------------------------------------------------------------------
(* get_or_create: a connection that is old or worn out is counted out and  *)
(* replaced, with the Mutex held while the new one is made.                *)
Fresh(t) ==
  /\ Step(t) = "get" /\ lock = NoTask
  /\ pool[target[t]] # NoConn /\ pool[target[t]] < MaxOps
  /\ Goto(t, "gap")
  /\ UNCHANGED <<lock, pool, active, target, counted, overtaken, misled, uses>>

Recycle(t) ==
  /\ Step(t) = "get" /\ lock = NoTask
  /\ pool[target[t]] # NoConn
  /\ lock' = t
  /\ Dec(1)
  /\ Goto(t, "recycle")
  /\ UNCHANGED <<pool, target, counted, overtaken, misled, uses>>

Create(t) ==
  /\ Step(t) = "get" /\ lock = NoTask
  /\ pool[target[t]] = NoConn
  /\ lock' = t
  /\ Goto(t, "connect")
  /\ UNCHANGED <<pool, active, target, counted, overtaken, misled, uses>>

Connected(t) ==
  /\ Step(t) \in {"recycle", "connect"}
  /\ pool' = [pool EXCEPT ![target[t]] = 0]
  /\ Inc
  /\ lock' = NoTask
  /\ Goto(t, "gap")
  /\ UNCHANGED <<target, counted, overtaken, misled, uses>>

(* Mutant: the worn-out connection is thrown away first.                   *)
ConnectFailsDropping(t) ==
  /\ Step(t) \in {"recycle", "connect"}
  /\ pool' = [pool EXCEPT ![target[t]] = NoConn]
  /\ lock' = NoTask
  /\ Idle(t)
  /\ UNCHANGED <<active, target, counted, overtaken, misled, uses>>

(* Err: the old connection, if there is one, stays, and is counted out.    *)
ConnectFails(t) ==
  /\ Step(t) \in {"recycle", "connect"}
  /\ misled' = (misled \/ Step(t) = "recycle")
  /\ lock' = NoTask
  /\ Idle(t)
  /\ UNCHANGED <<pool, active, target, counted, overtaken, uses>>

-----------------------------------------------------------------------------
(* sendrecv, send_only.  get_mut(&key).unwrap() panics if the connection   *)
(* has gone in the meantime.                                               *)
Take(t) ==
  /\ Step(t) = "gap" /\ lock = NoTask
  /\ IF pool[target[t]] = NoConn
     THEN Goto(t, "panicked") /\ UNCHANGED lock
     ELSE Goto(t, "send") /\ lock' = t
  /\ UNCHANGED <<pool, active, target, counted, overtaken, misled, uses>>

Touched(a) == [pool EXCEPT ![a] = @ + 1]

Sent(t) ==
  /\ Step(t) = "send"
  /\ pool' = Touched(target[t])
  /\ IF pc[t].method = "sendrecv"
     THEN Goto(t, "recv") /\ UNCHANGED lock
     ELSE Idle(t) /\ lock' = NoTask
  /\ UNCHANGED <<active, target, counted, overtaken, misled, uses>>

(* send_only leaves the connection in the pool.                            *)
SendFails(t) ==
  /\ Step(t) = "send"
  /\ lock' = NoTask
  /\ IF pc[t].method = "sendrecv" THEN Goto(t, "remove") ELSE Idle(t)
  /\ UNCHANGED <<pool, active, target, counted, overtaken, misled, uses>>

Answered(t) ==
  /\ Step(t) = "recv"
  /\ pool' = Touched(target[t])
  /\ lock' = NoTask
  /\ Idle(t)
  /\ UNCHANGED <<active, target, counted, overtaken, misled, uses>>

RecvFails(t) ==
  /\ Step(t) = "recv"
  /\ lock' = NoTask
  /\ Goto(t, "remove")
  /\ UNCHANGED <<pool, active, target, counted, overtaken, misled, uses>>

-----------------------------------------------------------------------------
(* Mutant: counts a connection out that somebody else has removed.         *)
RemoveConnAnyway(t) ==
  /\ Step(t) = "remove" /\ lock = NoTask
  /\ pool' = [pool EXCEPT ![target[t]] = NoConn]
  /\ overtaken' = overtaken \union InGap(target[t])
  /\ Goto(t, "uncount")
  /\ UNCHANGED <<lock, active, target, counted, misled, uses>>

(* remove_conn: whatever connection the address has by now.                *)
RemoveConn(t) ==
  /\ Step(t) = "remove" /\ lock = NoTask
  /\ pool' = [pool EXCEPT ![target[t]] = NoConn]
  /\ overtaken' = overtaken \union InGap(target[t])
  /\ IF target[t] \in Open THEN Goto(t, "uncount") ELSE Idle(t)
  /\ UNCHANGED <<lock, active, target, counted, misled, uses>>

(* It is counted out when the Mutex has been released.                     *)
Uncount(t) ==
  /\ Step(t) = "uncount"
  /\ Dec(1)
  /\ Idle(t)
  /\ UNCHANGED <<lock, pool, target, counted, overtaken, misled, uses>>

(* close_all: counts, clears and counts out in three steps.                *)
CountAll(t) ==
  /\ Step(t) = "count" /\ lock = NoTask
  /\ counted' = [counted EXCEPT ![t] = Cardinality(Open)]
  /\ Goto(t, "clear")
  /\ UNCHANGED <<lock, pool, active, target, overtaken, misled, uses>>

Clear(t) ==
  /\ Step(t) = "clear" /\ lock = NoTask
  /\ pool' = [a \in Addrs |-> NoConn]
  /\ misled' = (misled \/ Cardinality(Open) # counted[t])
  /\ overtaken' = overtaken \union UNION {InGap(a) : a \in Addrs}
  /\ Goto(t, "count_out")
  /\ UNCHANGED <<lock, active, target, counted, uses>>

CountOut(t) ==
  /\ Step(t) = "count_out"
  /\ Dec(counted[t])
  /\ counted' = [counted EXCEPT ![t] = 0]
  /\ Idle(t)
  /\ UNCHANGED <<lock, pool, target, overtaken, misled, uses>>

PoolNext ==
  \E t \in Tasks :
    \/ \E a \in Addrs, m \in Methods : Use(t, a, m)
    \/ Fresh(t) \/ Recycle(t) \/ Create(t) \/ Connected(t) \/ ConnectFails(t)
    \/ Take(t) \/ Sent(t) \/ SendFails(t) \/ Answered(t) \/ RecvFails(t)
    \/ RemoveConn(t) \/ Uncount(t) \/ CountAll(t) \/ Clear(t) \/ CountOut(t)

PoolSpec == PoolInit /\ [][PoolNext]_poolVars

-----------------------------------------------------------------------------
(* Properties.                                                             *)

(* What recycles and removals leave in the pool stays within its types.    *)
PoolTypeOK ==
  /\ lock \in Tasks \union {NoTask}
  /\ pool \in [Addrs -> Nat \union {NoConn}]
  /\ active \in 0..(GaugeSize - 1)
  /\ pc \in [Tasks -> [method : Methods \union {"none"},
                       step : {"idle", "get", "recycle", "connect", "gap", "panicked", "send",
                               "recv", "remove", "uncount", "count", "clear", "count_out"}]]
  /\ target \in [Tasks -> Addrs]
  /\ counted \in [Tasks -> Nat]
  /\ overtaken \subseteq Tasks
  /\ misled \in BOOLEAN /\ uses \in Nat

(* Whoever removes whose connection, and when, the gauge counts those in   *)
(* the pool whenever no task is between the pool and the gauge.  It no     *)
(* longer does once a recycle has failed, which counts out a connection    *)
(* that stays, or the pool has changed between the steps of a close_all.   *)
GaugeAgrees ==
  ~misled /\ (\A t \in Tasks : Step(t) \notin {"recycle", "uncount", "count_out"}) =>
    active = Cardinality(Open) % GaugeSize

(* "Number of active connections currently in the pool": so it is at least *)
(* when no call is under way.  A failed recycle violates it for ever.      *)
PoolCounted ==
  (\A t \in Tasks : Step(t) \in {"idle", "panicked"}) => active = Cardinality(Open)

(* Only a removal between get_or_create and the use of the connection, by  *)
(* another call, makes a call panic: no failing connect does.              *)
OnlyRemovalPanics == \A t \in Tasks : Step(t) = "panicked" => t \in overtaken

(* get_mut(&key).unwrap(): the connection made a moment ago is there.      *)
NoPanic == \A t \in Tasks : Step(t) # "panicked"
=============================================================================
