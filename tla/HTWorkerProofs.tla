--------------------------- MODULE HTWorkerProofs ---------------------------
(***************************************************************************)
(* What HTWorker.tla keeps for any tasks, keys, values, requests, leases   *)
(* and interval of polling.                                                *)
(***************************************************************************)
EXTENDS HTWorker, FiniteSetTheorems, TLAPS

Places == {"idle", "validate", "execute", "poll", "missed", "error"}

TypeInv ==
  /\ pc \in [Tasks -> Places]
  /\ DOMAIN req = Tasks
  /\ \A t \in Tasks : req[t] \in RequestsOf[t] \union {NoRequest}
  /\ DOMAIN reply = Tasks
  /\ lease \in [Tasks -> Nat]
  /\ sleep \in [Tasks -> Nat]
  /\ polls \in [Tasks -> Nat]
  /\ DOMAIN table = Keys
  /\ \A t \in Tasks : pc[t] \in {"poll", "missed"} => req[t].op = "STCHGCB"
  /\ \A t \in Tasks : pc[t] = "error" => reply[t].lease # "000"

LEMMA LeaseType ==
  ASSUME TypeInv, NEW t \in Tasks
  PROVE  req[t].lease \in Nat
<1>1. CASE req[t] = NoRequest
  BY <1>1 DEF NoRequest
<1>2. CASE req[t] \in RequestsOf[t]
  <2>1. req[t] \in Requests
    BY <1>2, HTWorkerAssumption
  <2> QED
    BY <2>1 DEF Requests
<1> QED
  BY <1>1, <1>2 DEF TypeInv

LEMMA TypeInit == Init => TypeInv
<1> SUFFICES ASSUME Init PROVE TypeInv
  OBVIOUS
<1>1. pc \in [Tasks -> Places] /\ DOMAIN table = Keys
  BY DEF Init, Places, Empty
<1>2. DOMAIN req = Tasks /\ DOMAIN reply = Tasks /\ \A t \in Tasks : req[t] = NoRequest
  BY DEF Init
<1>3. lease \in [Tasks -> Nat] /\ sleep \in [Tasks -> Nat] /\ polls \in [Tasks -> Nat]
  BY DEF Init
<1>4. \A t \in Tasks : pc[t] = "idle"
  BY DEF Init
<1> QED
  BY <1>1, <1>2, <1>3, <1>4 DEF TypeInv

(* What a task's step leaves of the other tasks.                           *)
Apart(t) ==
  \A u \in Tasks \ {t} :
    /\ pc'[u] = pc[u] /\ req'[u] = req[u] /\ reply'[u] = reply[u]
    /\ lease'[u] = lease[u] /\ sleep'[u] = sleep[u] /\ polls'[u] = polls[u]

LEMMA TaskStep ==
  ASSUME TypeInv, NEW t \in Tasks,
         Step(t) \/ \E r \in RequestsOf[t] : Accept(t, r)
  PROVE  TypeInv' /\ Apart(t)
<1> USE HTWorkerAssumption DEF TypeInv, Places, Goto, Respond, Fail, Apart, waiting
<1>1. ASSUME NEW r \in RequestsOf[t], Accept(t, r) PROVE TypeInv' /\ Apart(t)
  BY <1>1 DEF Accept
<1>2. CASE RejectEmptyKey(t) \/ RejectOpcode(t) \/ Count(t)
  BY <1>2 DEF RejectEmptyKey, RejectOpcode, Count
<1>3. CASE Lookup(t) \/ Insert(t) \/ Remove(t) \/ AppendTo(t)
  BY <1>3 DEF Lookup, Insert, Remove, AppendTo, Execute
<1>4. CASE CompareSwap(t)
  BY <1>4 DEF CompareSwap, Execute
<1>5. CASE StartPolling(t)
  <2>1. req[t].lease \in Nat
    BY LeaseType
  <2> QED
    BY <1>5, <2>1 DEF StartPolling, Execute
<1>6. CASE Poll(t)
  BY <1>6 DEF Poll
<1>7. CASE Expire(t) \/ Sleep(t) \/ CountError(t)
  BY <1>7 DEF Expire, Sleep, CountError
<1> QED
  BY <1>1, <1>2, <1>3, <1>4, <1>5, <1>6, <1>7 DEF Step

LEMMA TypeStep == TypeInv /\ [Next]_vars => TypeInv'
<1> SUFFICES ASSUME TypeInv, [Next]_vars PROVE TypeInv'
  OBVIOUS
<1>1. CASE Tick
  BY <1>1 DEF Tick, TypeInv
<1>2. CASE UNCHANGED vars
  BY <1>2 DEF vars, waiting, TypeInv
<1> QED
  BY <1>1, <1>2, TaskStep DEF Next

-----------------------------------------------------------------------------
(* A wait and its lease.                                                   *)

Times(n) == n * PollInterval

LEMMA TimesNext ==
  ASSUME NEW n \in Nat
  PROVE  Times(n) \in Nat /\ Times(n + 1) = Times(n) + PollInterval
BY HTWorkerAssumption DEF Times

LEMMA TimesBelow ==
  ASSUME NEW n \in Nat, NEW l \in Nat, Times(n) < l
  PROVE  n + 1 <= (l + PollInterval - 1) \div PollInterval
<1> DEFINE q == (l + PollInterval - 1) \div PollInterval
<1>1. q \in Nat /\ l + PollInterval - 1 < (q + 1) * PollInterval
  BY HTWorkerAssumption
<1> HIDE DEF q
<1>2. l <= q * PollInterval
  BY <1>1, HTWorkerAssumption
<1>3. n * PollInterval < q * PollInterval
  BY <1>1, <1>2, HTWorkerAssumption DEF Times
<1>4. n < q
  BY <1>1, <1>3, HTWorkerAssumption
<1> QED
  BY <1>1, <1>4 DEF q

(* What the polls made have cost of the lease: each but the last two       *)
(* intervals have passed before it, as long as there is any of it left.    *)
PollInv(t) ==
  /\ pc[t] = "poll" =>
       IF polls[t] = 0 THEN sleep[t] = 0 /\ lease[t] <= req[t].lease
       ELSE /\ Times(polls[t] - 1) < req[t].lease
            /\ lease[t] > 0 => Times(polls[t]) + lease[t] <= req[t].lease + sleep[t]
  /\ pc[t] = "missed" =>
       /\ polls[t] > 0
       /\ polls[t] > 1 => Times(polls[t] - 2) < req[t].lease
       /\ lease[t] > 0 => Times(polls[t] - 1) + lease[t] <= req[t].lease

WaitInv == TypeInv /\ \A t \in Tasks : PollInv(t)

LEMMA WaitStep == WaitInv /\ [Next]_vars => WaitInv'
<1> SUFFICES ASSUME WaitInv, [Next]_vars PROVE WaitInv'
  OBVIOUS
<1>0. TypeInv /\ TypeInv' /\ \A t \in Tasks : PollInv(t) /\ req[t].lease \in Nat
  BY TypeStep, LeaseType DEF WaitInv
<1> SUFFICES ASSUME NEW t \in Tasks PROVE PollInv(t)'
  BY <1>0 DEF WaitInv
<1>t. /\ lease[t] \in Nat /\ sleep[t] \in Nat /\ polls[t] \in Nat /\ req[t].lease \in Nat
      /\ PollInterval \in Nat \ {0}
  BY <1>0, HTWorkerAssumption DEF TypeInv
<1>1. ASSUME NEW u \in Tasks \ {t}, Step(u) \/ \E r \in RequestsOf[u] : Accept(u, r)
      PROVE  PollInv(t)'
  <2>1. Apart(u)
    BY <1>0, <1>1, TaskStep
  <2> QED
    BY <1>0, <2>1 DEF Apart, PollInv
<1>2. CASE pc'[t] \notin {"poll", "missed"}
  BY <1>2 DEF PollInv
<1>3. CASE StartPolling(t)
  BY <1>0, <1>3, <1>t DEF StartPolling, Execute, Goto, PollInv, TypeInv
<1>4. CASE Poll(t)
  <2>1. /\ pc[t] = "poll" /\ sleep[t] = 0 /\ polls'[t] = polls[t] + 1
        /\ pc'[t] \in {"idle", "missed"} /\ UNCHANGED <<req, lease, sleep>>
    BY <1>0, <1>4 DEF Poll, Respond, Goto, TypeInv
  <2>2. CASE polls[t] = 0
    <3>1. Times(0) = 0
      BY <1>t DEF Times
    <3> QED
      BY <1>0, <1>t, <2>1, <2>2, <3>1 DEF PollInv
  <2>3. CASE polls[t] # 0
    <3>1. polls'[t] - 1 = polls[t] /\ polls'[t] - 2 = polls[t] - 1 /\ polls'[t] > 1
      BY <1>t, <2>1, <2>3
    <3>2. /\ Times(polls[t] - 1) < req[t].lease
          /\ lease[t] > 0 => Times(polls[t]) + lease[t] <= req[t].lease + sleep[t]
      BY <1>0, <2>1, <2>3 DEF PollInv
    <3>3. lease[t] > 0 => Times(polls[t]) + lease[t] <= req[t].lease
      BY <1>t, <2>1, <3>2, TimesNext
    <3> QED
      BY <1>t, <2>1, <3>1, <3>2, <3>3 DEF PollInv
  <2> QED
    BY <2>2, <2>3
<1>5. CASE Sleep(t)
  <2>1. /\ pc[t] = "missed" /\ lease[t] > 0 /\ sleep'[t] = PollInterval /\ pc'[t] = "poll"
        /\ UNCHANGED <<req, lease, polls>>
    BY <1>0, <1>5 DEF Sleep, Goto, TypeInv
  <2>2. polls[t] > 0 /\ Times(polls[t] - 1) + lease[t] <= req[t].lease
    BY <1>0, <2>1 DEF PollInv
  <2>3. /\ polls[t] - 1 \in Nat /\ Times(polls[t] - 1) \in Nat
        /\ Times(polls[t]) = Times(polls[t] - 1) + PollInterval
    <3>1. polls[t] - 1 \in Nat /\ polls[t] = (polls[t] - 1) + 1
      BY <1>t, <2>2
    <3> QED
      BY <3>1, TimesNext
  <2>4. /\ Times(polls[t] - 1) < req[t].lease
        /\ Times(polls[t]) + lease[t] <= req[t].lease + PollInterval
    BY <1>t, <2>1, <2>2, <2>3
  <2> QED
    BY <1>t, <2>1, <2>2, <2>4 DEF PollInv
<1>6. CASE Tick
  <2>1. /\ lease'[t] = (IF lease[t] > 0 THEN lease[t] - 1 ELSE 0)
        /\ sleep'[t] = (IF sleep[t] > 0 THEN sleep[t] - 1 ELSE 0)
        /\ UNCHANGED <<pc, req, polls>>
    BY <1>6 DEF Tick
  <2>2. Times(polls[t]) \in Nat /\ (polls[t] > 0 => Times(polls[t] - 1) \in Nat)
    <3>1. polls[t] > 0 => polls[t] - 1 \in Nat
      BY <1>t
    <3> QED
      BY <1>t, <3>1, TimesNext
  <2> QED
    BY <1>0, <1>t, <2>1, <2>2 DEF PollInv
<1>7. CASE UNCHANGED vars
  BY <1>0, <1>7 DEF vars, waiting, PollInv
<1>8. ASSUME Step(t) \/ \E r \in RequestsOf[t] : Accept(t, r)
      PROVE  PollInv(t)'
  <2>1. CASE StartPolling(t) \/ Poll(t) \/ Sleep(t)
    BY <1>3, <1>4, <1>5, <2>1
  <2>2. CASE ~(StartPolling(t) \/ Poll(t) \/ Sleep(t))
    <3>1. pc'[t] \notin {"poll", "missed"}
      BY <1>0, <1>8, <2>2 DEF TypeInv, Step, Accept, RejectEmptyKey, RejectOpcode, Count, Lookup,
        Insert, Remove, AppendTo, CompareSwap, Execute, Expire, CountError, Respond, Fail, Goto
    <3> QED
      BY <1>2, <3>1
  <2> QED
    BY <2>1, <2>2
<1> QED
  BY <1>1, <1>6, <1>7, <1>8 DEF Next

(* However long a task is kept from running, the loop of                   *)
(* STATE_CHANGE_CALLBACK polls once per interval of its lease, and at most *)
(* once more.                                                              *)
THEOREM PollsBoundedHolds == Spec => []PollsBounded
<1>1. Init => WaitInv
  BY TypeInit DEF Init, WaitInv, PollInv
<1>2. ASSUME WaitInv PROVE PollsBounded
  <2> SUFFICES ASSUME NEW t \in Tasks, pc[t] \in {"poll", "missed"}
               PROVE  polls[t] <= (req[t].lease + PollInterval - 1) \div PollInterval + 1
    BY DEF PollsBounded
  <2>1. /\ polls[t] \in Nat /\ req[t].lease \in Nat /\ PollInterval \in Nat \ {0} /\ PollInv(t)
        /\ (req[t].lease + PollInterval - 1) \div PollInterval \in Nat
    <3>1. /\ polls[t] \in Nat /\ req[t].lease \in Nat /\ PollInterval \in Nat \ {0}
          /\ PollInv(t)
      BY <1>2, LeaseType, HTWorkerAssumption DEF WaitInv, TypeInv
    <3>2. ASSUME NEW l \in Nat, NEW p \in Nat \ {0} PROVE (l + p - 1) \div p \in Nat
      OBVIOUS
    <3> QED
      BY <3>1, <3>2
  <2>2. CASE polls[t] <= 1
    BY <2>1, <2>2
  <2>3. CASE polls[t] > 1 /\ pc[t] = "missed"
    <3>1. polls[t] - 2 \in Nat /\ Times(polls[t] - 2) < req[t].lease
      BY <2>1, <2>3 DEF PollInv
    <3>2. (polls[t] - 2) + 1 <= (req[t].lease + PollInterval - 1) \div PollInterval
      BY <2>1, <3>1, TimesBelow
    <3> QED
      BY <2>1, <3>2
  <2>4. CASE polls[t] > 1 /\ pc[t] = "poll"
    <3>1. polls[t] - 1 \in Nat /\ Times(polls[t] - 1) < req[t].lease
      BY <2>1, <2>4 DEF PollInv
    <3>2. (polls[t] - 1) + 1 <= (req[t].lease + PollInterval - 1) \div PollInterval
      BY <2>1, <3>1, TimesBelow
    <3> QED
      BY <2>1, <3>2
  <2> QED
    BY <2>1, <2>2, <2>3, <2>4
<1> QED
  BY <1>1, <1>2, WaitStep, PTL DEF Spec

-----------------------------------------------------------------------------
(* The lock.                                                               *)

LockInv(lock, token) ==
  /\ TypeInv
  /\ \A t \in Tasks : Holds(t) => table[lock] = token[t]

LEMMA LockStep ==
  ASSUME NEW lock \in Keys, NEW token, OwnTokens(lock, token),
         LockInv(lock, token), [Next]_vars
  PROVE  LockInv(lock, token)'
<1>0. TypeInv /\ TypeInv' /\ \A t \in Tasks : Holds(t) => table[lock] = token[t]
  BY TypeStep DEF LockInv
<1> SUFFICES ASSUME NEW t \in Tasks, Holds(t)'
             PROVE  table'[lock] = token[t]
  BY <1>0 DEF LockInv
(* Another task finds the lock taken, and leaves it so.                    *)
<1>1. ASSUME NEW u \in Tasks \ {t}, Step(u) \/ \E r \in RequestsOf[u] : Accept(u, r)
      PROVE  table'[lock] = token[t]
  <2>1. Apart(u)
    BY <1>0, <1>1, TaskStep
  <2>2. Holds(t) /\ table[lock] = token[t]
    BY <1>0, <2>1 DEF Apart, Holds
  <2>3. ASSUME table' # table
        PROVE  req[u] \in RequestsOf[u] /\ req[u].op \in {"INSERT", "REMOVE", "APPEND", "CMPSWP"}
    BY <1>0, <1>1, <2>3 DEF TypeInv, NoRequest, Step, Accept, RejectEmptyKey, RejectOpcode, Count,
      Lookup, Insert, Remove, AppendTo, CompareSwap, StartPolling, Poll, Expire, Sleep,
      CountError, Execute
  <2>4. CASE Insert(u) \/ Remove(u) \/ AppendTo(u)
    <3>1. req[u].op \in {"INSERT", "REMOVE", "APPEND"}
      BY <2>4 DEF Insert, Remove, AppendTo, Execute
    <3>2. \E v : table' = [table EXCEPT ![req[u].key] = v]
      BY <2>4 DEF Insert, Remove, AppendTo
    <3>3. table' # table => req[u].key # lock
      BY <2>3, <3>1 DEF OwnTokens
    <3> QED
      BY <1>0, <2>2, <3>2, <3>3 DEF TypeInv
  <2>5. CASE CompareSwap(u)
    <3>1. /\ req[u].op = "CMPSWP"
          /\ table' = [table EXCEPT ![req[u].key] =
                          Swapped(table, req[u].key, req[u].val, req[u].newval)]
      BY <2>5 DEF CompareSwap, Execute
    <3>2. CASE req[u].key = lock
      <4>1. table' # table => req[u].val \in {Free, token[u]}
        BY <2>3, <3>1, <3>2 DEF OwnTokens
      <4>2. table' # table => table[lock] \notin {req[u].val, Absent}
        BY <2>2, <4>1 DEF OwnTokens
      <4>3. table' # table => table'[lock] = table[lock]
        BY <1>0, <3>1, <3>2, <4>2 DEF Swapped, TypeInv
      <4> QED
        BY <2>2, <4>3
    <3>3. CASE req[u].key # lock
      BY <1>0, <2>2, <3>1, <3>3 DEF TypeInv
    <3> QED
      BY <3>2, <3>3
  <2>6. CASE ~(Insert(u) \/ Remove(u) \/ AppendTo(u) \/ CompareSwap(u))
    <3>1. table' = table
      BY <1>1, <2>6 DEF Step, Accept, RejectEmptyKey, RejectOpcode, Count, Lookup, StartPolling,
        Poll, Expire, Sleep, CountError, Execute
    <3> QED
      BY <2>2, <3>1
  <2> QED
    BY <2>4, <2>5, <2>6
(* The task itself has just been told that it has the lock.                *)
<1>2. ASSUME Step(t) \/ \E r \in RequestsOf[t] : Accept(t, r)
      PROVE  table'[lock] = token[t]
  <2>1. pc'[t] = "idle" /\ req'[t].op = "CMPSWP" /\ req'[t].val = Free /\ reply'[t].lease = "000"
    BY DEF Holds
  <2>2. req'[t] = req[t] /\ req[t].op = "CMPSWP" /\ req[t].val = Free
    <3>1. \A r \in RequestsOf[t] : Accept(t, r) => pc'[t] = "validate"
      BY <1>0 DEF Accept, Goto, TypeInv
    <3>2. Step(t) => req' = req
      BY DEF Step, RejectEmptyKey, RejectOpcode, Count, Lookup, Insert, Remove, AppendTo,
        CompareSwap, StartPolling, Poll, Expire, Sleep, CountError, Execute
    <3> QED
      BY <1>2, <2>1, <3>1, <3>2
  <2>3. req[t] \in RequestsOf[t] /\ req[t].key = lock /\ req[t].newval = token[t]
    <3>1. req[t] \in RequestsOf[t]
      BY <1>0, <2>2 DEF TypeInv, NoRequest
    <3>2. req[t].key = lock
      BY <2>2, <3>1 DEF OwnTokens
    <3>3. <<req[t].val, req[t].newval>> \in {<<Free, token[t]>>, <<token[t], Free>>}
      BY <2>2, <3>1, <3>2 DEF OwnTokens
    <3>4. token[t] # Free
      BY DEF OwnTokens
    <3> QED
      BY <2>2, <3>1, <3>2, <3>3, <3>4
  <2>4. CompareSwap(t)
    <3>1. pc[t] # "poll"
      BY <1>0, <2>2 DEF TypeInv
    <3>2. ASSUME CountError(t) PROVE reply'[t].lease # "000"
      <4>1. pc[t] = "error" /\ reply[t].lease # "000" /\ DOMAIN reply = Tasks
        BY <1>0, <3>2 DEF CountError, TypeInv
      <4>2. reply' = [reply EXCEPT ![t] = [lease |-> reply[t].lease, val |-> reply[t].val]]
        BY <3>2 DEF CountError, Respond
      <4>3. reply'[t] = [lease |-> reply[t].lease, val |-> reply[t].val]
        BY <4>1, <4>2
      <4> QED
        BY <4>1, <4>3
    <3>3. ~CountError(t) /\ ~Poll(t)
      BY <2>1, <3>1, <3>2 DEF Poll
    <3>4. RejectEmptyKey(t) => reply'[t].lease # "000"
      BY <1>0 DEF RejectEmptyKey, Respond, TypeInv
    <3>5. ~RejectOpcode(t)
      BY <2>2 DEF RejectOpcode, Opcodes
    <3>6. Expire(t) \/ Sleep(t) \/ StartPolling(t) \/ Count(t) => pc'[t] # "idle"
      BY <1>0 DEF Expire, Sleep, StartPolling, Count, Fail, Goto, TypeInv
    <3>7. ~Lookup(t) /\ ~Insert(t) /\ ~Remove(t) /\ ~AppendTo(t)
      BY <2>2 DEF Lookup, Insert, Remove, AppendTo, Execute
    <3>8. \A r \in RequestsOf[t] : Accept(t, r) => pc'[t] # "idle"
      BY <1>0 DEF Accept, Goto, TypeInv
    <3> QED
      BY <1>2, <2>1, <3>3, <3>4, <3>5, <3>6, <3>7, <3>8 DEF Step
  <2> QED
    BY <1>0, <2>1, <2>2, <2>3, <2>4 DEF CompareSwap, Respond, Fail, Goto, TypeInv
<1>3. CASE Tick \/ UNCHANGED vars
  BY <1>0, <1>3 DEF Tick, vars, Holds
<1> QED
  BY <1>1, <1>2, <1>3 DEF Next

(* "If the current value matches expected, replaces it": though success is *)
(* judged by the value after the swap, two clients whose tokens differ     *)
(* never both read it as having taken the lock.                            *)
THEOREM CasExcludesHolds ==
  ASSUME NEW lock \in Keys, NEW token, OwnTokens(lock, token)
  PROVE  Spec => []CasExcludes
<1>1. Init => LockInv(lock, token)
  <2> SUFFICES ASSUME Init, NEW t \in Tasks PROVE ~Holds(t)
    BY TypeInit DEF LockInv
  <2> QED
    BY DEF Init, Holds, NoRequest
<1>2. LockInv(lock, token) /\ [Next]_vars => LockInv(lock, token)'
  BY LockStep
<1>3. LockInv(lock, token) => CasExcludes
  BY DEF LockInv, CasExcludes, OwnTokens
<1> QED
  BY <1>1, <1>2, <1>3, PTL DEF Spec
-----------------------------------------------------------------------------
(* The counters.                                                           *)

Metrics ==
  [total : Nat, errors : Nat, unrecognized : Nat,
   count : [Opcodes -> Nat], err : [Opcodes -> Nat]]

(* A task that has yet to count its error has settled on the code of an    *)
(* operation that failed, and has given no answer.                         *)
MetricsInv ==
  /\ TypeInv
  /\ metrics \in Metrics
  /\ answers \in [Codes -> Nat]
  /\ IsFiniteSet(Busy)
  /\ \A t \in Tasks : pc[t] = "error" =>
       req[t].op \in Opcodes /\ reply[t].lease \in {"-02", "-04", "-92"}
  /\ MetricsAgree

(* The three balances of MetricsAgree after an answer, and after none.     *)
Balance(told, ok, unknown) ==
  /\ answers' \in [Codes -> Nat]
  /\ Told' = Told + told
  /\ answers'["000"] = answers["000"] + ok
  /\ answers'["-98"] = answers["-98"] + unknown

LEMMA Answering ==
  ASSUME answers \in [Codes -> Nat], NEW c \in Codes,
         answers' = [answers EXCEPT ![c] = @ + 1]
  PROVE  /\ c = "000" => Balance(1, 1, 0)
         /\ c = "-98" => Balance(1, 0, 1)
         /\ c \notin {"000", "-98"} => Balance(1, 0, 0)
<1>1. answers' \in [Codes -> Nat]
  OBVIOUS
<1>2. \A d \in Codes : answers[d] \in Nat /\ answers'[d] = answers[d] + (IF d = c THEN 1 ELSE 0)
  OBVIOUS
<1>3. c \in {"000", "-01", "-02", "-04", "-92", "-98"}
  BY DEF Codes
<1> QED
  BY <1>1, <1>2, <1>3 DEF Balance, Told, Codes

LEMMA Silent ==
  ASSUME answers \in [Codes -> Nat], answers' = answers
  PROVE  Balance(0, 0, 0)
BY DEF Balance, Told, Codes

(* What a step of one task does to the number of the busy ones.            *)
LEMMA BusyStep ==
  ASSUME TypeInv, IsFiniteSet(Busy), NEW t \in Tasks, NEW place \in Places,
         pc' = [pc EXCEPT ![t] = place]
  PROVE  /\ IsFiniteSet(Busy')
         /\ Cardinality(Busy) \in Nat
         /\ Cardinality(Busy') = Cardinality(Busy)
              + (IF pc[t] = "idle" /\ place # "idle" THEN 1
                 ELSE IF pc[t] # "idle" /\ place = "idle" THEN -1 ELSE 0)
<1>1. Busy' = IF place = "idle" THEN Busy \ {t} ELSE Busy \union {t}
  BY DEF Busy, TypeInv
<1>2. t \in Busy <=> pc[t] # "idle"
  BY DEF Busy
<1>3. Cardinality(Busy) \in Nat
  BY FS_CardinalityType
<1>4. CASE place = "idle"
  <2>1. /\ IsFiniteSet(Busy \ {t})
        /\ Cardinality(Busy \ {t}) = IF t \in Busy THEN Cardinality(Busy) - 1 ELSE Cardinality(Busy)
    BY FS_RemoveElement
  <2> QED
    BY <1>1, <1>2, <1>3, <1>4, <2>1
<1>5. CASE place # "idle"
  <2>1. /\ IsFiniteSet(Busy \union {t})
        /\ Cardinality(Busy \union {t}) = IF t \in Busy THEN Cardinality(Busy) ELSE Cardinality(Busy) + 1
    BY FS_AddElement
  <2> QED
    BY <1>1, <1>2, <1>3, <1>5, <2>1
<1> QED
  BY <1>4, <1>5

LEMMA Failing ==
  ASSUME NEW m \in Metrics, NEW o \in Opcodes
  PROVE  /\ LET f == [m EXCEPT !.errors = @ + 1, !.unrecognized = @ + 1]
            IN  /\ f \in Metrics /\ f.total = m.total /\ f.errors = m.errors + 1
                /\ f.unrecognized = m.unrecognized + 1
         /\ LET f == [m EXCEPT !.errors = @ + 1, !.err[o] = @ + 1]
            IN  /\ f \in Metrics /\ f.total = m.total /\ f.errors = m.errors + 1
                /\ f.unrecognized = m.unrecognized
<1> DEFINE more == [m EXCEPT !.errors = @ + 1]
<1>1. /\ more \in Metrics /\ more.total = m.total /\ more.errors = m.errors + 1
      /\ more.unrecognized = m.unrecognized /\ more.err = m.err
  BY DEF Metrics
<1>2. m.unrecognized + 1 \in Nat /\ [m.err EXCEPT ![o] = m.err[o] + 1] \in [Opcodes -> Nat]
  BY DEF Metrics
<1>3. ASSUME NEW f, f = [m EXCEPT !.errors = @ + 1, !.unrecognized = @ + 1]
      PROVE  /\ f \in Metrics /\ f.total = m.total /\ f.errors = m.errors + 1
             /\ f.unrecognized = m.unrecognized + 1
  <2>1. f = [more EXCEPT !.unrecognized = m.unrecognized + 1]
    BY <1>3
  <2> HIDE DEF more
  <2> QED
    BY <1>1, <1>2, <2>1 DEF Metrics
<1>4. ASSUME NEW f, f = [m EXCEPT !.errors = @ + 1, !.err[o] = @ + 1]
      PROVE  /\ f \in Metrics /\ f.total = m.total /\ f.errors = m.errors + 1
             /\ f.unrecognized = m.unrecognized
  <2>1. f = [more EXCEPT !.err = [more.err EXCEPT ![o] = m.err[o] + 1]]
    BY <1>4
  <2> HIDE DEF more
  <2> QED
    BY <1>1, <1>2, <2>1 DEF Metrics
<1> QED
  BY <1>3, <1>4

LEMMA MetricsStep == MetricsInv /\ [Next]_vars => MetricsInv'
<1> SUFFICES ASSUME MetricsInv, [Next]_vars PROVE MetricsInv'
  OBVIOUS
<1>0. /\ TypeInv /\ TypeInv'
      /\ metrics \in Metrics /\ answers \in [Codes -> Nat] /\ IsFiniteSet(Busy)
      /\ \A t \in Tasks : pc[t] = "error" =>
           req[t].op \in Opcodes /\ reply[t].lease \in {"-02", "-04", "-92"}
      /\ metrics.total = Told + Cardinality(Busy)
      /\ metrics.errors = Told - answers["000"]
      /\ metrics.unrecognized = answers["-98"]
      /\ Cardinality(Busy) \in Nat /\ Told \in Nat
  <2>1. TypeInv'
    BY TypeStep DEF MetricsInv
  <2>2. Cardinality(Busy) \in Nat
    BY FS_CardinalityType DEF MetricsInv
  <2>3. Told \in Nat
    BY DEF Told, MetricsInv, Codes
  <2> QED
    BY <2>1, <2>2, <2>3 DEF MetricsInv, MetricsAgree
<1>1. CASE Tick \/ UNCHANGED vars
  <2>1. UNCHANGED <<metrics, pc, req, reply, answers>>
    BY <1>1 DEF Tick, vars
  <2>2. Busy' = Busy /\ Told' = Told
    BY <2>1 DEF Busy, Told
  <2> QED
    BY <1>0, <2>1, <2>2 DEF MetricsInv, MetricsAgree
<1>2. ASSUME NEW t \in Tasks, Step(t) \/ \E r \in RequestsOf[t] : Accept(t, r)
      PROVE  MetricsInv'
  (* A task's step is the acceptance of a request, its answer, or neither. *)
  <2> DEFINE Errors(u) == pc[u] = "error" =>
                 req[u].op \in Opcodes /\ reply[u].lease \in {"-02", "-04", "-92"}
             Settled(total, errors, unknown) ==
               /\ metrics' \in Metrics
               /\ metrics'.total = metrics.total + total
               /\ metrics'.errors = metrics.errors + errors
               /\ metrics'.unrecognized = metrics.unrecognized + unknown
             Entered == Settled(1, 0, 0) /\ pc[t] = "idle" /\ Balance(0, 0, 0)
             Passed == Settled(0, 0, 0) /\ pc[t] # "idle" /\ Balance(0, 0, 0)
             Left(ok, unknown) == /\ Settled(0, 1 - ok, unknown) /\ pc[t] # "idle"
                                  /\ Balance(1, ok, unknown)
  <2>1. Apart(t)
    BY <1>0, <1>2, TaskStep
  <2>2. ASSUME NEW place \in Places \ {"idle"}, Goto(t, place), Entered \/ Passed, Errors(t)'
        PROVE  MetricsInv'
    <3>1. /\ IsFiniteSet(Busy')
          /\ Cardinality(Busy') = Cardinality(Busy) + (IF pc[t] = "idle" THEN 1 ELSE 0)
      BY <1>0, <2>2, BusyStep DEF Goto
    <3>2. /\ metrics' \in Metrics /\ answers' \in [Codes -> Nat]
          /\ metrics'.total = metrics.total + (IF pc[t] = "idle" THEN 1 ELSE 0)
          /\ metrics'.errors = metrics.errors + 0
          /\ metrics'.unrecognized = metrics.unrecognized + 0
          /\ Told' = Told + 0
          /\ answers'["000"] = answers["000"] + 0 /\ answers'["-98"] = answers["-98"] + 0
      BY <2>2 DEF Balance
    <3>3. /\ answers["000"] \in Nat /\ answers["-98"] \in Nat
          /\ metrics.total \in Nat /\ metrics.errors \in Nat /\ metrics.unrecognized \in Nat
      BY <1>0 DEF Codes, Metrics
    <3>4. MetricsAgree'
      BY <1>0, <3>1, <3>2, <3>3 DEF MetricsAgree
    <3>5. \A u \in Tasks : Errors(u)'
      BY <1>0, <2>1, <2>2 DEF Apart
    <3> QED
      BY <1>0, <3>1, <3>2, <3>4, <3>5 DEF MetricsInv
  <2>3. ASSUME NEW ok \in {0, 1}, NEW unknown \in {0, 1}, Goto(t, "idle"), Left(ok, unknown)
        PROVE  MetricsInv'
    <3>1. IsFiniteSet(Busy') /\ Cardinality(Busy') = Cardinality(Busy) - 1
      BY <1>0, <2>3, BusyStep DEF Goto, Places
    <3>2. /\ metrics' \in Metrics /\ answers' \in [Codes -> Nat]
          /\ metrics'.total = metrics.total + 0
          /\ metrics'.errors = metrics.errors + (1 - ok)
          /\ metrics'.unrecognized = metrics.unrecognized + unknown
          /\ Told' = Told + 1
          /\ answers'["000"] = answers["000"] + ok /\ answers'["-98"] = answers["-98"] + unknown
      BY <2>3 DEF Balance
    <3>3. /\ answers["000"] \in Nat /\ answers["-98"] \in Nat
          /\ metrics.total \in Nat /\ metrics.errors \in Nat /\ metrics.unrecognized \in Nat
      BY <1>0 DEF Codes, Metrics
    <3>4. MetricsAgree'
      BY <1>0, <3>1, <3>2, <3>3 DEF MetricsAgree
    <3>5. pc'[t] = "idle"
      BY <1>0, <2>3 DEF Goto, TypeInv
    <3>6. \A u \in Tasks : Errors(u)'
      BY <1>0, <2>1, <3>5 DEF Apart
    <3> QED
      BY <1>0, <3>1, <3>2, <3>4, <3>6 DEF MetricsInv
  <2>e. ASSUME NEW unknown \in {0, 1}, metrics' \in Metrics, metrics'.total = metrics.total,
               metrics'.errors = metrics.errors + 1,
               metrics'.unrecognized = IF unknown = 0 THEN metrics.unrecognized
                                       ELSE metrics.unrecognized + 1
        PROVE  Settled(0, 1 - 0, unknown)
    <3>1. metrics.total \in Nat /\ metrics.errors \in Nat /\ metrics.unrecognized \in Nat
      BY <1>0 DEF Metrics
    <3> QED
      BY <2>e, <3>1
  <2>4. ASSUME metrics' = metrics PROVE Settled(0, 0, 0)
    BY <1>0, <2>4 DEF Metrics
  <2>5. answers' = answers => Balance(0, 0, 0)
    BY <1>0, Silent
  <2>6. ASSUME NEW c \in Codes, NEW v, Respond(t, c, v)
        PROVE  /\ Goto(t, "idle")
               /\ c = "000" => Balance(1, 1, 0)
               /\ c = "-98" => Balance(1, 0, 1)
               /\ c \notin {"000", "-98"} => Balance(1, 0, 0)
    BY <1>0, <2>6, Answering DEF Respond
  <2>7. ASSUME NEW c \in {"-02", "-04", "-92"}, NEW v, Fail(t, c, v),
               req'[t].op \in Opcodes
        PROVE  Goto(t, "error") /\ answers' = answers /\ Errors(t)'
    BY <1>0, <2>7 DEF Fail, TypeInv
  <2> HIDE DEF Settled
  <2>8. ASSUME metrics' = metrics, pc[t] # "idle" PROVE
          /\ \A v : \A c \in {"-02", "-04", "-92"} : Fail(t, c, v) /\ req'[t].op \in Opcodes => MetricsInv'
          /\ \A place \in Places \ {"idle", "error"} :
               Goto(t, place) /\ answers' = answers => MetricsInv'
    <3>1. ASSUME NEW c \in {"-02", "-04", "-92"}, NEW v, Fail(t, c, v), req'[t].op \in Opcodes
          PROVE  MetricsInv'
      BY <2>2, <2>4, <2>5, <2>7, <2>8, <3>1 DEF Places
    <3>2. ASSUME NEW place \in Places \ {"idle", "error"}, Goto(t, place), answers' = answers
          PROVE  MetricsInv'
      <4>1. Errors(t)'
        BY <1>0, <3>2 DEF Goto, TypeInv
      <4> QED
        BY <2>2, <2>4, <2>5, <2>8, <3>2, <4>1
    <3> QED
      BY <3>1, <3>2
  <2>9. ASSUME metrics' = metrics, pc[t] # "idle", NEW v, Respond(t, "000", v)
        PROVE  MetricsInv'
    <3>1. Goto(t, "idle") /\ Balance(1, 1, 0)
      BY <2>6, <2>9 DEF Codes
    <3>2. Settled(0, 1 - 1, 0)
      BY <2>4, <2>9
    <3> QED
      BY <2>3, <2>9, <3>1, <3>2
  <2>10. CASE \E r \in RequestsOf[t] : Accept(t, r)
    <3>1. /\ pc[t] = "idle" /\ metrics' = [metrics EXCEPT !.total = @ + 1]
          /\ Goto(t, "validate") /\ answers' = answers
      BY <2>10 DEF Accept
    <3>2. Settled(1, 0, 0)
      BY <1>0, <3>1 DEF Metrics, Settled
    <3>3. Errors(t)'
      BY <1>0, <3>1 DEF Goto, TypeInv
    <3> QED
      BY <2>2, <2>5, <3>1, <3>2, <3>3 DEF Places
  <2>11. CASE RejectEmptyKey(t)
    <3>1. /\ pc[t] # "idle" /\ Respond(t, "-01", Absent)
          /\ metrics' = IF req[t].op \in Opcodes
                        THEN [metrics EXCEPT !.errors = @ + 1, !.err[req[t].op] = @ + 1]
                        ELSE [metrics EXCEPT !.errors = @ + 1]
      BY <2>11 DEF RejectEmptyKey
    <3>2. /\ metrics' \in Metrics /\ metrics'.total = metrics.total
          /\ metrics'.errors = metrics.errors + 1
          /\ metrics'.unrecognized = metrics.unrecognized
      <4>1. CASE req[t].op \in Opcodes
        BY <1>0, <3>1, <4>1, Failing
      <4>2. CASE req[t].op \notin Opcodes
        BY <1>0, <3>1, <4>2 DEF Metrics
      <4> QED
        BY <4>1, <4>2
    <3>3. Goto(t, "idle") /\ Balance(1, 0, 0) /\ Settled(0, 1 - 0, 0)
      BY <2>e, <2>6, <3>1, <3>2 DEF Codes
    <3> QED
      BY <2>3, <3>1, <3>3
  <2>12. CASE RejectOpcode(t)
    <3>1. /\ pc[t] # "idle" /\ Respond(t, "-98", Absent)
          /\ metrics' = [metrics EXCEPT !.errors = @ + 1, !.unrecognized = @ + 1]
      BY <2>12 DEF RejectOpcode
    <3>2. /\ metrics' \in Metrics /\ metrics'.total = metrics.total
          /\ metrics'.errors = metrics.errors + 1
          /\ metrics'.unrecognized = metrics.unrecognized + 1
      <4>1. "LOOKUP" \in Opcodes
        BY DEF Opcodes
      <4> QED
        BY <1>0, <3>1, <4>1, Failing
    <3>3. Goto(t, "idle") /\ Balance(1, 0, 1) /\ Settled(0, 1 - 0, 1)
      BY <2>e, <2>6, <3>1, <3>2 DEF Codes
    <3> QED
      BY <2>3, <3>1, <3>3
  <2>13. CASE Count(t)
    <3>1. /\ pc[t] # "idle" /\ req[t].op \in Opcodes
          /\ metrics' = [metrics EXCEPT !.count[req[t].op] = @ + 1]
          /\ Goto(t, "execute") /\ answers' = answers
      BY <2>13 DEF Count
    <3>2. Settled(0, 0, 0)
      BY <1>0, <3>1 DEF Metrics, Settled
    <3>3. Errors(t)'
      BY <1>0, <3>1 DEF Goto, TypeInv
    <3> QED
      BY <2>2, <2>5, <3>1, <3>2, <3>3 DEF Places
  <2>14. ASSUME NEW op \in Opcodes, Execute(t, op)
         PROVE  pc[t] # "idle" /\ metrics' = metrics /\ req'[t].op \in Opcodes
    BY <2>14 DEF Execute
  <2>15. CASE Lookup(t) \/ Remove(t)
    <3>1. \/ \E v : Respond(t, "000", v)
          \/ Fail(t, "-92", Absent)
      BY <2>15 DEF Lookup, Remove
    <3>2. Execute(t, "LOOKUP") \/ Execute(t, "REMOVE")
      BY <2>15 DEF Lookup, Remove
    <3> QED
      BY <2>8, <2>9, <2>14, <3>1, <3>2 DEF Opcodes
  <2>16. CASE Insert(t) \/ AppendTo(t)
    BY <2>9, <2>14, <2>16 DEF Opcodes, Insert, AppendTo
  <2>17. CASE CompareSwap(t)
    <3>1. \/ \E v : Respond(t, "000", v)
          \/ \E v : Fail(t, "-02", v)
      BY <2>17 DEF CompareSwap
    <3>2. Execute(t, "CMPSWP")
      BY <2>17 DEF CompareSwap
    <3> QED
      BY <2>8, <2>9, <2>14, <3>1, <3>2 DEF Opcodes
  <2>18. CASE StartPolling(t)
    <3>1. Execute(t, "STCHGCB") /\ Goto(t, "poll") /\ answers' = answers
      BY <2>18 DEF StartPolling
    <3> QED
      BY <2>8, <2>14, <3>1 DEF Opcodes, Places
  <2>19. CASE Poll(t)
    <3>1. /\ pc[t] # "idle" /\ metrics' = metrics
          /\ \/ Respond(t, "000", Absent)
             \/ Goto(t, "missed") /\ answers' = answers
      BY <2>19 DEF Poll
    <3> QED
      BY <2>8, <2>9, <3>1 DEF Places
  <2>20. CASE Expire(t)
    <3>1. pc[t] = "missed" /\ metrics' = metrics /\ req' = req /\ Fail(t, "-04", Absent)
      BY <2>20 DEF Expire
    <3>2. req'[t].op \in Opcodes
      BY <1>0, <3>1 DEF TypeInv, Opcodes
    <3> QED
      BY <2>8, <3>1, <3>2
  <2>21. CASE Sleep(t)
    <3>1. pc[t] # "idle" /\ metrics' = metrics /\ Goto(t, "poll") /\ answers' = answers
      BY <2>21 DEF Sleep
    <3> QED
      BY <2>8, <3>1 DEF Places
  <2>22. CASE CountError(t)
    <3>1. /\ pc[t] = "error" /\ Respond(t, reply[t].lease, reply[t].val)
          /\ metrics' = [metrics EXCEPT !.errors = @ + 1, !.err[req[t].op] = @ + 1]
      BY <2>22 DEF CountError
    <3>2. req[t].op \in Opcodes /\ reply[t].lease \in {"-02", "-04", "-92"}
      BY <1>0, <3>1
    <3>3. /\ metrics' \in Metrics /\ metrics'.total = metrics.total
          /\ metrics'.errors = metrics.errors + 1
          /\ metrics'.unrecognized = metrics.unrecognized
      BY <1>0, <3>1, <3>2, Failing
    <3>4. Goto(t, "idle") /\ Balance(1, 0, 0) /\ Settled(0, 1 - 0, 0)
      BY <2>e, <2>6, <3>1, <3>2, <3>3 DEF Codes
    <3> QED
      BY <2>3, <3>1, <3>4
  <2> QED
    BY <1>2, <2>10, <2>11, <2>12, <2>13, <2>15, <2>16, <2>17, <2>18, <2>19, <2>20, <2>21, <2>22
      DEF Step
<1> QED
  BY <1>1, <1>2 DEF Next

(* "Total number of operations processed", "Total number of errors         *)
(* encountered": every request is counted once, and every answer but "000" *)
(* is one error, whatever the order in which the tasks take the mutex.     *)
THEOREM MetricsAgreeHolds == Spec => []MetricsAgree
<1>1. Init => MetricsInv
  <2> SUFFICES ASSUME Init PROVE MetricsInv
    OBVIOUS
  <2>1. metrics = NoMetrics /\ answers = [c \in Codes |-> 0] /\ \A t \in Tasks : pc[t] = "idle"
    BY DEF Init
  <2>2. Busy = {}
    BY <2>1 DEF Busy
  <2>3. IsFiniteSet(Busy) /\ Cardinality(Busy) = 0
    BY <2>2, FS_EmptySet
  <2>4. Told = 0 /\ answers["000"] = 0 /\ answers["-98"] = 0
    BY <2>1 DEF Told, Codes
  <2>5. metrics \in Metrics /\ metrics.total = 0 /\ metrics.errors = 0 /\ metrics.unrecognized = 0
    BY <2>1 DEF NoMetrics, Metrics
  <2> QED
    BY TypeInit, <2>1, <2>3, <2>4, <2>5 DEF MetricsInv, MetricsAgree
<1>2. MetricsInv => MetricsAgree
  BY DEF MetricsInv
<1> QED
  BY <1>1, <1>2, MetricsStep, PTL DEF Spec
=============================================================================
