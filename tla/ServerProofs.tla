---------------------------- MODULE ServerProofs ----------------------------
(***************************************************************************)
(* Theorems about Server, for any files, connections, requests and errors: *)
(* the counters, the types, and the members that the files name.  In the   *)
(* end the cache of zht-cache, on which the crate of the server depends    *)
(* but which it does not use: any keys, values and capacity.               *)
(***************************************************************************)
EXTENDS Server, LruCache, FiniteSetTheorems, SequenceTheorems, TLAPS

-----------------------------------------------------------------------------
(* The counters.                                                           *)

Places == {"boot", "refused", "bind", "serving", "abort", "status", "load",
           "load_sent", "flush", "exited"}
HandlerPlaces == {"none", "accepted", "receive", "process", "respond", "send",
                  "closed", "failed"}

Counted == {c \in Conns : conn[c] \notin {"none", "closed"}}
InProcess == {c \in Conns : conn[c] = "process"}

(* The gauge counts the connections that were not counted as closed, of    *)
(* which there are finitely many at any time, however many are to come.    *)
GaugeInv ==
  /\ conn \in [Conns -> HandlerPlaces]
  /\ metrics \in [accepted : Nat, active : Nat, received : Nat, sent : Nat]
  /\ IsFiniteSet(Counted)
  /\ metrics.active = Cardinality(Counted)

(* Every message counted as received has been processed or is about to be, *)
(* and a status holds a number of operations from before.                  *)
OrderInv ==
  /\ main \in Places
  /\ ops \in Nat
  /\ status \in [ops : Nat, received : Nat, sent : Nat]
  /\ IsFiniteSet(InProcess)
  /\ metrics.received = ops + Cardinality(InProcess)
  /\ status.ops <= ops
  /\ StatusOrdered

CountInv == GaugeInv /\ OrderInv

LEMMA CountInit == Init => CountInv
<1> SUFFICES ASSUME Init PROVE CountInv
  OBVIOUS
<1>1. Counted = {} /\ InProcess = {}
  BY DEF Init, Started, Counted, InProcess
<1>2. IsFiniteSet({}) /\ Cardinality({}) = 0
  BY FS_EmptySet
<1>3. GaugeInv
  BY <1>1, <1>2 DEF Init, Started, GaugeInv, HandlerPlaces, NoMetrics
<1>4. OrderInv
  BY <1>1, <1>2 DEF Init, Started, Wired, OrderInv, Places, NoMetrics, NoStatus, StatusOrdered
<1> QED
  BY <1>3, <1>4 DEF CountInv

(* Steps of main and of the health checker move no connection.             *)
LEMMA CountsUnmoved ==
  ASSUME CountInv, UNCHANGED <<conn, metrics, ops, status>>, main' \in Places,
         main' \in {"load_sent", "flush", "exited"} => main \in {"load_sent", "flush", "exited"}
  PROVE  CountInv'
BY DEF CountInv, GaugeInv, OrderInv, Counted, InProcess, StatusOrdered

(* Steps of a handler that leave main, the operations and the status alone *)
(* and neither enter nor leave "process".                                  *)
LEMMA OrderUnmoved ==
  ASSUME OrderInv, UNCHANGED <<main, ops, status>>, InProcess' = InProcess,
         metrics'.received = metrics.received
  PROVE  OrderInv'
BY DEF OrderInv, StatusOrdered

(* Steps of a handler that leave its connection open.                      *)
LEMMA GaugeUnmoved ==
  ASSUME GaugeInv, Counted' = Counted, metrics'.active = metrics.active,
         conn' \in [Conns -> HandlerPlaces],
         metrics' \in [accepted : Nat, active : Nat, received : Nat, sent : Nat]
  PROVE  GaugeInv'
BY DEF GaugeInv

LEMMA HandlerMoves ==
  ASSUME GaugeInv, NEW c \in Conns, NEW from, NEW to \in HandlerPlaces, Handler(c, from, to)
  PROVE  /\ conn[c] = from
         /\ conn' \in [Conns -> HandlerPlaces]
         /\ UNCHANGED <<main, status>>
         /\ Counted' = IF to = "closed" \/ to = "none" THEN Counted \ {c} ELSE Counted \union {c}
         /\ InProcess' = IF to = "process" THEN InProcess \union {c} ELSE InProcess \ {c}
BY DEF GaugeInv, Handler, Counted, InProcess

LEMMA CountStep ==
  ASSUME CountInv, [Next]_vars
  PROVE  CountInv'
<1> USE DEF CountInv
<1>0. /\ metrics \in [accepted : Nat, active : Nat, received : Nat, sent : Nat]
      /\ ops \in Nat
  BY DEF GaugeInv, OrderInv
<1>1. ASSUME NEW c \in Conns, Accept(c) PROVE CountInv'
  <2>1. /\ conn' = [conn EXCEPT ![c] = "accepted"] /\ conn[c] = "none"
        /\ metrics' = [metrics EXCEPT !.accepted = @ + 1, !.active = @ + 1]
        /\ UNCHANGED <<main, ops, status>>
    BY <1>1 DEF Accept, Accepted
  <2>2. Counted' = Counted \union {c} /\ c \notin Counted /\ InProcess' = InProcess
    BY <2>1 DEF GaugeInv, Counted, InProcess
  <2>3. IsFiniteSet(Counted') /\ Cardinality(Counted') = Cardinality(Counted) + 1
    BY <2>2, FS_AddElement DEF GaugeInv
  <2>4. conn' \in [Conns -> HandlerPlaces]
    BY <2>1 DEF GaugeInv, HandlerPlaces
  <2>5. /\ metrics'.active = metrics.active + 1 /\ metrics'.received = metrics.received
        /\ metrics' \in [accepted : Nat, active : Nat, received : Nat, sent : Nat]
    <3>1. metrics.accepted + 1 \in Nat /\ metrics.active + 1 \in Nat
      BY <1>0
    <3> QED
      BY <1>0, <2>1, <3>1
  <2>6. GaugeInv'
    BY <2>3, <2>4, <2>5 DEF GaugeInv
  <2>7. OrderInv'
    BY <2>1, <2>2, <2>5, OrderUnmoved
  <2> QED
    BY <2>6, <2>7
<1>2. ASSUME NEW c \in Conns, NodelaySet(c) PROVE CountInv'
  <2>1. Handler(c, "accepted", "receive") /\ UNCHANGED <<metrics, ops>>
    BY <1>2 DEF NodelaySet
  <2>2. Counted' = Counted /\ InProcess' = InProcess
    BY <2>1, HandlerMoves DEF Counted, InProcess, HandlerPlaces
  <2> QED
    BY <1>0, <2>1, <2>2, HandlerMoves, GaugeUnmoved, OrderUnmoved DEF HandlerPlaces
<1>3. ASSUME NEW c \in Conns, NodelayFails(c) PROVE CountInv'
  <2>1. Handler(c, "accepted", "failed") /\ UNCHANGED <<metrics, ops>>
    BY <1>3 DEF NodelayFails
  <2>2. Counted' = Counted /\ InProcess' = InProcess
    BY <2>1, HandlerMoves DEF Counted, InProcess, HandlerPlaces
  <2> QED
    BY <1>0, <2>1, <2>2, HandlerMoves, GaugeUnmoved, OrderUnmoved DEF HandlerPlaces
<1>4. ASSUME NEW c \in Conns, NEW r \in Request, Receive(c, r) PROVE CountInv'
  <2>1. /\ Handler(c, "receive", "process") /\ UNCHANGED ops
        /\ metrics' = [metrics EXCEPT !.received = @ + 1]
    BY <1>4 DEF Receive, Received
  <2>2. /\ Counted' = Counted /\ InProcess' = InProcess \union {c} /\ c \notin InProcess
        /\ UNCHANGED <<main, status>> /\ conn' \in [Conns -> HandlerPlaces]
    BY <2>1, HandlerMoves DEF Counted, InProcess, HandlerPlaces
  <2>3. GaugeInv'
    BY <1>0, <2>1, <2>2, GaugeUnmoved
  <2>4. IsFiniteSet(InProcess') /\ Cardinality(InProcess') = Cardinality(InProcess) + 1
    BY <2>2, FS_AddElement DEF OrderInv
  <2>5. metrics'.received = ops' + Cardinality(InProcess')
    <3>1. IsFiniteSet(InProcess) /\ Cardinality(InProcess) \in Nat
      BY FS_CardinalityType DEF OrderInv
    <3> QED
      BY <1>0, <2>1, <2>4, <3>1 DEF OrderInv
  <2>6. OrderInv'
    BY <2>1, <2>2, <2>4, <2>5 DEF OrderInv, StatusOrdered
  <2> QED
    BY <2>3, <2>6
<1>5. ASSUME NEW c \in Conns, Process(c) PROVE CountInv'
  <2>1. Handler(c, "process", "respond") /\ UNCHANGED metrics /\ ops' = ops + 1
    BY <1>5 DEF Process
  <2>2. /\ Counted' = Counted /\ InProcess' = InProcess \ {c} /\ c \in InProcess
        /\ UNCHANGED <<main, status>> /\ conn' \in [Conns -> HandlerPlaces]
    BY <2>1, HandlerMoves DEF Counted, InProcess, HandlerPlaces
  <2>3. GaugeInv'
    BY <1>0, <2>1, <2>2, GaugeUnmoved
  <2>4. IsFiniteSet(InProcess') /\ Cardinality(InProcess') = Cardinality(InProcess) - 1
    BY <2>2, FS_RemoveElement DEF OrderInv
  <2>5. Cardinality(InProcess) \in Nat
    BY FS_CardinalityType DEF OrderInv
  <2>6. OrderInv'
    BY <1>0, <2>1, <2>2, <2>4, <2>5 DEF OrderInv, StatusOrdered
  <2> QED
    BY <2>3, <2>6
<1>6. ASSUME NEW c \in Conns, Respond(c) PROVE CountInv'
  <2>1. /\ Handler(c, "respond", "send") /\ UNCHANGED ops
        /\ metrics' = [metrics EXCEPT !.sent = @ + 1]
    BY <1>6 DEF Respond, Sent
  <2>2. Counted' = Counted /\ InProcess' = InProcess
    BY <2>1, HandlerMoves DEF Counted, InProcess, HandlerPlaces
  <2>3. metrics' \in [accepted : Nat, active : Nat, received : Nat, sent : Nat]
        /\ metrics'.active = metrics.active /\ metrics'.received = metrics.received
    BY <1>0, <2>1
  <2> QED
    BY <2>1, <2>2, <2>3, HandlerMoves, GaugeUnmoved, OrderUnmoved DEF HandlerPlaces
<1>7. ASSUME NEW c \in Conns, Send(c) PROVE CountInv'
  <2>1. Handler(c, "send", "receive") /\ UNCHANGED <<metrics, ops>>
    BY <1>7 DEF Send
  <2>2. Counted' = Counted /\ InProcess' = InProcess
    BY <2>1, HandlerMoves DEF Counted, InProcess, HandlerPlaces
  <2> QED
    BY <1>0, <2>1, <2>2, HandlerMoves, GaugeUnmoved, OrderUnmoved DEF HandlerPlaces
<1>8. ASSUME NEW c \in Conns, Close(c) PROVE CountInv'
  <2>1. PICK from \in {"receive", "send"} : Handler(c, from, "closed")
    BY <1>8 DEF Close
  <2>2. metrics' = [metrics EXCEPT !.active = @ - 1] /\ UNCHANGED ops
    BY <1>8 DEF Close, Closed
  <2>3. /\ Counted' = Counted \ {c} /\ c \in Counted /\ InProcess' = InProcess
        /\ UNCHANGED <<main, status>> /\ conn' \in [Conns -> HandlerPlaces]
    BY <2>1, HandlerMoves DEF Counted, InProcess, HandlerPlaces
  <2>4. IsFiniteSet(Counted') /\ Cardinality(Counted') = Cardinality(Counted) - 1
        /\ Cardinality(Counted') \in Nat
    BY <2>3, FS_RemoveElement, FS_CardinalityType DEF GaugeInv
  <2>5. metrics'.active = Cardinality(Counted') /\ metrics'.received = metrics.received
        /\ metrics' \in [accepted : Nat, active : Nat, received : Nat, sent : Nat]
    BY <1>0, <2>2, <2>4 DEF GaugeInv
  <2>6. GaugeInv'
    BY <2>3, <2>4, <2>5 DEF GaugeInv
  <2>7. OrderInv'
    BY <2>2, <2>3, <2>5, OrderUnmoved
  <2> QED
    BY <2>6, <2>7
<1>9. CASE Refuse \/ OpenFails \/ Boot \/ Bind \/ BindFails
  BY <1>9, CountsUnmoved DEF Refuse, OpenFails, Boot, Bind, BindFails, Places
<1>10. CASE StopAccepting \/ AcceptError \/ Shutdown
  BY <1>10, CountsUnmoved DEF StopAccepting, AcceptError, Shutdown, OrderInv, Places
<1>11. CASE HealthTick \/ CheckerStops \/ \E i \in 1..Len(members) : Aging(i)
  BY <1>11, CountsUnmoved DEF HealthTick, CheckerStops, Aging, OrderInv
<1>12. CASE AbortTasks
  BY <1>12, CountsUnmoved DEF AbortTasks, Main, Places
<1>13. CASE UpdateWorkerMetrics
  <2>1. /\ main' = "load" /\ UNCHANGED <<conn, metrics, ops>>
        /\ status' = [status EXCEPT !.ops = ops]
    BY <1>13 DEF UpdateWorkerMetrics, Main
  <2>2. GaugeInv' /\ InProcess' = InProcess
    BY <2>1 DEF GaugeInv, Counted, InProcess
  <2> QED
    BY <2>1, <2>2 DEF OrderInv, StatusOrdered, Places
<1>14. CASE LoadReceived
  <2>1. /\ main' = "load_sent" /\ UNCHANGED <<conn, metrics, ops>>
        /\ status' = [status EXCEPT !.received = metrics.received]
    BY <1>14 DEF LoadReceived, Main
  <2>2. GaugeInv' /\ InProcess' = InProcess
    BY <2>1 DEF GaugeInv, Counted, InProcess
  <2>3. Cardinality(InProcess) \in Nat
    BY FS_CardinalityType DEF OrderInv
  <2>4. status'.ops <= status'.received
    BY <1>0, <2>1, <2>3 DEF OrderInv
  <2> QED
    BY <1>0, <2>1, <2>2, <2>4 DEF OrderInv, StatusOrdered, Places
<1>15. CASE LoadSent
  <2>1. /\ main = "load_sent" /\ main' = "flush" /\ UNCHANGED <<conn, metrics, ops>>
        /\ status' = [status EXCEPT !.sent = metrics.sent]
    BY <1>15 DEF LoadSent, Main
  <2>2. GaugeInv' /\ InProcess' = InProcess
    BY <2>1 DEF GaugeInv, Counted, InProcess
  <2> QED
    BY <1>0, <2>1, <2>2 DEF OrderInv, StatusOrdered, Places
<1>16. CASE Flush
  BY <1>16, CountsUnmoved DEF Flush, Main, Places
<1>17. CASE UNCHANGED vars
  BY <1>17, CountsUnmoved DEF vars, OrderInv
<1> QED
  BY <1>1, <1>2, <1>3, <1>4, <1>5, <1>6, <1>7, <1>8, <1>9, <1>10, <1>11, <1>12, <1>13,
     <1>14, <1>15, <1>16, <1>17 DEF Next, Ending

(* A handler that set_nodelay ended, past the line that counts it as       *)
(* closed, has used up an error.                                           *)
Failed == {c \in Conns : conn[c] = "failed"}

FailedInv ==
  /\ used \in [requests : Nat, aging : Nat, errors : Nat]
  /\ IsFiniteSet(Failed)
  /\ Cardinality(Failed) <= used.errors

LEMMA FailedInit == Init => FailedInv
<1> SUFFICES ASSUME Init PROVE FailedInv
  OBVIOUS
<1>1. Failed = {}
  BY DEF Init, Started, Failed
<1> QED
  BY <1>1, FS_EmptySet DEF Init, FailedInv

LEMMA FailedStep ==
  ASSUME GaugeInv, FailedInv, [Next]_vars
  PROVE  FailedInv'
<1>0. /\ used \in [requests : Nat, aging : Nat, errors : Nat]
      /\ conn \in [Conns -> HandlerPlaces]
      /\ Cardinality(Failed) \in Nat /\ Cardinality(Failed) <= used.errors
  BY FS_CardinalityType DEF FailedInv, GaugeInv
<1>1. ASSUME NEW what \in {"requests", "aging", "errors"}, NEW bound, Use(what, bound)
      PROVE  /\ used' \in [requests : Nat, aging : Nat, errors : Nat]
             /\ used'.errors = IF what = "errors" THEN used.errors + 1 ELSE used.errors
  BY <1>0, <1>1 DEF Use
<1>2. ASSUME Failed' = Failed,
             used' = used \/ \E what \in {"requests", "aging", "errors"}, bound \in {MaxRequests, MaxAging, MaxErrors} :
                               Use(what, bound)
      PROVE  FailedInv'
  <2>1. used' \in [requests : Nat, aging : Nat, errors : Nat] /\ used'.errors >= used.errors
    BY <1>0, <1>1, <1>2
  <2> QED
    BY <1>0, <1>2, <2>1 DEF FailedInv
<1>3. ASSUME NEW c \in Conns, NEW from, NEW to \in HandlerPlaces \ {"failed"},
             Handler(c, from, to), from # "failed"
      PROVE  Failed' = Failed
  BY <1>0, <1>3 DEF Handler, Failed
<1>4. ASSUME NEW c \in Conns, Accept(c) PROVE FailedInv'
  <2>1. Failed' = Failed
    BY <1>0, <1>4 DEF Accept, Failed
  <2> QED
    BY <1>2, <1>4, <2>1 DEF Accept
<1>5. ASSUME NEW c \in Conns, NodelayFails(c) PROVE FailedInv'
  <2>1. Use("errors", MaxErrors) /\ Handler(c, "accepted", "failed")
    BY <1>5 DEF NodelayFails
  <2>2. Failed' = Failed \union {c} /\ c \notin Failed
    BY <1>0, <2>1 DEF Handler, Failed
  <2>3. IsFiniteSet(Failed') /\ Cardinality(Failed') = Cardinality(Failed) + 1
    BY <2>2, FS_AddElement DEF FailedInv
  <2>4. used' \in [requests : Nat, aging : Nat, errors : Nat] /\ used'.errors = used.errors + 1
    BY <1>1, <2>1
  <2> QED
    BY <1>0, <2>3, <2>4 DEF FailedInv
<1>6. ASSUME NEW c \in Conns, NEW r \in Request, Receive(c, r) PROVE FailedInv'
  BY <1>2, <1>3, <1>6 DEF Receive, HandlerPlaces
<1>7. ASSUME NEW c \in Conns, NodelaySet(c) \/ Process(c) \/ Respond(c) \/ Send(c) \/ Close(c)
      PROVE  FailedInv'
  BY <1>2, <1>3, <1>7 DEF NodelaySet, Process, Respond, Send, Close, HandlerPlaces
<1>8. CASE UNCHANGED conn
  <2>1. Failed' = Failed
    BY <1>8 DEF Failed
  <2>2. used' = used \/ \E what \in {"requests", "aging", "errors"}, bound \in {MaxRequests, MaxAging, MaxErrors} :
                          Use(what, bound)
    BY <1>4, <1>5, <1>6, <1>7 DEF Next, vars, Accept, NodelaySet, NodelayFails, Receive, Process,
       Respond, Send, Close, Refuse, OpenFails, Boot, Bind, BindFails, StopAccepting, AcceptError,
       Shutdown, HealthTick, CheckerStops, Aging, Ending, AbortTasks, UpdateWorkerMetrics,
       LoadReceived, LoadSent, Flush, Main
  <2> QED
    BY <1>2, <2>1, <2>2
<1>9. CASE conn' # conn
  BY <1>4, <1>5, <1>6, <1>7, <1>9 DEF Next, vars, Refuse, OpenFails, Boot, Bind, BindFails,
     StopAccepting, AcceptError, Shutdown, HealthTick, CheckerStops, Aging, Ending, AbortTasks,
     UpdateWorkerMetrics, LoadReceived, LoadSent, Flush, Main
<1> QED
  BY <1>8, <1>9

(* "Currently active connections": for any number of connections, the      *)
(* gauge counts every handler that has not ended, and besides them no more *)
(* than one for each error.                                                *)
THEOREM ActiveWithinErrorsHolds == Spec => []ActiveWithinErrors
<1>1. GaugeInv /\ FailedInv => ActiveWithinErrors
  <2> SUFFICES ASSUME GaugeInv, FailedInv PROVE ActiveWithinErrors
    OBVIOUS
  <2>1. Counted = Open \union Failed /\ Open \intersect Failed = {} /\ Open \subseteq Counted
    BY DEF Counted, Open, Failed, GaugeInv
  <2>2. IsFiniteSet(Open) /\ IsFiniteSet(Failed)
    BY <2>1, FS_Subset DEF GaugeInv, FailedInv
  <2>3. Cardinality(Counted) = Cardinality(Open) + Cardinality(Failed)
        /\ Cardinality(Open) \in Nat /\ Cardinality(Failed) \in Nat
    <3>1. /\ Cardinality(Open) \in Nat /\ Cardinality(Failed) \in Nat
          /\ Cardinality(Open \intersect Failed) = 0
      BY <2>1, <2>2, FS_EmptySet, FS_CardinalityType
    <3>2. Cardinality(Open \union Failed) =
            Cardinality(Open) + Cardinality(Failed) - Cardinality(Open \intersect Failed)
      BY <2>2, FS_Union
    <3> QED
      BY <2>1, <3>1, <3>2
  <2> QED
    BY <2>3 DEF GaugeInv, FailedInv, ActiveWithinErrors
<1>2. CountInv => GaugeInv
  BY DEF CountInv
<1> QED
  BY <1>1, <1>2, CountInit, CountStep, FailedInit, FailedStep, PTL DEF Spec

(* status() reads the worker's counter first and the messages later: what  *)
(* handlers count in between only adds to the messages.                    *)
THEOREM StatusOrderedHolds == Spec => []StatusOrdered
<1>1. CountInv => StatusOrdered
  BY DEF CountInv, OrderInv
<1> QED
  BY <1>1, CountInit, CountStep, PTL DEF Spec

-----------------------------------------------------------------------------
(* What neighbor.conf makes of the members.                                *)

(* The positions in their order: each of them once, none left out.         *)
Enumerates(P) ==
  /\ Cardinality(P) \in Nat
  /\ \A n \in 1..Cardinality(P) : Nth(P, n) \in P
  /\ \A m, n \in 1..Cardinality(P) : m < n => Nth(P, m) < Nth(P, n)
  /\ \A i \in P : \E n \in 1..Cardinality(P) : Nth(P, n) = i

LEMMA NthEnumerates ==
  ASSUME NEW size \in Nat, NEW P \in SUBSET (1..size)
  PROVE  Enumerates(P)
<1> DEFINE Upto(i) == {j \in P : j <= i}
           c == Cardinality(P)
           count == [i \in P |-> Cardinality(Upto(i))]
<1>1. /\ IsFiniteSet(P) /\ c \in Nat
      /\ \A j \in P : j \in Nat /\ 1 <= j /\ j <= size
  <2>1. IsFiniteSet(1..size)
    BY FS_Interval
  <2>2. IsFiniteSet(P)
    BY <2>1, FS_Subset
  <2>3. \A j \in 1..size : j \in Nat /\ 1 <= j /\ j <= size
    OBVIOUS
  <2> QED
    BY <2>2, <2>3, FS_CardinalityType
<1>2. ASSUME NEW i \in P
      PROVE  /\ Upto(i) \in SUBSET P /\ IsFiniteSet(Upto(i)) /\ i \in Upto(i)
             /\ Cardinality(Upto(i)) \in 1..c
  <2>1. Upto(i) \in SUBSET P /\ i \in Upto(i)
    BY <1>1
  <2> HIDE DEF Upto
  <2>2. IsFiniteSet(Upto(i)) /\ Cardinality(Upto(i)) <= c /\ Cardinality(Upto(i)) \in Nat
    BY <1>1, <2>1, FS_Subset, FS_CardinalityType
  <2>3. Cardinality(Upto(i)) # 0
    BY <2>1, <2>2, FS_EmptySet
  <2> HIDE DEF c
  <2> QED
    BY <1>1, <2>1, <2>2, <2>3
<1>3. ASSUME NEW i \in P, NEW j \in P, i < j
      PROVE  Cardinality(Upto(i)) < Cardinality(Upto(j))
  <2>1. Upto(i) \subseteq Upto(j) /\ j \notin Upto(i)
    <3>1. ~(j <= i) /\ \A x \in P : x <= i => x <= j
      BY <1>1, <1>3
    <3> QED
      BY <3>1
  <2>2. IsFiniteSet(Upto(i)) /\ IsFiniteSet(Upto(j)) /\ j \in Upto(j)
    BY <1>2
  <2> HIDE DEF Upto
  <2>3. /\ Cardinality(Upto(i)) <= Cardinality(Upto(j))
        /\ Cardinality(Upto(i)) # Cardinality(Upto(j))
        /\ Cardinality(Upto(i)) \in Nat /\ Cardinality(Upto(j)) \in Nat
    BY <2>1, <2>2, FS_Subset, FS_CardinalityType
  <2> QED
    BY <2>3
<1>4. /\ count \in [P -> 1..c]
      /\ \A i, j \in P : i < j <=> count[i] < count[j]
  <2>1. \A i \in P : count[i] \in 1..c /\ count[i] = Cardinality(Upto(i))
    BY <1>2
  <2>2. \A i, j \in P : i < j => count[i] < count[j]
    BY <1>3, <2>1
  <2>3. count \in [P -> 1..c]
    BY <2>1
  <2> HIDE DEF count, c
  <2>4. ASSUME NEW i \in P, NEW j \in P, count[i] < count[j] PROVE i < j
    <3>1. i = j \/ i < j \/ j < i
      BY <1>1
    <3>2. count[i] \in Nat /\ count[j] \in Nat
      BY <2>3
    <3> QED
      BY <2>2, <2>4, <3>1, <3>2
  <2> QED
    BY <2>2, <2>3, <2>4
<1>5. \A i, j \in P : count[i] = count[j] => i = j
  <2> HIDE DEF count, c
  <2>1. \A i, j \in P : i = j \/ i < j \/ j < i
    BY <1>1
  <2>2. \A i \in P : count[i] \in Nat
    BY <1>4
  <2> QED
    BY <1>4, <2>1, <2>2
<1>6. \A n \in 1..c : \E i \in P : count[i] = n
  <2>1. count \in Injection(P, 1..c)
    BY <1>4, <1>5 DEF Injection, IsInjective
  <2>2. IsFiniteSet(1..c) /\ Cardinality(1..c) = c
    <3> HIDE DEF c
    <3> QED
      BY <1>1, FS_Interval
  <2>3. count \in Surjection(P, 1..c)
    <3> HIDE DEF count
    <3> QED
      BY <1>1, <2>1, <2>2, FS_Injection
  <2> QED
    BY <2>3 DEF Surjection
<1>7. \A n \in 1..c : Nth(P, n) \in P /\ count[Nth(P, n)] = n
  <2>1. ASSUME NEW n \in 1..c PROVE \E i \in P : Cardinality({j \in P : j <= i}) = n
    BY <1>6
  <2> QED
    BY <2>1 DEF Nth
<1>8. \A m, n \in 1..c : m < n => Nth(P, m) < Nth(P, n)
  <2> HIDE DEF count, c
  <2> QED
    BY <1>4, <1>7
<1>9. \A i \in P : count[i] \in 1..c /\ Nth(P, count[i]) = i
  <2> HIDE DEF count, c
  <2> QED
    BY <1>4, <1>5, <1>7
<1> QED
  BY <1>1, <1>7, <1>8, <1>9 DEF Enumerates

(* Filtering keeps as many entries as it has positions.                    *)
LEMMA FilteredList ==
  ASSUME NEW S, NEW list \in Seq(S), NEW P \in SUBSET (1..Len(list))
  PROVE  /\ Enumerates(P)
         /\ Filtered(list, P) \in Seq(S)
         /\ Len(Filtered(list, P)) = Cardinality(P)
         /\ \A n \in 1..Cardinality(P) : Filtered(list, P)[n] = list[Nth(P, n)]
<1>1. Len(list) \in Nat /\ \A i \in 1..Len(list) : list[i] \in S
  BY LenProperties, ElementOfSeq
<1>2. Enumerates(P)
  BY <1>1, NthEnumerates
<1>3. Cardinality(P) \in Nat /\ \A n \in 1..Cardinality(P) : list[Nth(P, n)] \in S
  BY <1>1, <1>2 DEF Enumerates
<1> QED
  BY <1>2, <1>3 DEF Filtered

Others(nodes, self_host) == {i \in 1..Len(nodes) : nodes[i] # self_host}

MemberType == [host : Hosts, state : NodeStates \ {"Left"}, stale : BOOLEAN]

(* MembershipManager::new.                                                 *)
LEMMA MembersListed ==
  ASSUME NEW nodes \in Seq(Hosts), NEW h
  PROVE  LET list == MembersFrom(nodes, h)
             positions == Others(nodes, h)
         IN  /\ Enumerates(positions)
             /\ list \in Seq(MemberType)
             /\ Len(list) = Cardinality(positions)
             /\ \A n \in 1..Len(list) : list[n].host = nodes[Nth(positions, n)]
<1> DEFINE positions == Others(nodes, h)
           others == Filtered(nodes, positions)
           list == MembersFrom(nodes, h)
<1>1. /\ Enumerates(positions)
      /\ others \in Seq(Hosts)
      /\ Len(others) = Cardinality(positions)
      /\ \A n \in 1..Cardinality(positions) : others[n] = nodes[Nth(positions, n)]
  <2>1. positions \in SUBSET (1..Len(nodes))
    BY DEF Others
  <2> QED
    BY <2>1, FilteredList
<1>2. list = [i \in 1..Len(others) |-> Entry(others[i])]
  BY DEF MembersFrom, Others
<1>3. Len(others) \in Nat /\ \A i \in 1..Len(others) : others[i] \in Hosts
  BY <1>1, LenProperties, ElementOfSeq
<1> HIDE DEF others, list, positions
<1>4. \A i \in 1..Len(others) : Entry(others[i]) \in MemberType /\ Entry(others[i]).host = others[i]
  BY <1>3 DEF Entry, MemberType, NodeStates
<1>5. /\ list \in Seq(MemberType) /\ Len(list) = Len(others)
      /\ \A n \in 1..Len(list) : list[n].host = others[n]
  BY <1>2, <1>3, <1>4
<1> QED
  BY <1>1, <1>5 DEF positions, list

(* Time and the health checker change no host.                             *)
LEMMA HostsKept ==
  ASSUME members \in Seq(MemberType), CheckHealth \/ \E i \in 1..Len(members) : HeartbeatAges(i)
  PROVE  /\ members' \in Seq(MemberType)
         /\ Len(members') = Len(members)
         /\ \A i \in 1..Len(members) : members'[i].host = members[i].host
<1>1. Len(members) \in Nat /\ \A i \in 1..Len(members) : members[i] \in MemberType
  BY LenProperties, ElementOfSeq
<1>2. CASE CheckHealth
  <2> DEFINE Checked(i) == IF members[i].state = "Alive" /\ members[i].stale
                           THEN [members[i] EXCEPT !.state = "Suspect"]
                           ELSE members[i]
  <2>1. members' = [i \in 1..Len(members) |-> Checked(i)]
    BY <1>2 DEF CheckHealth
  <2>2. \A i \in 1..Len(members) : Checked(i) \in MemberType /\ Checked(i).host = members[i].host
    BY <1>1 DEF MemberType, NodeStates
  <2> HIDE DEF Checked
  <2> QED
    BY <1>1, <2>1, <2>2
<1>3. CASE \E i \in 1..Len(members) : HeartbeatAges(i)
  <2>1. PICK i \in 1..Len(members) : members' = [members EXCEPT ![i].stale = TRUE]
    BY <1>3 DEF HeartbeatAges
  <2>2. /\ [members[i] EXCEPT !.stale = TRUE] \in MemberType
        /\ [members[i] EXCEPT !.stale = TRUE].host = members[i].host
    BY <1>1 DEF MemberType
  <2>3. members' = [members EXCEPT ![i] = [members[i] EXCEPT !.stale = TRUE]]
    BY <2>1
  <2> QED
    BY <1>1, <2>2, <2>3
<1> QED
  BY <1>2, <1>3

(* What main has read, and what has become of it once the server runs.     *)
FiledInv ==
  /\ config \in [file : Files, port : PortArgs]
  /\ members \in Seq(MemberType)
  /\ main \notin {"boot", "refused"} =>
       LET list == MembersFrom(Loading.nodes, SelfHost)
       IN  /\ Loading.ok
           /\ Len(members) = Len(list)
           /\ \A i \in 1..Len(members) : members[i].host = list[i].host

LEMMA FiledInit == Init => FiledInv
BY DEF Init, Started, FiledInv

(* A step that keeps the hosts and does not start the server.              *)
LEMMA FiledUnmoved ==
  ASSUME FiledInv, config' = config, members' \in Seq(MemberType),
         Len(members') = Len(members),
         \A i \in 1..Len(members) : members'[i].host = members[i].host,
         main' \in {"boot", "refused"} \/ main \notin {"boot", "refused"}
  PROVE  FiledInv'
<1>1. Loading' = Loading /\ SelfHost' = SelfHost
  BY DEF Loading, SelfHost
<1> QED
  BY <1>1 DEF FiledInv

LEMMA FiledStep ==
  ASSUME FiledInv, [Next]_vars
  PROVE  FiledInv'
<1>0. /\ config \in [file : Files, port : PortArgs]
      /\ members \in Seq(MemberType)
      /\ config.file \in Files
  BY DEF FiledInv
<1>1. CASE Boot
  <2>1. Loading.ok /\ config' = config /\ members' = MembersFrom(Loading.nodes, SelfHost)
    BY <1>1 DEF Boot
  <2>2. Loading' = Loading /\ SelfHost' = SelfHost
    BY <2>1 DEF Loading, SelfHost
  <2>3. Loading.nodes \in Seq(Hosts)
    BY <1>0, ServerAssumption DEF Loading
  <2>4. members' \in Seq(MemberType)
    BY <2>1, <2>3, MembersListed
  <2> QED
    BY <1>0, <2>1, <2>2, <2>4 DEF FiledInv
<1>2. CASE HealthTick \/ \E i \in 1..Len(members) : Aging(i)
  <2>1. /\ config' = config /\ main' = main
        /\ CheckHealth \/ \E i \in 1..Len(members) : HeartbeatAges(i)
    BY <1>2 DEF HealthTick, Aging
  <2> QED
    BY <1>0, <2>1, HostsKept, FiledUnmoved
<1>3. CASE /\ UNCHANGED <<config, members>>
           /\ main' \in {"boot", "refused"} \/ main \notin {"boot", "refused"}
  BY <1>0, <1>3, FiledUnmoved
<1>4. ASSUME NEW c \in Conns,
             \/ Accept(c) \/ NodelaySet(c) \/ NodelayFails(c)
             \/ \E r \in Request : Receive(c, r)
             \/ Process(c) \/ Respond(c) \/ Send(c) \/ Close(c)
      PROVE  FiledInv'
  <2>1. UNCHANGED <<config, members, main>>
    BY <1>4 DEF Accept, NodelaySet, NodelayFails, Receive, Process, Respond, Send, Close, Handler
  <2> QED
    BY <1>3, <2>1
<1>5. CASE Refuse \/ OpenFails \/ Bind \/ BindFails
  BY <1>3, <1>5 DEF Refuse, OpenFails, Bind, BindFails
<1>6. CASE StopAccepting \/ AcceptError \/ Shutdown \/ CheckerStops
  BY <1>3, <1>6 DEF StopAccepting, AcceptError, Shutdown, CheckerStops
<1>7. CASE Ending
  BY <1>3, <1>7 DEF Ending, AbortTasks, UpdateWorkerMetrics, LoadReceived, LoadSent, Flush, Main
<1>8. CASE UNCHANGED vars
  BY <1>3, <1>8 DEF vars
<1> QED
  BY <1>1, <1>2, <1>4, <1>5, <1>6, <1>7, <1>8 DEF Next

(* The positions of the lines that are neither empty nor comments.         *)
Read(lines) == {i \in 1..Len(lines) : ~Skipped(lines[i])}

(* A load that succeeds has a node for every line that is read.            *)
LEMMA NodesListed ==
  ASSUME NEW lines \in Seq(Seq(Token)), Neighbors(lines).ok
  PROVE  LET nodes == Neighbors(lines).nodes
         IN  /\ Enumerates(Read(lines))
             /\ Len(nodes) = Cardinality(Read(lines))
             /\ \A n \in 1..Cardinality(Read(lines)) : \A node :
                  Names(lines[Nth(Read(lines), n)], node) <=> nodes[n] = node
<1> DEFINE P == Read(lines)
           entries == Filtered(lines, P)
           nodes == Neighbors(lines).nodes
<1>1. /\ Enumerates(P)
      /\ entries \in Seq(Seq(Token))
      /\ Len(entries) = Cardinality(P)
      /\ \A n \in 1..Cardinality(P) : entries[n] = lines[Nth(P, n)]
  <2>1. P \in SUBSET (1..Len(lines))
    BY DEF Read
  <2> QED
    BY <2>1, FilteredList
<1>2. entries = Entries(lines)
  BY DEF Entries, Read
<1> HIDE DEF P, entries
<1>3. /\ ~\E i \in 1..Len(entries) : BadNeighbor(entries[i])
      /\ nodes = [i \in 1..Len(entries) |-> Node(entries[i][1].word, entries[i][2].number)]
  BY <1>2 DEF Neighbors
<1> HIDE DEF nodes
<1>4. /\ Len(nodes) = Cardinality(P)
      /\ \A n \in 1..Cardinality(P) :
           nodes[n] = Node(entries[n][1].word, entries[n][2].number)
  BY <1>1, <1>3 DEF Enumerates
<1>5. \A n \in 1..Cardinality(P) : Len(entries[n]) >= 2
  <2>1. \A n \in 1..Cardinality(P) : entries[n] \in Seq(Token)
    BY <1>1, ElementOfSeq
  <2>2. \A n \in 1..Cardinality(P) : Len(entries[n]) \in Nat /\ ~(Len(entries[n]) < 2)
    BY <1>1, <1>3, <2>1, LenProperties DEF BadNeighbor
  <2> QED
    BY <2>2
<1>6. ASSUME NEW n \in 1..Cardinality(P), NEW node
      PROVE  Names(lines[Nth(P, n)], node) <=> nodes[n] = node
  BY <1>1, <1>4, <1>5 DEF Names
<1> QED
  BY <1>1, <1>4, <1>6 DEF P, nodes

LEMMA FiledConfigures == FiledInv => StartsAsConfigured
<1> SUFFICES ASSUME FiledInv, main \notin {"boot", "refused"} PROVE StartsAsConfigured
  BY DEF StartsAsConfigured
<1> DEFINE lines == config.file.neighbors
           nodes == Loading.nodes
           list == MembersFrom(nodes, SelfHost)
           P == Read(lines)
           Q == Others(nodes, SelfHost)
           naming == {i \in 1..Len(lines) : ~Skipped(lines[i]) /\ ~Names(lines[i], SelfHost)}
           place == [n \in 1..Len(members) |-> Nth(P, Nth(Q, n))]
<1>0. config.file \in Files /\ Loading = Load(config.file.zht, lines)
  BY DEF FiledInv, Loading
<1>1. /\ Loading.ok /\ Len(members) = Len(list)
      /\ \A i \in 1..Len(members) : members[i].host = list[i].host
  BY DEF FiledInv
<1>2. lines # Missing /\ Neighbors(lines).ok /\ nodes = Neighbors(lines).nodes
  BY <1>0, <1>1 DEF Load
<1>3. lines \in Seq(Seq(Token)) /\ nodes \in Seq(Hosts)
  BY <1>0, <1>2, ServerAssumption
<1> HIDE DEF lines, nodes
<1>4. /\ Enumerates(P)
      /\ Len(nodes) = Cardinality(P)
      /\ \A n \in 1..Cardinality(P) : \A node : Names(lines[Nth(P, n)], node) <=> nodes[n] = node
  BY <1>2, <1>3, NodesListed
<1>5. /\ Enumerates(Q)
      /\ Len(list) = Cardinality(Q)
      /\ \A n \in 1..Len(list) : list[n].host = nodes[Nth(Q, n)]
  BY <1>3, MembersListed
<1>6. Q \subseteq 1..Cardinality(P) /\ \A i \in 1..Cardinality(P) : i \in Q <=> nodes[i] # SelfHost
  BY <1>4 DEF Others
<1>7. naming = {i \in P : ~Names(lines[i], SelfHost)}
  BY DEF Read
<1> HIDE DEF P, Q, list
<1>8. /\ Len(members) = Cardinality(Q)
      /\ \A n \in 1..Cardinality(Q) : members[n].host = nodes[Nth(Q, n)]
  BY <1>1, <1>5
<1>9. \A n \in 1..Cardinality(Q) : Nth(Q, n) \in Q
  BY <1>5 DEF Enumerates
<1>10. \A m \in Q : Nth(P, m) \in naming /\ \A node : Names(lines[Nth(P, m)], node) <=> nodes[m] = node
  BY <1>4, <1>6, <1>7 DEF Enumerates
<1> HIDE DEF naming
<1>11. place \in [1..Len(members) -> naming]
  BY <1>8, <1>9, <1>10
<1>12. naming = {place[i] : i \in 1..Len(members)}
  <2>1. ASSUME NEW p \in naming PROVE \E n \in 1..Len(members) : place[n] = p
    <3>1. PICK m \in 1..Cardinality(P) : Nth(P, m) = p
      BY <1>4, <1>7 DEF Enumerates
    <3>2. m \in Q
      BY <1>4, <1>6, <1>7, <3>1
    <3>3. PICK n \in 1..Cardinality(Q) : Nth(Q, n) = m
      BY <1>5, <3>2 DEF Enumerates
    <3> QED
      BY <1>8, <3>1, <3>3
  <2> QED
    BY <1>11, <2>1
<1>13. ASSUME NEW i \in 1..Len(members), NEW j \in 1..Len(members), i < j
       PROVE  place[i] < place[j]
  <2>1. Nth(Q, i) < Nth(Q, j) /\ Nth(Q, i) \in 1..Cardinality(P) /\ Nth(Q, j) \in 1..Cardinality(P)
    BY <1>5, <1>6, <1>8, <1>13 DEF Enumerates
  <2> QED
    BY <1>4, <2>1 DEF Enumerates
<1>14. \A i \in 1..Len(members) : Names(lines[place[i]], members[i].host)
  BY <1>8, <1>9, <1>10
<1> HIDE DEF place
<1> QED
  BY <1>11, <1>12, <1>13, <1>14 DEF StartsAsConfigured, naming, lines

(* "Ordered list of neighbor nodes": whatever the files hold, a server     *)
(* that runs has every node they name but itself, in their order.          *)
THEOREM StartsAsConfiguredHolds == Spec => []StartsAsConfigured
BY FiledInit, FiledStep, FiledConfigures, PTL DEF Spec

-----------------------------------------------------------------------------
(* Types.  A handler that is about to process has a request to process.    *)
TypedInv ==
  /\ cancelled \in BOOLEAN /\ checker \in {"none", "running", "over"}
  /\ req \in [Conns -> Request \union {NoRequest}]
  /\ \A c \in Conns : conn[c] = "process" => req[c] \in Request
  /\ {table, store, file} \subseteq [Keys -> Vals \union {Absent}]

LEMMA TypedInit == Init => TypedInv
<1> SUFFICES ASSUME Init PROVE TypedInv
  OBVIOUS
<1>1. /\ cancelled = FALSE /\ checker = "none"
      /\ req = [c \in Conns |-> NoRequest] /\ conn = [c \in Conns |-> "none"]
      /\ table = [k \in Keys |-> Absent] /\ store = Loaded /\ file = Loaded
  BY DEF Init, Started, Wired, EmptyTable
<1>2. {table, store, file} \subseteq [Keys -> Vals \union {Absent}]
  BY <1>1, ServerAssumption
<1>3. \A c \in Conns : conn[c] # "process"
  BY <1>1
<1> QED
  BY <1>1, <1>2, <1>3 DEF TypedInv

LEMMA TypedStep ==
  ASSUME GaugeInv, TypedInv, [Next]_vars
  PROVE  TypedInv'
<1>0. /\ cancelled \in BOOLEAN /\ checker \in {"none", "running", "over"}
      /\ conn \in [Conns -> HandlerPlaces]
      /\ req \in [Conns -> Request \union {NoRequest}]
      /\ table \in [Keys -> Vals \union {Absent}]
      /\ store \in [Keys -> Vals \union {Absent}]
      /\ file \in [Keys -> Vals \union {Absent}]
  BY DEF TypedInv, GaugeInv
<1>1. CASE /\ UNCHANGED <<conn, req, table, store>>
           /\ cancelled' \in {cancelled, TRUE} /\ checker' \in {checker, "running", "over"}
           /\ file' \in {file, store}
  BY <1>0, <1>1 DEF TypedInv
<1>2. ASSUME NEW c \in Conns, NEW place \in HandlerPlaces \ {"process"},
             conn' = [conn EXCEPT ![c] = place],
             req' = req \/ req' = [req EXCEPT ![c] = NoRequest],
             UNCHANGED <<cancelled, checker, table, store, file>>
      PROVE  TypedInv'
  <2>1. \A d \in Conns : conn'[d] = "process" => d # c /\ conn[d] = "process"
    BY <1>0, <1>2
  <2>2. \A d \in Conns : d # c => req'[d] = req[d]
    BY <1>0, <1>2
  <2>3. req' \in [Conns -> Request \union {NoRequest}]
    BY <1>0, <1>2
  <2> QED
    BY <1>2, <2>1, <2>2, <2>3 DEF TypedInv
<1>3. ASSUME NEW c \in Conns, NEW from, NEW to \in HandlerPlaces \ {"process"},
             Handler(c, from, to), req' = req \/ req' = [req EXCEPT ![c] = NoRequest],
             table' = table
      PROVE  TypedInv'
  BY <1>2, <1>3 DEF Handler
<1>4. ASSUME NEW c \in Conns, Accept(c) PROVE TypedInv'
  BY <1>2, <1>4 DEF Accept, HandlerPlaces
<1>5. ASSUME NEW c \in Conns, NEW r \in Request, Receive(c, r) PROVE TypedInv'
  <2>1. /\ conn' = [conn EXCEPT ![c] = "process"] /\ req' = [req EXCEPT ![c] = r]
        /\ UNCHANGED <<cancelled, checker, table, store, file>>
    BY <1>5 DEF Receive, Handler
  <2>2. req' \in [Conns -> Request \union {NoRequest}]
    BY <1>0, <2>1
  <2>3. \A d \in Conns : conn'[d] = "process" => req'[d] \in Request
    BY <1>0, <2>1 DEF TypedInv
  <2> QED
    BY <2>1, <2>2, <2>3 DEF TypedInv
<1>6. ASSUME NEW c \in Conns, Process(c) PROVE TypedInv'
  <2>1. /\ conn[c] = "process" /\ conn' = [conn EXCEPT ![c] = "respond"]
        /\ table' = [table EXCEPT ![req[c][1]] = req[c][2]]
        /\ UNCHANGED <<cancelled, checker, req, store, file>>
    BY <1>6 DEF Process, Handler
  <2>2. req[c] \in Request
    BY <2>1 DEF TypedInv
  <2>3. req[c][1] \in Keys /\ req[c][2] \in Vals \union {Absent}
    BY <2>2 DEF Request
  <2>4. table' \in [Keys -> Vals \union {Absent}]
    BY <1>0, <2>1, <2>3
  <2>5. \A d \in Conns : conn'[d] = "process" => conn[d] = "process"
    BY <1>0, <2>1
  <2> QED
    BY <1>0, <2>1, <2>4, <2>5 DEF TypedInv
<1>7. ASSUME NEW c \in Conns,
             NodelaySet(c) \/ NodelayFails(c) \/ Respond(c) \/ Send(c) \/ Close(c)
      PROVE  TypedInv'
  BY <1>3, <1>7 DEF NodelaySet, NodelayFails, Respond, Send, Close, HandlerPlaces
<1>8. CASE Refuse \/ OpenFails \/ Boot \/ Bind \/ BindFails
  BY <1>1, <1>8 DEF Refuse, OpenFails, Boot, Bind, BindFails
<1>9. CASE StopAccepting \/ AcceptError \/ Shutdown
  BY <1>1, <1>9 DEF StopAccepting, AcceptError, Shutdown
<1>10. CASE HealthTick \/ CheckerStops \/ \E i \in 1..Len(members) : Aging(i)
  BY <1>1, <1>10 DEF HealthTick, CheckerStops, Aging
<1>11. CASE Ending
  BY <1>1, <1>11 DEF Ending, AbortTasks, UpdateWorkerMetrics, LoadReceived, LoadSent, Flush, Main
<1>12. CASE UNCHANGED vars
  BY <1>1, <1>12 DEF vars
<1> QED
  BY <1>4, <1>5, <1>6, <1>7, <1>8, <1>9, <1>10, <1>11, <1>12 DEF Next

(* Every variable of a server stays within its type, whatever clients,     *)
(* sockets, files and members do: no gauge falls below zero.               *)
THEOREM TypeCorrect == Spec => []TypeOK
<1>1. CountInv /\ TypedInv /\ FiledInv => TypeOK
  BY DEF CountInv, GaugeInv, OrderInv, TypedInv, FiledInv, TypeOK, Places, HandlerPlaces,
         MembershipTypeOK, MemberType
<1>2. CountInv => GaugeInv
  BY DEF CountInv
<1> QED
  BY <1>1, <1>2, CountInit, CountStep, TypedInit, TypedStep, FiledInit, FiledStep, PTL DEF Spec

-----------------------------------------------------------------------------
(* The cache, a component of its own with names of its own: the crate of   *)
(* the server depends on it and does not use it.                           *)

Distinct(o) == \A i, j \in 1..Len(o) : o[i] = o[j] => i = j

(* As in LruCache: which element stands in front of which.                 *)
Newer(o) ==
  {<<o[p[1]], o[p[2]]>> : p \in {q \in (1..Len(o)) \X (1..Len(o)) : q[1] < q[2]}}

(* The pairs without an element.                                           *)
Lacking(pairs, k) == {p \in pairs : k \notin {p[1], p[2]}}

LEMMA NewerPairs ==
  ASSUME NEW S, NEW o \in Seq(S)
  PROVE  /\ Newer(o) \subseteq S \X S
         /\ \A a, b : <<a, b>> \in Newer(o) <=> \E i, j \in 1..Len(o) : i < j /\ a = o[i] /\ b = o[j]
<1>1. \A i \in 1..Len(o) : o[i] \in S
  BY ElementOfSeq
<1>2. Newer(o) \subseteq S \X S
  BY <1>1 DEF Newer
<1>3. \A a, b : <<a, b>> \in Newer(o) => \E i, j \in 1..Len(o) : i < j /\ a = o[i] /\ b = o[j]
  BY DEF Newer
<1>4. ASSUME NEW i \in 1..Len(o), NEW j \in 1..Len(o), i < j
      PROVE  <<o[i], o[j]>> \in Newer(o)
  <2>1. <<i, j>> \in {q \in (1..Len(o)) \X (1..Len(o)) : q[1] < q[2]}
    BY <1>4
  <2> QED
    BY <2>1 DEF Newer
<1> QED
  BY <1>2, <1>3, <1>4

(* The element at place m of a deque taken out.                            *)
Dropped(o, m, r) ==
  /\ Len(r) = Len(o) - 1
  /\ \A i \in 1..Len(r) : r[i] = IF i < m THEN o[i] ELSE o[i + 1]

LEMMA Dropping ==
  ASSUME NEW S, NEW o \in Seq(S), Distinct(o), NEW m \in 1..Len(o),
         NEW r \in Seq(S), Dropped(o, m, r)
  PROVE  /\ Distinct(r)
         /\ ToSet(r) = ToSet(o) \ {o[m]}
         /\ Newer(r) = Lacking(Newer(o), o[m])
<1> DEFINE Old(i) == IF i < m THEN i ELSE i + 1
           New(i) == IF i < m THEN i ELSE i - 1
<1>0. Len(o) \in Nat /\ Len(r) \in Nat /\ m \in Nat /\ DOMAIN r = 1..Len(r) /\ DOMAIN o = 1..Len(o)
  BY LenProperties
<1>1. \A i \in 1..Len(r) : Old(i) \in 1..Len(o) /\ Old(i) # m /\ r[i] = o[Old(i)]
  BY <1>0 DEF Dropped
<1>2. \A i \in 1..Len(o) : i # m => New(i) \in 1..Len(r) /\ o[i] = r[New(i)] /\ Old(New(i)) = i
  BY <1>0 DEF Dropped
<1>3. \A i, j \in 1..Len(r) : (i < j <=> Old(i) < Old(j)) /\ (Old(i) = Old(j) => i = j)
  BY <1>0 DEF Dropped
<1>4. \A i, j \in 1..Len(o) : i # m /\ j # m /\ i < j => New(i) < New(j)
  BY <1>0
<1>5. \A i \in 1..Len(o) : i # m => o[i] # o[m]
  BY DEF Distinct
<1> HIDE DEF Old, New
<1>6. Distinct(r)
  BY <1>1, <1>3 DEF Distinct
<1>7. ToSet(r) = ToSet(o) \ {o[m]}
  <2>1. \A x \in ToSet(r) : x \in ToSet(o) \ {o[m]}
    BY <1>0, <1>1, <1>5 DEF ToSet
  <2>2. \A x \in ToSet(o) \ {o[m]} : x \in ToSet(r)
    BY <1>0, <1>2 DEF ToSet
  <2> QED
    BY <2>1, <2>2
<1>8. ASSUME NEW a, NEW b
      PROVE  <<a, b>> \in Newer(r) <=> <<a, b>> \in Newer(o) /\ a # o[m] /\ b # o[m]
  <2>1. ASSUME <<a, b>> \in Newer(r) PROVE <<a, b>> \in Newer(o) /\ a # o[m] /\ b # o[m]
    <3>1. PICK i, j \in 1..Len(r) : i < j /\ a = r[i] /\ b = r[j]
      BY <2>1, NewerPairs
    <3>2. Old(i) < Old(j) /\ a = o[Old(i)] /\ b = o[Old(j)]
      BY <1>1, <1>3, <3>1
    <3> QED
      BY <1>1, <1>5, <3>2, NewerPairs
  <2>2. ASSUME <<a, b>> \in Newer(o), a # o[m], b # o[m] PROVE <<a, b>> \in Newer(r)
    <3>1. PICK i, j \in 1..Len(o) : i < j /\ a = o[i] /\ b = o[j]
      BY <2>2, NewerPairs
    <3>2. New(i) < New(j) /\ a = r[New(i)] /\ b = r[New(j)]
      BY <1>2, <1>4, <2>2, <3>1
    <3> QED
      BY <1>2, <2>2, <3>1, <3>2, NewerPairs
  <2> QED
    BY <2>1, <2>2
<1>9. Newer(r) \subseteq S \X S /\ Newer(o) \subseteq S \X S
  BY NewerPairs
<1>10. \A p \in S \X S : p = <<p[1], p[2]>>
  OBVIOUS
<1>11. Newer(r) = Lacking(Newer(o), o[m])
  BY <1>8, <1>9, <1>10 DEF Lacking
<1> QED
  BY <1>6, <1>7, <1>11

LEMMA Removing ==
  ASSUME NEW S, NEW o \in Seq(S), Distinct(o), NEW k
  PROVE  LET r == RemoveFirst(o, k)
         IN  /\ r \in Seq(S) /\ Distinct(r)
             /\ ToSet(r) = ToSet(o) \ {k}
             /\ Newer(r) = Lacking(Newer(o), k)
             /\ Len(r) <= Len(o)
             /\ k \in ToSet(o) => Len(r) = Len(o) - 1
<1> DEFINE r == RemoveFirst(o, k)
<1>0. Len(o) \in Nat /\ DOMAIN o = 1..Len(o)
  BY LenProperties
<1>1. CASE ~\E i \in 1..Len(o) : o[i] = k
  <2>1. r = o
    BY <1>1 DEF RemoveFirst
  <2>2. Newer(o) = Lacking(Newer(o), k)
    <3>1. \A p \in Newer(o) : k \notin {p[1], p[2]}
      BY <1>1 DEF Newer
    <3> QED
      BY <3>1 DEF Lacking
  <2>3. ToSet(o) = ToSet(o) \ {k} /\ k \notin ToSet(o)
    BY <1>0, <1>1 DEF ToSet
  <2>4. Len(r) <= Len(o) /\ r \in Seq(S) /\ Distinct(r)
    BY <1>0, <2>1
  <2>5. ToSet(r) = ToSet(o) \ {k} /\ Newer(r) = Lacking(Newer(o), k)
    BY <2>1, <2>2, <2>3
  <2> QED
    BY <2>3, <2>4, <2>5
<1>2. CASE \E i \in 1..Len(o) : o[i] = k
  <2>1. PICK m \in 1..Len(o) : o[m] = k
    BY <1>2
  <2>2. {i \in 1..Len(o) : o[i] = k} = {m}
    BY <2>1 DEF Distinct
  <2>3. Min({m}) = m
    BY DEF Min
  <2>4. r = SubSeq(o, 1, m - 1) \o SubSeq(o, m + 1, Len(o))
    BY <1>2, <2>2, <2>3 DEF RemoveFirst, SelectInSeq, RemoveAt
  <2>0. m \in Nat /\ Len(o) \in Nat /\ 1 <= m /\ m <= Len(o)
    BY <1>0, <2>1
  <2>5. r \in Seq(S) /\ Dropped(o, m, r)
    <3> DEFINE left == SubSeq(o, 1, m - 1)
               right == SubSeq(o, m + 1, Len(o))
    <3>1. /\ left \in Seq(S) /\ Len(left) = m - 1
          /\ \A i \in 1..Len(left) : left[i] = o[i]
      BY <1>0
    <3>2. /\ right \in Seq(S) /\ Len(right) = Len(o) - m
          /\ \A i \in 1..Len(right) : right[i] = o[m + i]
      <4>1. m + 1 \in Int /\ Len(o) \in Int /\ \A i \in m + 1..Len(o) : o[i] \in S
        BY <1>0, <2>1
      <4>2. /\ right \in Seq(S)
            /\ Len(right) = IF m + 1 <= Len(o) THEN Len(o) - (m + 1) + 1 ELSE 0
            /\ \A i \in 1..Len(o) - (m + 1) + 1 : right[i] = o[(m + 1) + i - 1]
        BY <4>1, SubSeqProperties
      <4> HIDE DEF right
      <4>3. Len(right) = Len(o) - m
        <5>1. CASE m < Len(o)
          BY <2>0, <4>2, <5>1
        <5>2. CASE m = Len(o)
          BY <2>0, <4>2, <5>2
        <5> QED
          BY <2>0, <5>1, <5>2
      <4>4. ASSUME NEW i \in 1..Len(right) PROVE right[i] = o[m + i]
        <5>1. i \in 1..Len(o) - (m + 1) + 1 /\ (m + 1) + i - 1 = m + i
          BY <1>0, <4>3
        <5> QED
          BY <4>2, <5>1
      <4> QED
        BY <4>2, <4>3, <4>4
    <3> HIDE DEF left, right
    <3>3. /\ left \o right \in Seq(S)
          /\ Len(left \o right) = Len(left) + Len(right)
          /\ \A i \in 1..Len(left) + Len(right) :
               (left \o right)[i] = IF i <= Len(left) THEN left[i] ELSE right[i - Len(left)]
      BY <3>1, <3>2, ConcatProperties
    <3>4. r = left \o right
      BY <2>4 DEF left, right
    <3> HIDE DEF r
    <3>5. Len(r) = Len(o) - 1
      <4>1. Len(r) = Len(left) + Len(right)
        BY <3>3, <3>4
      <4> QED
        BY <2>0, <3>1, <3>2, <4>1
    <3>6. ASSUME NEW i \in 1..Len(r) PROVE r[i] = IF i < m THEN o[i] ELSE o[i + 1]
      <4>1. CASE i < m
        <5>1. i \in 1..Len(left) /\ i <= Len(left)
          BY <1>0, <3>1, <3>5, <4>1
        <5>2. i \in 1..Len(left) + Len(right)
          BY <3>3, <3>4
        <5> QED
          BY <3>1, <3>3, <3>4, <4>1, <5>1, <5>2
      <4>2. CASE ~(i < m)
        <5>1. i - Len(left) \in 1..Len(right) /\ ~(i <= Len(left)) /\ m + (i - Len(left)) = i + 1
          BY <1>0, <3>1, <3>2, <3>5, <4>2
        <5>2. i \in 1..Len(left) + Len(right)
          BY <3>3, <3>4
        <5> QED
          BY <3>2, <3>3, <3>4, <4>2, <5>1, <5>2
      <4> QED
        BY <4>1, <4>2
    <3> QED
      BY <3>3, <3>4, <3>5, <3>6 DEF Dropped
  <2> HIDE DEF r
  <2>6. Distinct(r) /\ ToSet(r) = ToSet(o) \ {k} /\ Newer(r) = Lacking(Newer(o), k)
    <3>1. /\ Distinct(r)
          /\ ToSet(r) = ToSet(o) \ {o[m]}
          /\ Newer(r) = Lacking(Newer(o), o[m])
      BY <2>5, Dropping
    <3> QED
      BY <2>1, <3>1
  <2> QED
    BY <1>0, <2>5, <2>6 DEF r, Dropped
<1> QED
  BY <1>1, <1>2

LEMMA Popping ==
  ASSUME NEW S, NEW o \in Seq(S), Distinct(o), o # << >>
  PROVE  LET r == Front(o)
             old == Last(o)
         IN  /\ r \in Seq(S) /\ Distinct(r)
             /\ ToSet(r) = ToSet(o) \ {old}
             /\ Newer(r) = Lacking(Newer(o), old)
             /\ Len(r) = Len(o) - 1
             /\ old \in ToSet(o)
             /\ \A j \in ToSet(o) \ {old} : <<j, old>> \in Newer(o)
<1> DEFINE r == Front(o)
           old == Last(o)
<1>0. Len(o) \in Nat \ {0} /\ DOMAIN o = 1..Len(o)
  BY LenProperties, EmptySeq
<1>1. r \in Seq(S) /\ Dropped(o, Len(o), r)
  BY <1>0 DEF Front, Dropped
<1>2. old = o[Len(o)]
  BY DEF Last
<1>3. old \in ToSet(o)
  BY <1>0, <1>2 DEF ToSet
<1>4. ASSUME NEW j \in ToSet(o) \ {old} PROVE <<j, old>> \in Newer(o)
  <2>1. PICK i \in 1..Len(o) : j = o[i]
    BY <1>0 DEF ToSet
  <2>2. i < Len(o)
    BY <1>0, <1>2, <2>1
  <2> QED
    BY <1>0, <1>2, <2>1, <2>2, NewerPairs
<1> HIDE DEF r, old
<1>5. Distinct(r) /\ ToSet(r) = ToSet(o) \ {old} /\ Newer(r) = Lacking(Newer(o), old)
  <2>1. Len(o) \in 1..Len(o)
    BY <1>0
  <2>2. /\ Distinct(r)
        /\ ToSet(r) = ToSet(o) \ {o[Len(o)]}
        /\ Newer(r) = Lacking(Newer(o), o[Len(o)])
    BY <1>1, <2>1, Dropping
  <2> QED
    BY <1>2, <2>2
<1> QED
  BY <1>1, <1>3, <1>4, <1>5 DEF r, old, Dropped

LEMMA Pushing ==
  ASSUME NEW S, NEW r \in Seq(S), Distinct(r), NEW k \in S, k \notin ToSet(r)
  PROVE  LET o == <<k>> \o r
         IN  /\ o \in Seq(S) /\ Distinct(o)
             /\ ToSet(o) = ToSet(r) \union {k}
             /\ Newer(o) = Newer(r) \union ({k} \X ToSet(r))
             /\ Len(o) = Len(r) + 1
<1> DEFINE o == <<k>> \o r
<1>0. Len(r) \in Nat /\ DOMAIN r = 1..Len(r)
  BY LenProperties
<1>1. /\ o \in Seq(S) /\ Len(o) = Len(r) + 1
      /\ \A i \in 1..Len(o) : o[i] = IF i = 1 THEN k ELSE r[i - 1]
  BY <1>0
<1>2. Len(o) \in Nat /\ DOMAIN o = 1..Len(o)
  BY <1>1, LenProperties
<1> HIDE DEF o
<1>3. \A i \in 1..Len(r) : r[i] # k /\ o[i + 1] = r[i] /\ i + 1 \in 1..Len(o)
  BY <1>0, <1>1 DEF ToSet
<1>4. o[1] = k /\ 1 \in 1..Len(o)
  BY <1>0, <1>1
<1>5. Distinct(o)
  BY <1>0, <1>1, <1>3 DEF Distinct
<1>6. ToSet(o) = ToSet(r) \union {k}
  <2>1. \A x \in ToSet(o) : x \in ToSet(r) \union {k}
    BY <1>0, <1>1, <1>2 DEF ToSet
  <2>2. \A x \in ToSet(r) : x \in ToSet(o)
    BY <1>0, <1>2, <1>3 DEF ToSet
  <2>3. k \in ToSet(o)
    BY <1>2, <1>4 DEF ToSet
  <2> QED
    BY <2>1, <2>2, <2>3
<1>7. ASSUME NEW a, NEW b
      PROVE  <<a, b>> \in Newer(o) <=> <<a, b>> \in Newer(r) \/ (a = k /\ b \in ToSet(r))
  <2>1. ASSUME <<a, b>> \in Newer(o)
        PROVE  <<a, b>> \in Newer(r) \/ (a = k /\ b \in ToSet(r))
    <3>1. PICK i, j \in 1..Len(o) : i < j /\ a = o[i] /\ b = o[j]
      BY <1>1, <2>1, NewerPairs
    <3>2. j - 1 \in 1..Len(r) /\ b = r[j - 1]
      BY <1>0, <1>1, <3>1
    <3>3. CASE i = 1
      BY <1>0, <1>4, <3>1, <3>2, <3>3 DEF ToSet
    <3>4. CASE i # 1
      <4>1. i - 1 \in 1..Len(r) /\ i - 1 < j - 1 /\ a = r[i - 1]
        BY <1>0, <1>1, <3>1, <3>4
      <4> QED
        BY <3>2, <4>1, NewerPairs
    <3> QED
      BY <3>3, <3>4
  <2>2. ASSUME <<a, b>> \in Newer(r) PROVE <<a, b>> \in Newer(o)
    <3>1. PICK i, j \in 1..Len(r) : i < j /\ a = r[i] /\ b = r[j]
      BY <2>2, NewerPairs
    <3>2. i + 1 < j + 1 /\ a = o[i + 1] /\ b = o[j + 1]
      BY <1>3, <3>1
    <3> QED
      BY <1>1, <1>3, <3>2, NewerPairs
  <2>3. ASSUME b \in ToSet(r) PROVE <<k, b>> \in Newer(o)
    <3>1. PICK j \in 1..Len(r) : b = r[j]
      BY <1>0, <2>3 DEF ToSet
    <3>2. 1 < j + 1 /\ b = o[j + 1]
      BY <1>3, <3>1
    <3> QED
      BY <1>1, <1>3, <1>4, <3>2, NewerPairs
  <2> QED
    BY <2>1, <2>2, <2>3
<1>8. Newer(o) = Newer(r) \union ({k} \X ToSet(r))
  <2>1. Newer(r) \subseteq S \X S /\ Newer(o) \subseteq S \X S
    BY <1>1, NewerPairs
  <2>2. \A p \in S \X S : p = <<p[1], p[2]>>
    OBVIOUS
  <2>3. \A p \in {k} \X ToSet(r) : p = <<k, p[2]>> /\ p[2] \in ToSet(r)
    OBVIOUS
  <2>4. \A p \in Newer(o) : p \in Newer(r) \union ({k} \X ToSet(r))
    BY <1>7, <2>1, <2>2
  <2>5. \A p \in Newer(r) \union ({k} \X ToSet(r)) : p \in Newer(o)
    BY <1>7, <2>1, <2>2, <2>3
  <2> QED
    BY <2>4, <2>5
<1> QED
  BY <1>1, <1>5, <1>6, <1>8 DEF o
LEMMA DistinctCount ==
  ASSUME NEW S, NEW o \in Seq(S), Distinct(o)
  PROVE  IsFiniteSet(ToSet(o)) /\ Cardinality(ToSet(o)) = Len(o)
<1>1. Len(o) \in Nat /\ DOMAIN o = 1..Len(o) /\ o \in [1..Len(o) -> S]
  BY LenProperties
<1>2. o \in Bijection(1..Len(o), ToSet(o))
  BY <1>1 DEF Distinct, ToSet, Bijection, Injection, Surjection, IsInjective
<1>3. ExistsBijection(1..Len(o), ToSet(o))
  BY <1>2 DEF ExistsBijection
<1> QED
  BY <1>1, <1>3, FS_CountingElements, FS_NatBijection

(* An instance has its own copies of the operators it is built from.       *)
LEMMA SameCardinality ==
  ASSUME NEW S
  PROVE  Abstract!Cardinality(S) = Cardinality(S)
BY DEF Abstract!Cardinality, Cardinality

(* The deque holds the keys of the map, once each, and no more than fit.   *)
CacheInv ==
  /\ map \in [K -> V \union {None}]
  /\ order \in Seq(K) /\ Distinct(order)
  /\ ToSet(order) = Present(map)
  /\ Len(order) <= MaxSize
  /\ result \in V \union {None}

(* Putting a key in front makes it newer than all others.                  *)
LEMMA InFront ==
  ASSUME CacheInv, NEW k \in K, NEW q, q \in {Promoted(k), Queued(k)}
  PROVE  /\ q \in Seq(K) /\ Distinct(q)
         /\ ToSet(q) = Present(map) \union {k}
         /\ Newer(q) = Lacking(Newer(order), k) \union ({k} \X (Present(map) \ {k}))
<1> DEFINE r == RemoveFirst(order, k)
<1>1. q = <<k>> \o r
  <2>1. CASE q = Promoted(k) \/ map[k] # None
    BY <2>1 DEF Promoted, Queued
  <2>2. CASE map[k] = None /\ q = Queued(k)
    <3>1. k \notin ToSet(order)
      BY <2>2 DEF CacheInv, Present
    <3>2. ~\E i \in 1..Len(order) : order[i] = k
      BY <3>1, LenProperties DEF CacheInv, ToSet
    <3>3. r = order
      BY <3>2 DEF RemoveFirst
    <3> QED
      BY <2>2, <3>3 DEF Queued
  <2> QED
    BY <2>1, <2>2
<1>2. /\ r \in Seq(K) /\ Distinct(r)
      /\ ToSet(r) = ToSet(order) \ {k}
      /\ Newer(r) = Lacking(Newer(order), k)
  BY Removing DEF CacheInv
<1> HIDE DEF r
<1>3. LET o == <<k>> \o r
      IN  /\ o \in Seq(K) /\ Distinct(o)
          /\ ToSet(o) = ToSet(r) \union {k}
          /\ Newer(o) = Newer(r) \union ({k} \X ToSet(r))
  BY <1>2, Pushing
<1>4. ToSet(order) = Present(map)
  BY DEF CacheInv
<1>5. q \in Seq(K) /\ Distinct(q)
  BY <1>1, <1>3
<1>6. ToSet(q) = Present(map) \union {k}
  BY <1>1, <1>2, <1>3, <1>4
<1>7. Newer(q) = Lacking(Newer(order), k) \union ({k} \X (Present(map) \ {k}))
  BY <1>1, <1>2, <1>3, <1>4
<1> QED
  BY <1>5, <1>6, <1>7

(* The abstract cache, in terms of the deque.                              *)
LEMMA AbstractTerms ==
  ASSUME NEW k
  PROVE  /\ Abstract!Cached = Present(map)
         /\ Abstract!Without(k) = Lacking(Newer(order), k)
         /\ Abstract!Newest(k) =
              Lacking(Newer(order), k) \union ({k} \X (Present(map) \ {k}))
BY DEF Abstract!Cached, Abstract!Without, Abstract!Newest, Present,
       Lacking, Newer

Overfull(k) == Cardinality(Present(map) \union {k}) > MaxSize
Backmost(k) == Last(Queued(k))

(* What an insertion leaves, which evicts or does not.                     *)
LEMMA Inserting ==
  ASSUME CacheInv, NEW k \in K, NEW v \in V,
         Evict(Stored(k, v), Queued(k))
  PROVE  /\ map' \in [K -> V \union {None}]
         /\ order' \in Seq(K) /\ Distinct(order')
         /\ ToSet(order') = Present(map')
         /\ Len(order') <= MaxSize
         /\ Present(Stored(k, v)) = Present(map) \union {k}
         /\ ~Overfull(k) => /\ map' = [map EXCEPT ![k] = v]
                     /\ Newer(order') = Abstract!Newest(k)
         /\ Overfull(k) => /\ Backmost(k) \in Abstract!Oldest /\ Backmost(k) \in K \ {k}
                    /\ map' = [map EXCEPT ![k] = v, ![Backmost(k)] = None]
                    /\ Newer(order') = Lacking(Abstract!Newest(k), Backmost(k))
                    /\ Stored(k, v)[Backmost(k)] = map[Backmost(k)]
<1> DEFINE q == Queued(k)
           m == Stored(k, v)
           old == Backmost(k)
           here == Present(map)
<1>0. MaxSize \in Nat \ {0} /\ None \notin V /\ map \in [K -> V \union {None}]
  BY LruCacheAssumption DEF CacheInv
<1>1. /\ q \in Seq(K) /\ Distinct(q)
      /\ ToSet(q) = here \union {k}
      /\ Newer(q) = Lacking(Newer(order), k) \union ({k} \X (here \ {k}))
  BY InFront
<1>2. Newer(q) = Abstract!Newest(k)
  BY <1>1, AbstractTerms
<1>3. m = [map EXCEPT ![k] = v] /\ m \in [K -> V \union {None}]
  BY <1>0 DEF Stored
<1>4. Present(m) = here \union {k}
  BY <1>0, <1>3 DEF Present
<1>5. /\ IsFiniteSet(here) /\ Cardinality(here) = Len(order) /\ Len(order) <= MaxSize
      /\ here \subseteq K /\ Len(order) \in Nat
  BY DistinctCount, LenProperties DEF CacheInv, Present
<1>6. IsFiniteSet(here \union {k}) /\ Cardinality(here \union {k}) = Len(q)
  BY <1>1, DistinctCount
<1>7. IF Overfull(k) THEN map' = [m EXCEPT ![old] = None] /\ order' = Front(q)
              ELSE map' = m /\ order' = q
  <2>1. Overfull(k) <=> Cardinality(Present(Stored(k, v))) > MaxSize
    BY <1>4, SameCardinality DEF Overfull
  <2> QED
    BY <2>1, Zenon DEF Evict, Backmost
<1>8. Len(q) \in Nat
  BY <1>1, LenProperties
<1> HIDE DEF q, m, old, here
<1>9. CASE ~Overfull(k)
  <2>1. Len(q) <= MaxSize
    BY <1>0, <1>6, <1>8, <1>9 DEF here, Overfull
  <2> QED
    BY <1>1, <1>2, <1>3, <1>4, <1>7, <1>9, <2>1 DEF m, here
<1>10. CASE Overfull(k)
  <2>1. Len(q) > MaxSize
    BY <1>6, <1>10 DEF here, Overfull
  <2>2. k \notin here /\ Len(q) = Len(order) + 1
    <3>1. Cardinality(here \union {k}) =
            IF k \in here THEN Cardinality(here) ELSE Cardinality(here) + 1
      BY <1>5, FS_AddElement
    <3> QED
      BY <1>0, <1>5, <1>6, <2>1, <3>1
  <2>3. q # << >>
    BY <1>8, <2>1, <1>0, EmptySeq
  <2>4. /\ Front(q) \in Seq(K) /\ Distinct(Front(q))
        /\ ToSet(Front(q)) = ToSet(q) \ {old}
        /\ Newer(Front(q)) = Lacking(Newer(q), old)
        /\ Len(Front(q)) = Len(q) - 1
        /\ old \in ToSet(q)
        /\ \A j \in ToSet(q) \ {old} : <<j, old>> \in Newer(q)
    BY <1>1, <2>3, Popping DEF q, old, Backmost
  <2>5. \A j \in K : <<j, old>> \in Newer(q) /\ j # k => <<j, old>> \in Newer(order)
    BY <1>1 DEF Lacking
  <2>6. old # k
    <3> SUFFICES ASSUME old = k PROVE FALSE
      OBVIOUS
    <3>1. here # {}
      <4>1. Len(order) > 0
        BY <1>0, <1>5, <2>1, <2>2
      <4> QED
        BY <1>5, <4>1, FS_EmptySet
    <3>2. PICK j \in here : TRUE
      BY <3>1
    <3>3. <<j, k>> \in Newer(q)
      BY <1>1, <2>2, <2>4, <3>2
    <3>4. \A p \in Lacking(Newer(order), k) : p[2] # k
      BY DEF Lacking
    <3> QED
      BY <1>1, <3>3, <3>4
  <2>7. old \in here
    BY <1>1, <2>4, <2>6
  <2>8. old \in Abstract!Oldest
    <3>1. \A j \in here \ {old} : <<j, old>> \in Newer(order)
      BY <1>1, <1>5, <2>2, <2>4, <2>5
    <3>2. here = Abstract!Cached
      BY AbstractTerms DEF here
    <3> QED
      BY <2>7, <3>1, <3>2 DEF Abstract!Oldest, Newer
  <2>9. map' = [m EXCEPT ![old] = None] /\ order' = Front(q)
    BY <1>7, <1>10
  <2>10. Present(map') = (here \union {k}) \ {old}
    BY <1>0, <1>3, <1>4, <2>9 DEF Present
  <2>11. Len(order') <= MaxSize
    BY <1>0, <1>5, <2>2, <2>4, <2>9
  <2>12. map' = [map EXCEPT ![k] = v, ![old] = None] /\ map' \in [K -> V \union {None}]
    BY <1>3, <2>9
  <2>13. m[old] = map[old]
    BY <1>0, <1>3, <1>5, <2>6, <2>7
  <2> QED
    BY <1>1, <1>2, <1>4, <1>5, <1>10, <2>4, <2>6, <2>7, <2>8, <2>9, <2>10, <2>11, <2>12, <2>13
       DEF m, old, here
<1> QED
  BY <1>9, <1>10

LEMMA CacheStarts ==
  ASSUME CacheInit
  PROVE  CacheInv /\ Abstract!Init
<1>1. Len(<< >>) = 0
  OBVIOUS
<1>2. CacheInv
  BY <1>1, LruCacheAssumption DEF CacheInit, CacheInv, Present, ToSet, Distinct
<1>3. Abstract!Init
  BY <1>1 DEF CacheInit, Abstract!Init
<1> QED
  BY <1>2, <1>3

(* Each step keeps the invariant and is a step of the abstract cache.      *)
CacheStepOK == CacheInv' /\ (Abstract!Next \/ UNCHANGED Abstract!vars)

LEMMA InsertStep ==
  ASSUME CacheInv, NEW k \in K, NEW v \in V,
         Insert(k, v) \/ InsertWithEviction(k, v)
  PROVE  CacheStepOK
<1> DEFINE back == Backmost(k)
<1>1. Evict(Stored(k, v), Queued(k))
  BY DEF Insert, InsertWithEviction
<1>2. /\ map' \in [K -> V \union {None}]
      /\ order' \in Seq(K) /\ Distinct(order')
      /\ ToSet(order') = Present(map')
      /\ Len(order') <= MaxSize
      /\ Present(Stored(k, v)) = Present(map) \union {k}
      /\ ~Overfull(k) => /\ map' = [map EXCEPT ![k] = v]
                  /\ Newer(order') = Abstract!Newest(k)
      /\ Overfull(k) => /\ back \in Abstract!Oldest /\ back \in K \ {k}
                 /\ map' = [map EXCEPT ![k] = v, ![back] = None]
                 /\ Newer(order') = Lacking(Abstract!Newest(k), back)
                 /\ Stored(k, v)[back] = map[back]
  BY <1>1, Inserting
<1>3. /\ ~Overfull(k) => result' = None
      /\ Overfull(k) => result' \in {None, map[back]}
  <2>1. Overfull(k) <=> Cardinality(Present(Stored(k, v))) > MaxSize
    BY <1>2, SameCardinality DEF Overfull
  <2>2. /\ ~Overfull(k) => result' = None
        /\ Overfull(k) => result' \in {None, Stored(k, v)[Backmost(k)]}
    BY <2>1 DEF Insert, InsertWithEviction, Backmost
  <2>3. Overfull(k) => Stored(k, v)[Backmost(k)] = map[Backmost(k)]
    BY <1>2
  <2> QED
    BY <2>2, <2>3
<1> HIDE DEF back
<1>4. CacheInv'
  BY <1>2, <1>3 DEF CacheInv
<1>5. Abstract!Cached = Present(map)
  BY AbstractTerms
<1>6. CASE ~Overfull(k)
  <2>1. Cardinality(Present(map) \union {k}) <= MaxSize
    <3>1. IsFiniteSet(Present(map))
      BY DistinctCount DEF CacheInv
    <3>2. Cardinality(Present(map) \union {k}) \in Nat
      BY <3>1, FS_AddElement, FS_CardinalityType
    <3> QED
      BY <1>6, <3>2, LruCacheAssumption DEF Overfull
  <2>2. Abstract!Put(k, v)
    <3>1. Newer(order)' = Abstract!Newest(k)
      BY <1>2, <1>6
    <3>2. Abstract!Cardinality(Abstract!Cached \union {k}) <= MaxSize
      BY <1>5, <2>1, SameCardinality
    <3> QED
      BY <1>2, <1>3, <1>5, <1>6, <3>1, <3>2, Zenon DEF Abstract!Put, Newer
  <2> QED
    BY <1>4, <2>2 DEF Abstract!Next, CacheStepOK
<1>7. CASE Overfull(k)
  <2>0. PICK old \in K : old = back
    BY <1>2, <1>7
  <2>1. Abstract!PutEvicting(k, v, old)
    <3>1. Newer(order)' = Lacking(Abstract!Newest(k), old)
      BY <1>2, <1>7, <2>0
    <3>2. Abstract!Cardinality(Abstract!Cached \union {k}) > MaxSize
      BY <1>5, <1>7, SameCardinality DEF Overfull
    <3>3. old \in Abstract!Oldest /\ map' = [map EXCEPT ![k] = v, ![old] = None]
      BY <1>2, <1>7, <2>0
    <3>4. result' \in {None, map[old]}
      BY <1>3, <1>7, <2>0
    <3> QED
      BY <3>1, <3>2, <3>3, <3>4, Zenon DEF Abstract!PutEvicting, Newer, Lacking
  <2> QED
    BY <1>4, <2>1 DEF Abstract!Next, CacheStepOK
<1> QED
  BY <1>6, <1>7

LEMMA CacheMoves ==
  ASSUME CacheInv, CacheNext
  PROVE  CacheStepOK
<1>0. /\ map \in [K -> V \union {None}] /\ order \in Seq(K) /\ Distinct(order)
      /\ ToSet(order) = Present(map) /\ Len(order) <= MaxSize /\ Len(order) \in Nat
      /\ None \notin V /\ MaxSize \in Nat
  BY LenProperties, LruCacheAssumption DEF CacheInv
<1>1. ASSUME NEW k \in K, NEW v \in V, Insert(k, v) \/ InsertWithEviction(k, v)
      PROVE  CacheStepOK
  BY <1>1, InsertStep
<1>2. ASSUME NEW k \in K, map[k] # None, order' = Promoted(k), map' = map,
             result' \in V \union {None}
      PROVE  CacheInv' /\ Newer(order)' = Abstract!Newest(k) /\ k \in Abstract!Cached
  <2>1. /\ order' \in Seq(K) /\ Distinct(order')
        /\ ToSet(order') = Present(map) \union {k}
        /\ Newer(order') = Lacking(Newer(order), k) \union ({k} \X (Present(map) \ {k}))
    BY <1>2, InFront
  <2>2. k \in Present(map)
    BY <1>2 DEF Present
  <2>3. Len(order') <= MaxSize
    <3>1. ToSet(order') = ToSet(order)
      BY <1>0, <2>1, <2>2
    <3> QED
      BY <1>0, <2>1, <3>1, DistinctCount
  <2>4. Present(map') = Present(map)
    BY <1>2
  <2> QED
    BY <1>0, <1>2, <2>1, <2>2, <2>3, <2>4, AbstractTerms DEF CacheInv
<1>3. ASSUME NEW k \in K, Fetch(k) PROVE CacheStepOK
  <2>1. result' = map[k] /\ map' = map
    BY <1>3 DEF Fetch
  <2>2. CASE map[k] # None
    <3>1. CacheInv' /\ Newer(order)' = Abstract!Newest(k) /\ k \in Abstract!Cached
      BY <1>0, <1>2, <1>3, <2>1, <2>2 DEF Fetch
    <3>2. Abstract!Fetch(k)
      BY <2>1, <3>1 DEF Abstract!Fetch, Newer
    <3> QED
      BY <3>1, <3>2 DEF Abstract!Next, CacheStepOK
  <2>3. CASE map[k] = None
    <3>1. order' = order /\ result' = None
      BY <1>3, <2>1, <2>3 DEF Fetch
    <3>2. k \notin Abstract!Cached
      BY <2>3 DEF Abstract!Cached
    <3>3. Abstract!Fetch(k)
      BY <2>1, <3>1, <3>2 DEF Abstract!Fetch
    <3>4. CacheInv'
      BY <2>1, <3>1 DEF CacheInv, Present, Distinct, ToSet
    <3> QED
      BY <3>3, <3>4 DEF Abstract!Next, CacheStepOK
  <2> QED
    BY <2>2, <2>3
<1>4. ASSUME NEW k \in K, Touch(k) PROVE CacheStepOK
  <2>1. map[k] # None /\ order' = Promoted(k) /\ map' = map /\ result' = None
    BY <1>4 DEF Touch
  <2>2. CacheInv' /\ Newer(order)' = Abstract!Newest(k) /\ k \in Abstract!Cached
    BY <1>2, <2>1
  <2>3. Abstract!Touch(k)
    BY <2>1, <2>2 DEF Abstract!Touch, Newer
  <2> QED
    BY <2>2, <2>3 DEF Abstract!Next, CacheStepOK
<1>5. ASSUME NEW k \in K, RemoveKey(k) PROVE CacheStepOK
  <2>1. /\ order' = RemoveFirst(order, k)
        /\ map' = [map EXCEPT ![k] = None] /\ result' = map[k]
    BY <1>5 DEF RemoveKey
  <2>2. /\ order' \in Seq(K) /\ Distinct(order')
        /\ ToSet(order') = ToSet(order) \ {k}
        /\ Newer(order') = Lacking(Newer(order), k)
        /\ Len(order') <= Len(order)
    BY <1>0, <2>1, Removing
  <2>3. Present(map') = Present(map) \ {k}
    BY <1>0, <2>1 DEF Present
  <2>4. Len(order') <= MaxSize
    BY <1>0, <2>2, LenProperties
  <2>5. CacheInv'
    BY <1>0, <2>1, <2>2, <2>3, <2>4 DEF CacheInv
  <2>6. Abstract!Remove(k)
    BY <2>1, <2>2, AbstractTerms DEF Abstract!Remove, Newer
  <2> QED
    BY <2>5, <2>6 DEF Abstract!Next, CacheStepOK
<1>6. CASE Clear
  <2>1. map' = [k \in K |-> None] /\ order' = << >> /\ result' = None
    BY <1>6 DEF Clear
  <2>2. Len(<< >>) = 0
    OBVIOUS
  <2>3. CacheInv'
    BY <1>0, <2>1, <2>2 DEF CacheInv, Present, ToSet, Distinct
  <2>4. Abstract!Clear
    BY <2>1, <2>2 DEF Abstract!Clear
  <2> QED
    BY <2>3, <2>4 DEF Abstract!Next, CacheStepOK
<1> QED
  BY <1>1, <1>3, <1>4, <1>5, <1>6 DEF CacheNext

(* A step that changes nothing.                                            *)
LEMMA CacheStutter ==
  ASSUME CacheInv, UNCHANGED cacheVars
  PROVE  CacheStepOK
BY DEF cacheVars, CacheInv, CacheStepOK, Present, ToSet, Distinct, Abstract!vars

LEMMA CacheAlways == CacheSpec => []CacheInv
<1>1. CacheInv /\ [CacheNext]_cacheVars => CacheInv'
  BY CacheMoves, CacheStutter DEF CacheStepOK
<1> QED
  BY <1>1, CacheStarts, PTL DEF CacheSpec

(* The deque and the map of the cache agree after any operations: an       *)
(* eviction always takes out a key that is cached.                         *)
THEOREM AgreeHolds == CacheSpec => []Agree
<1>1. CacheInv => Agree
  BY DEF CacheInv, Agree, Distinct
<1> QED
  BY <1>1, CacheAlways, PTL

(* The cache never holds more than max_size entries.                       *)
THEOREM CacheTypeCorrect == CacheSpec => []CacheTypeOK
<1>1. CacheInv => CacheTypeOK
  BY DEF CacheInv, CacheTypeOK
<1> QED
  BY <1>1, CacheAlways, PTL

(* insert, fetch, touch, remove and clear of the deque and the map are     *)
(* those of the abstract cache: what is evicted is the least recently used.*)
THEOREM EvictsLeastRecentlyUsedHolds == CacheSpec => EvictsLeastRecentlyUsed
<1>1. CacheInv /\ [CacheNext]_cacheVars => [Abstract!Next]_Abstract!vars
  BY CacheMoves, CacheStutter DEF CacheStepOK
<1>2. CacheInit => Abstract!Init
  BY CacheStarts
<1> QED
  BY <1>1, <1>2, CacheAlways, PTL
     DEF CacheSpec, EvictsLeastRecentlyUsed, Abstract!Spec
=============================================================================
