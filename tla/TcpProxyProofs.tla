--------------------------- MODULE TcpProxyProofs ---------------------------
(***************************************************************************)
(* What TcpProxy.tla keeps for any callers, calls, attempts and failures.  *)
(***************************************************************************)
EXTENDS TcpProxy, FiniteSetTheorems, TLAPS

Labels == {"idle", "connect", "send", "recv"}
Messages == Callers \X (1..MaxCalls) \X Attempts

(* The queue of the Mutex: the callers with a call under way, once each.   *)
QueueInv ==
  /\ queue \in Seq(Callers)
  /\ pc \in [Callers -> Labels]
  /\ \A c \in Callers : pc[c] # "idle" <=> \E i \in 1..Len(queue) : queue[i] = c
  /\ \A i, j \in 1..Len(queue) : queue[i] = queue[j] => i = j

HolderInv == \A c \in Callers : pc[c] \in {"send", "recv"} => Holds(c) /\ pooled

LEMMA RemovedAt ==
  ASSUME NEW S, NEW s \in Seq(S), NEW i \in 1..Len(s)
  PROVE  /\ RemoveAt(s, i) \in Seq(S)
         /\ Len(RemoveAt(s, i)) = Len(s) - 1
         /\ \A j \in 1..(Len(s) - 1) : RemoveAt(s, i)[j] = IF j < i THEN s[j] ELSE s[j + 1]
<1> DEFINE before == SubSeq(s, 1, i - 1)
           after == SubSeq(s, i + 1, Len(s))
<1>1. before \in Seq(S) /\ Len(before) = i - 1 /\ \A j \in 1..(i - 1) : before[j] = s[j]
  OBVIOUS
<1>2. after \in Seq(S) /\ Len(after) = Len(s) - i /\ \A j \in 1..(Len(s) - i) : after[j] = s[i + j]
  OBVIOUS
<1>3. RemoveAt(s, i) = before \o after
  BY DEF RemoveAt
<1> HIDE DEF before, after
<1>4. Len(before \o after) = Len(s) - 1 /\ before \o after \in Seq(S)
  BY <1>1, <1>2
<1>5. ASSUME NEW j \in 1..(Len(s) - 1)
      PROVE  (before \o after)[j] = IF j < i THEN s[j] ELSE s[j + 1]
  <2>1. CASE j < i
    BY <1>1, <1>2, <2>1
  <2>2. CASE j >= i
    <3>1. (before \o after)[j] = after[j - (i - 1)]
      BY <1>1, <1>2, <2>2
    <3>2. after[j - (i - 1)] = s[i + (j - (i - 1))] /\ i + (j - (i - 1)) = j + 1
      BY <1>2, <2>2
    <3> QED
      BY <2>2, <3>1, <3>2
  <2>3. j < i \/ j >= i
    <3>1. Len(s) \in Nat
      OBVIOUS
    <3>2. i \in Nat /\ j \in Nat
      BY <3>1
    <3> QED
      BY <3>2
  <2> QED
    BY <2>1, <2>2, <2>3
<1> QED
  BY <1>3, <1>4, <1>5

(* A caller queues up behind the others.                                   *)
LEMMA Entering ==
  ASSUME QueueInv, NEW c \in Callers, pc[c] = "idle",
         queue' = Append(queue, c), pc' = [pc EXCEPT ![c] = "connect"]
  PROVE  QueueInv' /\ \A d \in Callers : Holds(d) => Holds(d)'
<1>1. /\ queue' \in Seq(Callers) /\ Len(queue') = Len(queue) + 1 /\ Len(queue) \in Nat
      /\ \A i \in 1..Len(queue) : queue'[i] = queue[i]
      /\ queue'[Len(queue) + 1] = c
  BY DEF QueueInv
<1>2. \A i \in 1..Len(queue) : queue[i] # c
  BY DEF QueueInv
<1>3. pc' \in [Callers -> Labels]
  BY DEF QueueInv, Labels
<1>4. \A i, j \in 1..Len(queue') : queue'[i] = queue'[j] => i = j
  BY <1>1, <1>2 DEF QueueInv
<1>5. ASSUME NEW d \in Callers
      PROVE  pc'[d] # "idle" <=> \E i \in 1..Len(queue') : queue'[i] = d
  <2>1. CASE d = c
    <3>1. Len(queue) + 1 \in 1..Len(queue')
      BY <1>1
    <3> QED
      BY <1>1, <2>1, <3>1 DEF QueueInv
  <2>2. CASE d # c
    <3>1. \A i \in 1..Len(queue') : queue'[i] = d => i \in 1..Len(queue)
      BY <1>1, <2>2
    <3>2. \A i \in 1..Len(queue) : i \in 1..Len(queue')
      BY <1>1
    <3> QED
      BY <1>1, <2>2, <3>1, <3>2 DEF QueueInv
  <2> QED
    BY <2>1, <2>2
<1>6. \A d \in Callers : Holds(d) => Holds(d)'
  BY <1>1 DEF Holds, QueueInv
<1> QED
  BY <1>1, <1>3, <1>4, <1>5, <1>6 DEF QueueInv

(* A caller leaves the queue, from wherever it is.                         *)
LEMMA Leaving ==
  ASSUME QueueInv, NEW c \in Callers, NEW k \in 1..Len(queue), queue[k] = c,
         queue' = RemoveAt(queue, k), pc' = [pc EXCEPT ![c] = "idle"]
  PROVE  QueueInv' /\ \A d \in Callers \ {c} : Holds(d) => Holds(d)'
<1>1. /\ queue' \in Seq(Callers) /\ Len(queue') = Len(queue) - 1 /\ Len(queue) \in Nat \ {0}
      /\ \A j \in 1..(Len(queue) - 1) : queue'[j] = IF j < k THEN queue[j] ELSE queue[j + 1]
  <2>1. queue \in Seq(Callers) /\ Len(queue) \in Nat \ {0}
    BY DEF QueueInv
  <2> QED
    BY <2>1, RemovedAt
<1>2. pc' \in [Callers -> Labels]
  BY DEF QueueInv, Labels
<1>3. \A i, j \in 1..Len(queue') : queue'[i] = queue'[j] => i = j
  BY <1>1 DEF QueueInv
<1>4. \A j \in 1..Len(queue') : queue'[j] # c
  BY <1>1 DEF QueueInv
<1>5. ASSUME NEW d \in Callers \ {c}, NEW i \in 1..Len(queue), queue[i] = d
      PROVE  \E j \in 1..Len(queue') : queue'[j] = d
  <2>1. CASE i < k
    BY <1>1, <1>5, <2>1
  <2>2. CASE i > k
    <3>1. i - 1 \in 1..Len(queue') /\ queue'[i - 1] = queue[i]
      BY <1>1, <2>2
    <3> QED
      BY <1>5, <3>1
  <2> QED
    BY <1>5, <2>1, <2>2
<1>6. ASSUME NEW d \in Callers \ {c}, NEW j \in 1..Len(queue'), queue'[j] = d
      PROVE  \E i \in 1..Len(queue) : queue[i] = d
  <2>1. j \in 1..Len(queue) /\ j + 1 \in 1..Len(queue)
    BY <1>1
  <2> QED
    BY <1>1, <1>6, <2>1
<1>7. QueueInv'
  BY <1>1, <1>2, <1>3, <1>4, <1>5, <1>6 DEF QueueInv
<1>8. ASSUME NEW d \in Callers \ {c}, Holds(d) PROVE Holds(d)'
  <2>1. queue[1] = d /\ k # 1
    BY <1>1, <1>8 DEF Holds
  <2>2. 1 \in 1..Len(queue') /\ queue'[1] = queue[1]
    BY <1>1, <2>1
  <2> QED
    BY <1>1, <2>1, <2>2 DEF Holds
<1> QED
  BY <1>7, <1>8

-----------------------------------------------------------------------------
(* The streams and the results.                                            *)

TypeInv ==
  /\ kind \in [Callers -> {"sendrecv", "timed", "send_only"}]
  /\ n \in [Callers -> 0..MaxCalls]
  /\ attempts \in [Callers -> Attempts]
  /\ \A c \in Callers : pc[c] # "idle" => n[c] \in 1..MaxCalls
  /\ result \in [Callers -> [status : Statuses, of : Callers \X (0..MaxCalls), clean : BOOLEAN]]
  /\ pooled \in BOOLEAN
  /\ peer \in {"open", "closed", "reset"}
  /\ sent \in Seq(Messages)
  /\ replies \in Seq(Ids)
  /\ clean \in BOOLEAN
  /\ stray \subseteq Messages
  /\ executed \in [Ids -> Nat]

(* What is in a clean connection belongs to the call that waits for its    *)
(* reply: the request, or the reply, or neither if it was lost.            *)
CleanInv ==
  /\ peer # "open" => sent = << >>
  /\ clean /\ (\A c \in Callers : pc[c] # "recv") => sent = << >> /\ replies = << >>
  /\ \A c \in Callers : clean /\ pc[c] = "recv" =>
       \/ sent = << >> /\ replies = << >>
       \/ sent = <<<<c, n[c], attempts[c]>>>> /\ replies = << >>
       \/ sent = << >> /\ replies = <<<<c, n[c]>>>>

(* Only what was executed is answered.                                     *)
AnsweredInv == \A i \in 1..Len(replies) : executed[replies[i]] > 0

(* A clean result is that of the call, which was executed if it waited.    *)
ResultInv ==
  \A c \in Callers :
    pc[c] = "idle" /\ result[c].status = "ok" /\ result[c].clean =>
      /\ result[c].of = <<c, n[c]>>
      /\ n[c] > 0 /\ kind[c] # "send_only" => executed[<<c, n[c]>>] > 0

ProxyInv ==
  /\ QueueInv /\ HolderInv /\ TypeInv
  /\ CleanInv /\ AnsweredInv /\ ResultInv

LEMMA ProxyInit == Init => ProxyInv
<1> SUFFICES ASSUME Init PROVE ProxyInv
  OBVIOUS
<1> USE TcpProxyAssumption DEF Init
<1>1. QueueInv /\ HolderInv
  BY DEF QueueInv, HolderInv, Labels
<1>2. TypeInv
  <2>1. 0 \in 0..MaxCalls /\ 0 \in Attempts
    BY DEF Attempts
  <2>2. sent \in Seq(Messages) /\ replies \in Seq(Ids) /\ executed \in [Ids -> Nat]
    OBVIOUS
  <2>3. result \in [Callers -> [status : Statuses, of : Callers \X (0..MaxCalls), clean : BOOLEAN]]
    BY <2>1 DEF Statuses
  <2> QED
    BY <2>1, <2>2, <2>3 DEF TypeInv
<1>3. CleanInv /\ AnsweredInv
  BY DEF CleanInv, AnsweredInv
<1>4. ResultInv
  BY DEF ResultInv
<1> QED
  BY <1>1, <1>2, <1>3, <1>4 DEF ProxyInv

(* One caller at a time is past the Mutex.                                 *)
LEMMA OneHolder ==
  ASSUME HolderInv, NEW c \in Callers, Holds(c)
  PROVE  \A d \in Callers \ {c} : pc[d] \notin {"send", "recv"}
BY DEF HolderInv, Holds

(* What returning does to the Mutex and to the results.                    *)
LEMMA Returning ==
  ASSUME ProxyInv, NEW c \in Callers, NEW status \in Statuses, NEW of \in Callers \X (0..MaxCalls),
         Return(c, status, of), pc[c] # "idle", pooled' \in BOOLEAN,
         pooled' = pooled \/ Holds(c),
         executed' = executed,
         status = "ok" /\ clean =>
           of = <<c, n[c]>> /\ (kind[c] # "send_only" => executed[<<c, n[c]>>] > 0)
  PROVE  /\ QueueInv' /\ HolderInv' /\ ResultInv'
         /\ pc' = [pc EXCEPT ![c] = "idle"] /\ pc'[c] = "idle"
         /\ \A d \in Callers \ {c} : pc'[d] = pc[d]
         /\ UNCHANGED <<kind, n, attempts>>
         /\ result' \in [Callers -> [status : Statuses, of : Callers \X (0..MaxCalls), clean : BOOLEAN]]
<1> USE DEF ProxyInv
<1>1. PICK k \in 1..Len(queue) : queue[k] = c /\ queue' = RemoveAt(queue, k)
  BY DEF Return
<1>2. pc' = [pc EXCEPT ![c] = "idle"] /\ UNCHANGED <<kind, n, attempts>>
      /\ result' = [result EXCEPT ![c] = [status |-> status, of |-> of, clean |-> clean]]
  BY DEF Return
<1>3. QueueInv' /\ \A d \in Callers \ {c} : Holds(d) => Holds(d)'
  BY <1>1, <1>2, Leaving
<1>4. pc'[c] = "idle" /\ \A d \in Callers \ {c} : pc'[d] = pc[d]
  BY <1>2 DEF QueueInv
<1>5. HolderInv'
  BY <1>3, <1>4, OneHolder DEF HolderInv
<1>6. result' \in [Callers -> [status : Statuses, of : Callers \X (0..MaxCalls), clean : BOOLEAN]]
  BY <1>2 DEF TypeInv
<1>7. ResultInv'
  <2>1. \A d \in Callers \ {c} : result'[d] = result[d]
    BY <1>2 DEF TypeInv
  <2>2. result'[c] = [status |-> status, of |-> of, clean |-> clean]
    BY <1>2 DEF TypeInv
  <2> QED
    BY <1>2, <1>4, <2>1, <2>2 DEF ResultInv
<1> QED
  BY <1>2, <1>3, <1>4, <1>5, <1>6, <1>7

(* What going on does to the Mutex and to the results.                     *)
LEMMA GoingOn ==
  ASSUME ProxyInv, NEW c \in Callers, NEW label \in Labels \ {"idle"}, Goto(c, label), Holds(c),
         pc[c] # "idle", pooled', executed' = executed
  PROVE  /\ QueueInv' /\ HolderInv' /\ ResultInv'
         /\ pc' = [pc EXCEPT ![c] = label] /\ pc'[c] = label
         /\ \A d \in Callers \ {c} : pc'[d] = pc[d]
         /\ UNCHANGED <<queue, kind, n, attempts, result>>
<1> USE DEF ProxyInv
<1>1. pc' = [pc EXCEPT ![c] = label] /\ UNCHANGED <<queue, kind, n, attempts, result>>
  BY DEF Goto
<1>2. pc'[c] = label /\ \A d \in Callers \ {c} : pc'[d] = pc[d]
  BY <1>1 DEF QueueInv
<1>3. QueueInv'
  BY <1>1, <1>2 DEF QueueInv
<1>4. HolderInv'
  BY <1>1, <1>2, OneHolder DEF HolderInv, Holds
<1>5. ResultInv'
  BY <1>1, <1>2 DEF ResultInv
<1> QED
  BY <1>1, <1>2, <1>3, <1>4, <1>5

(* What the server and the network do leaves the callers where they are.   *)
LEMMA CallersStay ==
  ASSUME ProxyInv, UNCHANGED caller, pooled' = pooled \/ queue = << >>,
         executed' \in [Ids -> Nat], \A id \in Ids : executed'[id] >= executed[id]
  PROVE  QueueInv' /\ HolderInv' /\ ResultInv'
<1> USE DEF ProxyInv, caller
<1>1. QueueInv'
  BY DEF QueueInv
<1>2. HolderInv'
  BY DEF HolderInv, Holds
<1>3. ASSUME NEW c \in Callers, pc[c] = "idle", n[c] > 0, executed[<<c, n[c]>>] > 0
      PROVE  executed'[<<c, n[c]>>] > 0
  <2>1. <<c, n[c]>> \in Ids
    BY <1>3 DEF TypeInv, Ids
  <2> QED
    BY <1>3, <2>1 DEF TypeInv
<1>4. ResultInv'
  BY <1>3 DEF ResultInv
<1> QED
  BY <1>1, <1>2, <1>4

LEMMA Dropped ==
  ASSUME ProxyInv, DropConnection
  PROVE  /\ pooled' = FALSE /\ peer' = "open" /\ clean' = TRUE
         /\ sent' = << >> /\ replies' = << >>
         /\ stray' \subseteq Messages
<1>1. ToSet(sent) \subseteq Messages
  BY DEF ProxyInv, TypeInv, ToSet
<1> QED
  BY <1>1 DEF DropConnection, ProxyInv, TypeInv

LEMMA CallStep ==
  ASSUME ProxyInv, NEW c \in Callers, NEW k \in {"sendrecv", "timed", "send_only"}, Call(c, k)
  PROVE  ProxyInv'
<1> USE TcpProxyAssumption DEF ProxyInv
<1>1. /\ pc[c] = "idle" /\ n[c] < MaxCalls
      /\ queue' = Append(queue, c)
      /\ pc' = [pc EXCEPT ![c] = "connect"]
      /\ kind' = [kind EXCEPT ![c] = k]
      /\ n' = [n EXCEPT ![c] = @ + 1]
      /\ attempts' = [attempts EXCEPT ![c] = 0]
      /\ UNCHANGED <<result, pooled, sent, replies, peer, clean, stray, executed>>
  BY DEF Call, connection
<1>2. QueueInv' /\ \A d \in Callers : Holds(d) => Holds(d)'
  BY <1>1, Entering
<1>3. pc'[c] = "connect" /\ \A d \in Callers \ {c} : pc'[d] = pc[d]
  BY <1>1 DEF QueueInv
<1>4. HolderInv'
  BY <1>1, <1>2, <1>3 DEF HolderInv
<1>5. /\ n' \in [Callers -> 0..MaxCalls] /\ n'[c] \in 1..MaxCalls
      /\ attempts' \in [Callers -> Attempts]
      /\ kind' \in [Callers -> {"sendrecv", "timed", "send_only"}]
      /\ \A d \in Callers \ {c} : n'[d] = n[d] /\ attempts'[d] = attempts[d] /\ kind'[d] = kind[d]
  BY <1>1 DEF TypeInv, Attempts
<1>6. TypeInv'
  BY <1>1, <1>3, <1>5 DEF TypeInv
<1>7. CleanInv'
  BY <1>1, <1>3, <1>5 DEF CleanInv
<1>8. AnsweredInv'
  BY <1>1 DEF AnsweredInv
<1>9. ResultInv'
  BY <1>1, <1>3, <1>5 DEF ResultInv
<1> QED
  BY <1>2, <1>4, <1>6, <1>7, <1>8, <1>9

(* The steps of a caller with a call under way.                            *)
LEMMA CallerStep ==
  ASSUME ProxyInv, NEW c \in Callers, Step(c)
  PROVE  ProxyInv'
<1> USE TcpProxyAssumption DEF ProxyInv
<1>1. CASE Connect(c)
  <2>1. /\ Holds(c) /\ pc[c] = "connect" /\ pooled' = TRUE /\ Goto(c, "send")
        /\ UNCHANGED <<sent, replies, peer, clean, stray, executed>>
    BY <1>1 DEF Connect, At
  <2>2. /\ QueueInv' /\ HolderInv' /\ ResultInv' /\ pc'[c] = "send"
        /\ \A d \in Callers \ {c} : pc'[d] = pc[d]
        /\ UNCHANGED <<kind, n, attempts, result>>
    BY <2>1, GoingOn DEF Labels
  <2>3. TypeInv'
    BY <2>1, <2>2 DEF TypeInv
  <2>4. CleanInv' /\ AnsweredInv'
    BY <2>1, <2>2 DEF CleanInv, AnsweredInv
  <2> QED
    BY <2>2, <2>3, <2>4
<1>2. CASE ConnectFails(c)
  <2>1. /\ pc[c] = "connect" /\ Return(c, "connection_failed", <<c, n[c]>>)
        /\ UNCHANGED <<pooled, sent, replies, peer, clean, stray, executed>>
    BY <1>2 DEF ConnectFails, At, connection
  <2>2. /\ QueueInv' /\ HolderInv' /\ ResultInv' /\ pc'[c] = "idle"
        /\ \A d \in Callers \ {c} : pc'[d] = pc[d]
        /\ UNCHANGED <<kind, n, attempts>>
        /\ result' \in [Callers -> [status : Statuses, of : Callers \X (0..MaxCalls), clean : BOOLEAN]]
    BY <2>1, Returning DEF Statuses, TypeInv
  <2>3. TypeInv'
    BY <2>1, <2>2 DEF TypeInv
  <2>4. CleanInv' /\ AnsweredInv'
    BY <2>1, <2>2 DEF CleanInv, AnsweredInv
  <2> QED
    BY <2>2, <2>3, <2>4
<1>3. CASE Send(c)
  <2> DEFINE m == <<c, n[c], attempts[c]>>
  <2>1. /\ Holds(c) /\ pc[c] = "send" /\ pooled
        /\ sent' = (IF peer = "open" THEN sent \o <<m>> ELSE sent)
        /\ clean' = (clean /\ kind[c] # "send_only")
        /\ UNCHANGED <<pooled, replies, peer, stray, executed>>
    BY <1>3 DEF Send, At, SendMessage, HolderInv
  <2>2. /\ QueueInv' /\ HolderInv' /\ ResultInv'
        /\ \A d \in Callers \ {c} : pc'[d] = pc[d]
        /\ UNCHANGED <<kind, n, attempts>>
        /\ (pc'[c] = "idle" /\ kind[c] = "send_only") \/ pc'[c] = "recv"
        /\ result' \in [Callers -> [status : Statuses, of : Callers \X (0..MaxCalls), clean : BOOLEAN]]
    <3>1. CASE kind[c] = "send_only"
      <4>1. Return(c, "ok", <<c, n[c]>>)
        BY <1>3, <3>1 DEF Send
      <4> QED
        BY <2>1, <3>1, <4>1, Returning DEF Statuses, TypeInv
    <3>2. CASE kind[c] # "send_only"
      <4>1. Goto(c, "recv")
        BY <1>3, <3>2 DEF Send
      <4> QED
        BY <2>1, <4>1, GoingOn DEF Labels, TypeInv
    <3> QED
      BY <3>1, <3>2
  <2>3. m \in Messages
    BY <2>1 DEF TypeInv, Messages
  <2>4. sent' \in Seq(Messages)
    BY <2>1, <2>3 DEF TypeInv
  <2>5. TypeInv'
    BY <2>1, <2>2, <2>4 DEF TypeInv
  <2>6. \A d \in Callers \ {c} : pc[d] # "recv"
    BY <2>1, OneHolder
  <2>7. clean => replies = << >> /\ sent = << >>
    BY <2>1, <2>6 DEF CleanInv
  <2>8. CleanInv'
    <3>0. << >> \o <<m>> = <<m>>
      BY <2>3
    <3>1. clean' => sent' = << >> \/ sent' = <<m>>
      BY <2>1, <2>7, <3>0
    <3>2. clean' => pc'[c] = "recv" /\ replies' = << >>
      BY <2>1, <2>2, <2>7
    <3>3. peer' # "open" => sent' = << >>
      BY <2>1 DEF CleanInv
    <3> QED
      BY <2>2, <2>6, <3>1, <3>2, <3>3 DEF CleanInv
  <2>9. AnsweredInv'
    BY <2>1 DEF AnsweredInv
  <2> QED
    BY <2>2, <2>5, <2>8, <2>9
<1>4. CASE Recv(c)
  <2>1. /\ Holds(c) /\ pc[c] = "recv" /\ replies # << >> /\ replies' = Tail(replies)
        /\ Return(c, "ok", Head(replies))
        /\ UNCHANGED <<pooled, sent, peer, clean, stray, executed>>
    BY <1>4 DEF Recv, At, RecvMessage
  <2>2. /\ replies \in Seq(Ids) /\ 1 \in 1..Len(replies) /\ Head(replies) = replies[1]
        /\ Head(replies) \in Ids /\ Head(replies) \in Callers \X (0..MaxCalls)
    <3>1. replies \in Seq(Ids) /\ 1 \in 1..Len(replies) /\ Head(replies) = replies[1]
      BY <2>1 DEF TypeInv
    <3> QED
      BY <3>1 DEF Ids
  <2>3. clean => sent = << >> /\ replies = <<<<c, n[c]>>>>
    BY <2>1 DEF CleanInv
  <2>4. clean => Head(replies) = <<c, n[c]>> /\ executed[<<c, n[c]>>] > 0
    BY <2>2, <2>3 DEF AnsweredInv
  <2>5. /\ QueueInv' /\ HolderInv' /\ ResultInv' /\ pc'[c] = "idle"
        /\ \A d \in Callers \ {c} : pc'[d] = pc[d]
        /\ UNCHANGED <<kind, n, attempts>>
        /\ result' \in [Callers -> [status : Statuses, of : Callers \X (0..MaxCalls), clean : BOOLEAN]]
    BY <2>1, <2>2, <2>4, Returning DEF Statuses, TypeInv
  <2>6. replies' \in Seq(Ids)
    BY <2>1, <2>2
  <2>7. TypeInv'
    BY <2>1, <2>5, <2>6 DEF TypeInv
  <2>8. CleanInv'
    <3>1. clean' => sent' = << >> /\ replies' = << >>
      BY <2>1, <2>3
    <3> QED
      BY <2>1, <3>1 DEF CleanInv
  <2>9. AnsweredInv'
    <3>1. \A i \in 1..Len(replies') : i + 1 \in 1..Len(replies) /\ replies'[i] = replies[i + 1]
      BY <2>1, <2>2
    <3> QED
      BY <2>1, <3>1 DEF AnsweredInv
  <2> QED
    BY <2>5, <2>7, <2>8, <2>9
<1>5. CASE Broken(c)
  <2>1. /\ Holds(c) /\ pc[c] \in {"send", "recv"} /\ DropConnection /\ executed' = executed
    BY <1>5 DEF Broken
  <2>2. /\ pooled' = FALSE /\ peer' = "open" /\ clean' = TRUE
        /\ sent' = << >> /\ replies' = << >> /\ stray' \subseteq Messages
    BY <2>1, Dropped
  <2>3. CleanInv' /\ AnsweredInv'
    BY <2>2 DEF CleanInv, AnsweredInv
  <2>6. sent' \in Seq(Messages) /\ replies' \in Seq(Ids)
    BY <2>2
  <2>7. executed' \in [Ids -> Nat]
    BY <2>1 DEF TypeInv
  <2>4. CASE attempts[c] + 1 > MaxReconnectAttempts
    <3>1. Return(c, "broken", <<c, n[c]>>)
      BY <1>5, <2>4 DEF Broken
    <3>2. /\ QueueInv' /\ HolderInv' /\ ResultInv' /\ pc'[c] = "idle"
          /\ \A d \in Callers \ {c} : pc'[d] = pc[d]
          /\ UNCHANGED <<kind, n, attempts>>
          /\ result' \in [Callers -> [status : Statuses, of : Callers \X (0..MaxCalls), clean : BOOLEAN]]
      BY <2>1, <2>2, <3>1, Returning DEF Statuses, TypeInv
    <3>3. TypeInv'
      BY <2>2, <2>6, <2>7, <3>2 DEF TypeInv
    <3> QED
      BY <2>3, <3>2, <3>3
  <2>5. CASE ~(attempts[c] + 1 > MaxReconnectAttempts)
    <3>1. /\ attempts' = [attempts EXCEPT ![c] = @ + 1] /\ pc' = [pc EXCEPT ![c] = "connect"]
          /\ UNCHANGED <<queue, kind, n, result>>
      BY <1>5, <2>5 DEF Broken
    <3>2. attempts' \in [Callers -> Attempts]
      BY <2>5, <3>1 DEF TypeInv, Attempts
    <3>3. pc'[c] = "connect" /\ \A d \in Callers \ {c} : pc'[d] = pc[d]
      BY <3>1 DEF QueueInv
    <3>4. QueueInv'
      BY <2>1, <3>1, <3>3 DEF QueueInv, Labels
    <3>5. HolderInv'
      BY <2>1, <3>3, OneHolder DEF HolderInv
    <3>6. TypeInv'
      BY <2>1, <2>2, <2>6, <2>7, <3>1, <3>2, <3>3 DEF TypeInv
    <3>7. ResultInv'
      BY <2>1, <3>1, <3>3 DEF ResultInv
    <3> QED
      BY <2>3, <3>4, <3>5, <3>6, <3>7
  <2> QED
    BY <2>4, <2>5
<1>6. CASE RecvEof(c)
  <2>1. /\ Holds(c) /\ pc[c] = "recv" /\ peer = "closed" /\ replies = << >>
        /\ Return(c, "eof", <<c, n[c]>>)
        /\ UNCHANGED <<pooled, sent, replies, peer, clean, stray, executed>>
    BY <1>6 DEF RecvEof, At, connection
  <2>2. /\ QueueInv' /\ HolderInv' /\ ResultInv' /\ pc'[c] = "idle"
        /\ \A d \in Callers \ {c} : pc'[d] = pc[d]
        /\ UNCHANGED <<kind, n, attempts>>
        /\ result' \in [Callers -> [status : Statuses, of : Callers \X (0..MaxCalls), clean : BOOLEAN]]
    BY <2>1, Returning DEF Statuses, TypeInv
  <2>3. TypeInv'
    BY <2>1, <2>2 DEF TypeInv
  <2>4. sent' = << >> /\ replies' = << >>
    BY <2>1 DEF CleanInv
  <2>5. CleanInv' /\ AnsweredInv'
    BY <2>4 DEF CleanInv, AnsweredInv
  <2> QED
    BY <2>2, <2>3, <2>5
<1>7. CASE Timeout(c)
  <2>1. /\ pc[c] # "idle" /\ Return(c, "timeout", <<c, n[c]>>)
        /\ clean' = (clean /\ pc[c] # "recv")
        /\ UNCHANGED <<pooled, sent, replies, peer, stray, executed>>
    BY <1>7 DEF Timeout
  <2>2. /\ QueueInv' /\ HolderInv' /\ ResultInv' /\ pc'[c] = "idle"
        /\ \A d \in Callers \ {c} : pc'[d] = pc[d]
        /\ UNCHANGED <<kind, n, attempts>>
        /\ result' \in [Callers -> [status : Statuses, of : Callers \X (0..MaxCalls), clean : BOOLEAN]]
    BY <2>1, Returning DEF Statuses, TypeInv
  <2>3. TypeInv'
    BY <2>1, <2>2 DEF TypeInv
  <2>4. CleanInv' /\ AnsweredInv'
    BY <2>1, <2>2 DEF CleanInv, AnsweredInv
  <2> QED
    BY <2>2, <2>3, <2>4
<1> QED
  BY <1>1, <1>2, <1>3, <1>4, <1>5, <1>6, <1>7 DEF Step

(* The steps of the server and of the network.                             *)
LEMMA ServeStep ==
  ASSUME ProxyInv, Serve
  PROVE  ProxyInv'
<1> USE TcpProxyAssumption DEF ProxyInv
<1> DEFINE m == Head(sent)
           id == <<m[1], m[2]>>
<1>1. /\ peer = "open" /\ sent # << >>
      /\ executed' = [executed EXCEPT ![id] = @ + 1]
      /\ replies' = Append(replies, id)
      /\ sent' = Tail(sent)
      /\ UNCHANGED caller /\ UNCHANGED <<queue, pc, kind, n, attempts, result>>
      /\ UNCHANGED <<pooled, peer, clean, stray>>
  BY DEF Serve, caller
<1>2. m \in Messages /\ sent' \in Seq(Messages)
  BY <1>1 DEF TypeInv
<1>3. id \in Ids
  BY <1>2 DEF Messages, Ids
<1>4. executed' \in [Ids -> Nat] /\ executed'[id] > 0 /\ \A i \in Ids : executed'[i] >= executed[i]
  <2> HIDE DEF id
  <2>1. executed \in [Ids -> Nat]
    BY DEF TypeInv
  <2> QED
    BY <1>1, <1>3, <2>1
<1>5. QueueInv' /\ HolderInv' /\ ResultInv'
  BY <1>1, <1>4, CallersStay
<1> HIDE DEF id, m
<1>6. /\ replies' \in Seq(Ids) /\ Len(replies') = Len(replies) + 1 /\ Len(replies) \in Nat
      /\ \A i \in 1..Len(replies) : replies'[i] = replies[i] /\ replies[i] \in Ids
      /\ replies'[Len(replies) + 1] = id
  BY <1>1, <1>3 DEF TypeInv
<1>7. TypeInv'
  BY <1>1, <1>2, <1>4, <1>6 DEF TypeInv
<1>8. AnsweredInv'
  <2>1. ASSUME NEW i \in 1..Len(replies), executed[replies[i]] > 0
        PROVE  executed'[replies'[i]] > 0
    <3>1. replies'[i] = replies[i] /\ replies[i] \in Ids
      BY <1>6
    <3>2. executed'[replies[i]] >= executed[replies[i]]
      BY <1>4, <3>1
    <3>3. executed[replies[i]] \in Nat /\ executed'[replies[i]] \in Nat
      <4>1. executed \in [Ids -> Nat]
        BY DEF TypeInv
      <4> QED
        BY <1>4, <3>1, <4>1
    <3> QED
      BY <2>1, <3>1, <3>2, <3>3
  <2>2. \A i \in 1..Len(replies') : i \in 1..Len(replies) \/ i = Len(replies) + 1
    BY <1>6
  <2> QED
    BY <1>4, <1>6, <2>1, <2>2 DEF AnsweredInv
<1>9. ASSUME NEW c \in Callers, clean, pc[c] = "recv"
      PROVE  sent' = << >> /\ replies' = <<<<c, n[c]>>>>
  <2>1. sent = <<<<c, n[c], attempts[c]>>>> /\ replies = << >>
    BY <1>1, <1>9 DEF CleanInv
  <2>2. m = <<c, n[c], attempts[c]>> /\ sent' = << >>
    BY <1>1, <2>1 DEF m
  <2>3. id = <<c, n[c]>>
    BY <2>2 DEF id
  <2> QED
    BY <1>1, <2>1, <2>2, <2>3
<1>10. CleanInv'
  BY <1>1, <1>9 DEF CleanInv
<1> QED
  BY <1>5, <1>7, <1>8, <1>10

LEMMA WorldStep ==
  ASSUME ProxyInv,
         \/ CloseConnection
         \/ \E r \in stray : ServeStray(r) \/ LoseStray(r)
         \/ ServerStops \/ StopAccepting \/ ServerStarts \/ ConnectionLost
         \/ UNCHANGED vars
  PROVE  ProxyInv'
<1> USE TcpProxyAssumption DEF ProxyInv
<1>e. << >> \in Seq(Messages) /\ << >> \in Seq(Ids)
  OBVIOUS
<1>n. executed \in [Ids -> Nat] /\ \A i \in Ids : executed[i] >= executed[i]
  BY DEF TypeInv
<1>t. ToSet(sent) \subseteq Messages
  BY DEF TypeInv, ToSet
<1>1. CASE CloseConnection
  <2>1. queue = << >> /\ DropConnection /\ UNCHANGED caller /\ executed' = executed
        /\ UNCHANGED <<queue, pc, kind, n, attempts, result>>
    BY <1>1 DEF CloseConnection, caller
  <2>2. /\ pooled' = FALSE /\ peer' = "open" /\ clean' = TRUE
        /\ sent' = << >> /\ replies' = << >> /\ stray' \subseteq Messages
    BY <2>1, Dropped
  <2>3. QueueInv' /\ HolderInv' /\ ResultInv'
    BY <1>n, <2>1, CallersStay
  <2>4. TypeInv'
    BY <1>e, <2>1, <2>2 DEF TypeInv
  <2>5. CleanInv' /\ AnsweredInv'
    BY <2>2 DEF CleanInv, AnsweredInv
  <2> QED
    BY <2>3, <2>4, <2>5
<1>2. CASE \E r \in stray : ServeStray(r) \/ LoseStray(r)
  <2>1. PICK r \in stray : ServeStray(r) \/ LoseStray(r)
    BY <1>2
  <2> DEFINE id == <<r[1], r[2]>>
  <2>2. id \in Ids
    BY DEF TypeInv, Messages, Ids
  <2>3. /\ UNCHANGED caller /\ UNCHANGED <<queue, pc, kind, n, attempts, result>>
        /\ UNCHANGED <<pooled, sent, replies, peer, clean>>
        /\ stray' = stray \ {r}
        /\ executed' = [executed EXCEPT ![id] = @ + 1] \/ executed' = executed
    BY <2>1 DEF ServeStray, LoseStray, caller, connection
  <2>4. executed' \in [Ids -> Nat] /\ \A i \in Ids : executed'[i] >= executed[i]
    BY <1>n, <2>2, <2>3
  <2>5. QueueInv' /\ HolderInv' /\ ResultInv'
    BY <2>3, <2>4, CallersStay
  <2>6. TypeInv'
    BY <2>3, <2>4 DEF TypeInv
  <2>7. CleanInv'
    BY <2>3 DEF CleanInv
  <2>8. AnsweredInv'
    <3>1. \A i \in 1..Len(replies) : replies[i] \in Ids
      BY DEF TypeInv
    <3>2. ASSUME NEW i \in Ids, executed[i] > 0 PROVE executed'[i] > 0
      BY <1>n, <2>4, <3>2
    <3> QED
      BY <2>3, <3>1, <3>2 DEF AnsweredInv
  <2> QED
    BY <2>5, <2>6, <2>7, <2>8
<1>3. CASE ServerStops
  <2>1. /\ UNCHANGED caller /\ UNCHANGED <<queue, pc, kind, n, attempts, result>>
        /\ UNCHANGED <<pooled, replies, clean, executed>>
        /\ peer' \in {"open", "closed", "reset"} /\ sent' = << >> /\ stray' = {}
    BY <1>3 DEF ServerStops, caller
  <2>2. QueueInv' /\ HolderInv' /\ ResultInv'
    BY <1>n, <2>1, CallersStay
  <2>3. TypeInv'
    BY <1>e, <2>1 DEF TypeInv
  <2>4. CleanInv' /\ AnsweredInv'
    BY <2>1 DEF CleanInv, AnsweredInv
  <2> QED
    BY <2>2, <2>3, <2>4
<1>4. CASE StopAccepting \/ ServerStarts \/ UNCHANGED vars
  <2>1. /\ UNCHANGED caller /\ UNCHANGED <<queue, pc, kind, n, attempts, result>>
        /\ UNCHANGED <<pooled, sent, replies, peer, clean, stray, executed>>
    BY <1>4 DEF StopAccepting, ServerStarts, vars, caller, connection
  <2>2. QueueInv' /\ HolderInv' /\ ResultInv'
    BY <1>n, <2>1, CallersStay
  <2>3. TypeInv' /\ CleanInv' /\ AnsweredInv'
    BY <2>1 DEF TypeInv, CleanInv, AnsweredInv
  <2> QED
    BY <2>2, <2>3
<1>5. CASE ConnectionLost
  <2>1. /\ UNCHANGED caller /\ UNCHANGED <<queue, pc, kind, n, attempts, result>>
        /\ UNCHANGED <<pooled, clean, executed>>
        /\ peer' = "reset" /\ sent' = << >> /\ replies' = << >>
        /\ stray' = stray \union ToSet(sent)
    BY <1>5 DEF ConnectionLost, caller
  <2>2. QueueInv' /\ HolderInv' /\ ResultInv'
    BY <1>n, <2>1, CallersStay
  <2>3. TypeInv'
    BY <1>e, <1>t, <2>1 DEF TypeInv
  <2>4. CleanInv' /\ AnsweredInv'
    BY <2>1 DEF CleanInv, AnsweredInv
  <2> QED
    BY <2>2, <2>3, <2>4
<1> QED
  BY <1>1, <1>2, <1>3, <1>4, <1>5

LEMMA ProxyStep == ProxyInv /\ [Next]_vars => ProxyInv'
<1> SUFFICES ASSUME ProxyInv, [Next]_vars PROVE ProxyInv'
  OBVIOUS
<1>1. ASSUME NEW c \in Callers, HealthCheck(c) PROVE ProxyInv'
  BY <1>1, CallStep DEF HealthCheck
<1>2. ASSUME NEW c \in Callers, NEW k \in Kinds, Call(c, k) PROVE ProxyInv'
  BY <1>2, CallStep, TcpProxyAssumption
<1>3. ASSUME NEW c \in Callers, Step(c) PROVE ProxyInv'
  BY <1>3, CallerStep
<1> QED
  BY <1>1, <1>2, <1>3, ServeStep, WorldStep DEF Next

LEMMA ProxyHolds == Spec => []ProxyInv
BY ProxyInit, ProxyStep, PTL DEF Spec

-----------------------------------------------------------------------------
(* How often a call is executed: a request written for one of its attempts *)
(* is in one place, and whoever executes it takes it from there.           *)

Pending == stray \union ToSet(sent)

(* The attempts for which call i of c may have been written.               *)
Started(c, i) ==
  IF i < n[c] THEN MaxReconnectAttempts + 1
  ELSE IF i > n[c] THEN 0
  ELSE IF pc[c] \in {"connect", "send"} THEN attempts[c] ELSE attempts[c] + 1

Waiting(P, c, i) == {a \in Attempts : <<c, i, a>> \in P}

DistinctInv ==
  /\ \A i, j \in 1..Len(sent) : sent[i] = sent[j] => i = j
  /\ ToSet(sent) \intersect stray = {}

BudgetInv ==
  \A c \in Callers : \A i \in 1..MaxCalls :
    /\ \A a \in Waiting(Pending, c, i) : a < Started(c, i)
    /\ executed[<<c, i>>] + Cardinality(Waiting(Pending, c, i)) <= Started(c, i)

CountInv == ProxyInv /\ DistinctInv /\ BudgetInv

LEMMA WaitingFinite ==
  ASSUME NEW P, NEW c, NEW i
  PROVE  /\ IsFiniteSet(Waiting(P, c, i)) /\ Cardinality(Waiting(P, c, i)) \in Nat
         /\ \A Q : Q \subseteq P => Cardinality(Waiting(Q, c, i)) <= Cardinality(Waiting(P, c, i))
<1>1. IsFiniteSet(Attempts)
  BY TcpProxyAssumption, FS_Interval DEF Attempts
<1>2. IsFiniteSet(Waiting(P, c, i))
  BY <1>1, FS_Subset DEF Waiting
<1>3. ASSUME NEW Q, Q \subseteq P
      PROVE  Cardinality(Waiting(Q, c, i)) <= Cardinality(Waiting(P, c, i))
  <2>1. Waiting(Q, c, i) \subseteq Waiting(P, c, i)
    BY <1>3 DEF Waiting
  <2> QED
    BY <1>2, <2>1, FS_Subset
<1> QED
  BY <1>2, <1>3, FS_CardinalityType

StartedIn ==
  \A c \in Callers : \A i \in 1..MaxCalls : Started(c, i) \in 0..(MaxReconnectAttempts + 1)

LEMMA StartedBounds == TypeInv => StartedIn
<1> SUFFICES ASSUME TypeInv, NEW c \in Callers, NEW i \in 1..MaxCalls
             PROVE  Started(c, i) \in 0..(MaxReconnectAttempts + 1)
  BY DEF StartedIn
<1>1. attempts[c] \in 0..MaxReconnectAttempts /\ n[c] \in Nat
  BY TcpProxyAssumption DEF TypeInv, Attempts
<1> QED
  BY <1>1, TcpProxyAssumption DEF Started

LEMMA StartedBoundsNext == TypeInv' => StartedIn'
BY StartedBounds, PTL

(* Nothing is written and nothing executed.                                *)
LEMMA BudgetKept ==
  ASSUME TypeInv, TypeInv', BudgetInv, Pending' \subseteq Pending, executed' = executed,
         \A c \in Callers : \A i \in 1..MaxCalls : Started(c, i)' >= Started(c, i)
  PROVE  BudgetInv'
<1> SUFFICES ASSUME NEW c \in Callers, NEW i \in 1..MaxCalls
             PROVE  /\ \A a \in Waiting(Pending', c, i) : a < Started(c, i)'
                    /\ executed'[<<c, i>>] + Cardinality(Waiting(Pending', c, i)) <= Started(c, i)'
  BY DEF BudgetInv, Waiting
<1>1. Cardinality(Waiting(Pending', c, i)) <= Cardinality(Waiting(Pending, c, i))
  BY WaitingFinite
<1>2. Cardinality(Waiting(Pending', c, i)) \in Nat /\ Cardinality(Waiting(Pending, c, i)) \in Nat
  BY WaitingFinite
<1>3. Started(c, i) \in Nat /\ Started(c, i)' \in Nat /\ Started(c, i)' >= Started(c, i)
  BY StartedBounds, StartedBoundsNext, TcpProxyAssumption DEF StartedIn
<1>4. executed[<<c, i>>] \in Nat
  BY DEF TypeInv, Ids
<1>5. /\ \A a \in Waiting(Pending, c, i) : a < Started(c, i)
      /\ executed[<<c, i>>] + Cardinality(Waiting(Pending, c, i)) <= Started(c, i)
  BY DEF BudgetInv
<1>6. ASSUME NEW a \in Waiting(Pending', c, i) PROVE a < Started(c, i)'
  <2>1. a \in Waiting(Pending, c, i) /\ a \in Nat
    BY DEF Waiting, Attempts
  <2> QED
    BY <1>3, <1>5, <2>1
<1>7. executed'[<<c, i>>] + Cardinality(Waiting(Pending', c, i)) <= Started(c, i)'
  BY <1>1, <1>2, <1>3, <1>4, <1>5
<1> QED
  BY <1>6, <1>7

(* The request of the attempt under way is written.                        *)
LEMMA BudgetSpent ==
  ASSUME TypeInv, TypeInv', BudgetInv, NEW c \in Callers, n[c] \in 1..MaxCalls, pc[c] = "send",
         Pending' \subseteq Pending \union {<<c, n[c], attempts[c]>>},
         executed' = executed, UNCHANGED <<n, attempts>>,
         pc'[c] \notin {"connect", "send"}, \A d \in Callers \ {c} : pc'[d] = pc[d]
  PROVE  BudgetInv'
<1> SUFFICES ASSUME NEW d \in Callers, NEW i \in 1..MaxCalls
             PROVE  /\ \A a \in Waiting(Pending', d, i) : a < Started(d, i)'
                    /\ executed'[<<d, i>>] + Cardinality(Waiting(Pending', d, i)) <= Started(d, i)'
  BY DEF BudgetInv, Waiting
<1> DEFINE W == Waiting(Pending, d, i)
           V == Waiting(Pending', d, i)
<1>1. IsFiniteSet(W) /\ Cardinality(W) \in Nat /\ IsFiniteSet(V) /\ Cardinality(V) \in Nat
  BY WaitingFinite
<1>2. Started(d, i) \in Nat /\ Started(d, i)' \in Nat
  BY StartedBounds, StartedBoundsNext, TcpProxyAssumption DEF StartedIn
<1>3. executed[<<d, i>>] \in Nat
  BY DEF TypeInv, Ids
<1>4. /\ \A a \in W : a < Started(d, i) /\ a \in Nat
      /\ executed[<<d, i>>] + Cardinality(W) <= Started(d, i)
  BY DEF BudgetInv, Waiting, Attempts
<1>5. CASE d = c /\ i = n[c]
  <2>1. attempts[c] \in Nat
    BY DEF TypeInv, Attempts
  <2>2. Started(d, i) = attempts[c] /\ Started(d, i)' = attempts[c] + 1
    BY <1>5 DEF Started
  <2>3. V \subseteq W \union {attempts[c]}
    BY <1>5 DEF Waiting
  <2>4. attempts[c] \notin W
    BY <1>4, <2>1, <2>2
  <2>5. IsFiniteSet(W \union {attempts[c]}) /\ Cardinality(W \union {attempts[c]}) = Cardinality(W) + 1
    BY <1>1, <2>4, FS_AddElement
  <2>6. Cardinality(V) <= Cardinality(W) + 1
    BY <2>3, <2>5, FS_Subset
  <2>7. \A a \in V : a < Started(d, i)'
    BY <1>4, <2>1, <2>2, <2>3
  <2>8. executed'[<<d, i>>] + Cardinality(V) <= Started(d, i)'
    <3> HIDE DEF V, W
    <3> QED
      BY <1>1, <1>3, <1>4, <2>1, <2>2, <2>6
  <2> QED
    BY <2>7, <2>8
<1>6. CASE ~(d = c /\ i = n[c])
  <2>1. V \subseteq W
    BY <1>6 DEF Waiting
  <2>2. Started(d, i)' = Started(d, i)
    <3>1. n[d] \in Nat
      BY TcpProxyAssumption DEF TypeInv
    <3> QED
      BY <1>6, <3>1 DEF Started
  <2>3. Cardinality(V) <= Cardinality(W)
    BY <1>1, <2>1, FS_Subset
  <2>4. \A a \in V : a < Started(d, i)'
    BY <1>4, <2>1, <2>2
  <2>5. executed'[<<d, i>>] + Cardinality(V) <= Started(d, i)'
    <3> HIDE DEF V, W
    <3> QED
      BY <1>1, <1>2, <1>3, <1>4, <2>2, <2>3
  <2> QED
    BY <2>4, <2>5
<1> QED
  BY <1>5, <1>6

(* A request is taken and executed.                                        *)
LEMMA BudgetUsed ==
  ASSUME TypeInv, TypeInv', BudgetInv, NEW m \in Messages, m \in Pending,
         Pending' \subseteq Pending \ {m},
         executed' = [executed EXCEPT ![<<m[1], m[2]>>] = @ + 1],
         UNCHANGED <<pc, n, attempts>>
  PROVE  BudgetInv'
<1> SUFFICES ASSUME NEW d \in Callers, NEW i \in 1..MaxCalls
             PROVE  /\ \A a \in Waiting(Pending', d, i) : a < Started(d, i)'
                    /\ executed'[<<d, i>>] + Cardinality(Waiting(Pending', d, i)) <= Started(d, i)'
  BY DEF BudgetInv, Waiting
<1> DEFINE W == Waiting(Pending, d, i)
           V == Waiting(Pending', d, i)
<1>1. IsFiniteSet(W) /\ Cardinality(W) \in Nat /\ IsFiniteSet(V) /\ Cardinality(V) \in Nat
  BY WaitingFinite
<1>2. Started(d, i) \in Nat /\ Started(d, i)' = Started(d, i)
  BY StartedBounds, TcpProxyAssumption DEF StartedIn, Started
<1>3. executed[<<d, i>>] \in Nat /\ executed \in [Ids -> Nat] /\ <<d, i>> \in Ids
  BY DEF TypeInv, Ids
<1>4. /\ \A a \in W : a < Started(d, i)
      /\ executed[<<d, i>>] + Cardinality(W) <= Started(d, i)
  BY DEF BudgetInv
<1>5. V \subseteq W
  BY DEF Waiting
<1>6. CASE <<d, i>> = <<m[1], m[2]>>
  <2>1. m = <<d, i, m[3]>> /\ m[3] \in Attempts
    BY <1>6 DEF Messages
  <2>2. m[3] \in W /\ V \subseteq W \ {m[3]}
    BY <2>1 DEF Waiting
  <2>3. IsFiniteSet(W \ {m[3]}) /\ Cardinality(W \ {m[3]}) = Cardinality(W) - 1
    BY <1>1, <2>2, FS_RemoveElement
  <2>4. Cardinality(V) <= Cardinality(W) - 1
    BY <2>2, <2>3, FS_Subset
  <2>5. executed'[<<d, i>>] = executed[<<d, i>>] + 1
    BY <1>3, <1>6
  <2>6. executed'[<<d, i>>] + Cardinality(V) <= Started(d, i)'
    <3> HIDE DEF V, W
    <3> QED
      BY <1>1, <1>2, <1>3, <1>4, <2>4, <2>5
  <2> QED
    BY <1>2, <1>4, <1>5, <2>6
<1>7. CASE <<d, i>> # <<m[1], m[2]>>
  <2>1. Cardinality(V) <= Cardinality(W)
    BY <1>1, <1>5, FS_Subset
  <2>2. executed'[<<d, i>>] = executed[<<d, i>>]
    BY <1>3, <1>7
  <2>3. executed'[<<d, i>>] + Cardinality(V) <= Started(d, i)'
    <3> HIDE DEF V, W
    <3> QED
      BY <1>1, <1>2, <1>3, <1>4, <2>1, <2>2
  <2> QED
    BY <1>2, <1>4, <1>5, <2>3
<1> QED
  BY <1>6, <1>7

LEMMA TailTaken ==
  ASSUME NEW S, NEW s \in Seq(S), s # << >>, \A i, j \in 1..Len(s) : s[i] = s[j] => i = j
  PROVE  /\ \A i, j \in 1..Len(Tail(s)) : Tail(s)[i] = Tail(s)[j] => i = j
         /\ ToSet(Tail(s)) \subseteq ToSet(s) \ {Head(s)}
         /\ Head(s) \in ToSet(s)
<1>1. /\ Len(s) \in Nat \ {0} /\ Len(Tail(s)) = Len(s) - 1 /\ Head(s) = s[1]
      /\ \A i \in 1..(Len(s) - 1) : Tail(s)[i] = s[i + 1]
  OBVIOUS
<1>2. ToSet(s) = {s[i] : i \in 1..Len(s)} /\ ToSet(Tail(s)) = {Tail(s)[i] : i \in 1..Len(Tail(s))}
  <2>1. Tail(s) \in Seq(S)
    OBVIOUS
  <2>2. ASSUME NEW t \in Seq(S) PROVE ToSet(t) = {t[i] : i \in 1..Len(t)}
    BY DEF ToSet
  <2> QED
    BY <2>1, <2>2
<1>3. \A i \in 1..Len(Tail(s)) : i + 1 \in 1..Len(s) /\ i + 1 # 1 /\ Tail(s)[i] = s[i + 1]
  BY <1>1
<1>4. 1 \in 1..Len(s)
  BY <1>1
<1>5. ToSet(Tail(s)) \subseteq ToSet(s) \ {Head(s)} /\ Head(s) \in ToSet(s)
  BY <1>1, <1>2, <1>3, <1>4
<1>6. \A i, j \in 1..Len(Tail(s)) : Tail(s)[i] = Tail(s)[j] => i = j
  <2> SUFFICES ASSUME NEW i \in 1..Len(Tail(s)), NEW j \in 1..Len(Tail(s)), Tail(s)[i] = Tail(s)[j]
               PROVE  i = j
    OBVIOUS
  <2>1. i + 1 = j + 1
    BY <1>3
  <2>2. i \in Nat /\ j \in Nat
    BY <1>1
  <2> QED
    BY <2>1, <2>2
<1> QED
  BY <1>5, <1>6

(* The caller's own steps only ever raise what its calls may have started. *)
LEMMA StartedGrows ==
  ASSUME TypeInv, TypeInv', NEW c \in Callers,
         \A d \in Callers \ {c} : pc'[d] = pc[d] /\ n'[d] = n[d] /\ attempts'[d] = attempts[d],
         \/ n'[c] = n[c] + 1 /\ pc[c] = "idle" /\ pc'[c] = "connect" /\ attempts'[c] = 0
         \/ n'[c] = n[c] /\ attempts'[c] = attempts[c] /\ pc'[c] = "idle"
         \/ n'[c] = n[c] /\ attempts'[c] = attempts[c] /\ pc[c] = "connect" /\ pc'[c] = "send"
         \/ n'[c] = n[c] /\ attempts'[c] = attempts[c] + 1 /\ pc'[c] = "connect"
  PROVE  \A d \in Callers : \A i \in 1..MaxCalls : Started(d, i)' >= Started(d, i)
<1> SUFFICES ASSUME NEW d \in Callers, NEW i \in 1..MaxCalls
             PROVE  Started(d, i)' >= Started(d, i)
  OBVIOUS
<1>1. /\ n[d] \in Nat /\ n'[d] \in Nat
      /\ attempts[d] \in 0..MaxReconnectAttempts /\ attempts'[d] \in 0..MaxReconnectAttempts
  BY TcpProxyAssumption DEF TypeInv, Attempts
<1>2. CASE d = c
  BY <1>1, <1>2, TcpProxyAssumption DEF Started
<1>3. CASE d # c
  BY <1>1, <1>3, TcpProxyAssumption DEF Started
<1> QED
  BY <1>2, <1>3

LEMMA CountInit == Init => CountInv
<1> SUFFICES ASSUME Init PROVE CountInv
  OBVIOUS
<1>1. sent = << >> /\ stray = {} /\ Pending = {} /\ DistinctInv
  BY DEF Init, Pending, DistinctInv, ToSet
<1>2. TypeInv
  BY ProxyInit DEF ProxyInv
<1>3. ASSUME NEW c \in Callers, NEW i \in 1..MaxCalls
      PROVE  /\ Waiting(Pending, c, i) = {} /\ executed[<<c, i>>] = 0
             /\ Started(c, i) \in Nat
  BY <1>1, <1>2, StartedBounds, TcpProxyAssumption DEF Waiting, Init, Ids, StartedIn
<1>4. Cardinality({}) = 0
  BY FS_EmptySet
<1>5. BudgetInv
  <2> SUFFICES ASSUME NEW c \in Callers, NEW i \in 1..MaxCalls
               PROVE  executed[<<c, i>>] + Cardinality(Waiting(Pending, c, i)) <= Started(c, i)
    BY <1>3 DEF BudgetInv
  <2>1. Cardinality(Waiting(Pending, c, i)) = 0 /\ executed[<<c, i>>] = 0 /\ Started(c, i) \in Nat
    BY <1>3, <1>4
  <2>2. 0 <= Started(c, i)
    BY <2>1
  <2> QED
    BY <2>1, <2>2
<1> QED
  BY <1>1, <1>5, ProxyInit DEF CountInv

LEMMA CountStep == CountInv /\ [Next]_vars => CountInv'
<1> SUFFICES ASSUME CountInv, [Next]_vars PROVE CountInv'
  OBVIOUS
<1>p. ProxyInv /\ ProxyInv' /\ TypeInv /\ TypeInv' /\ QueueInv
  BY ProxyStep DEF CountInv, ProxyInv
<1>d. DistinctInv /\ BudgetInv
  BY DEF CountInv
<1>0. ToSet(<< >>) = {}
  BY DEF ToSet
(* The connection, its handlers and the executions are left as they are.   *)
<1>1. ASSUME NEW c \in Callers, UNCHANGED <<sent, stray, executed>>,
             \A d \in Callers : \A i \in 1..MaxCalls : Started(d, i)' >= Started(d, i)
      PROVE  CountInv'
  <2>1. DistinctInv'
    BY <1>1, <1>d DEF DistinctInv
  <2>2. BudgetInv'
    BY <1>p, <1>d, <1>1, BudgetKept DEF Pending
  <2> QED
    BY <1>p, <2>1, <2>2 DEF CountInv
(* The requests in the connection go to the handlers or are lost.          *)
<1>2. ASSUME sent' = << >>, stray' \subseteq Pending, executed' = executed,
             \A d \in Callers : \A i \in 1..MaxCalls : Started(d, i)' >= Started(d, i)
      PROVE  CountInv'
  <2>1. DistinctInv'
    BY <1>0, <1>2 DEF DistinctInv
  <2>2. Pending' \subseteq Pending
    BY <1>0, <1>2 DEF Pending
  <2>3. BudgetInv'
    BY <1>p, <1>d, <1>2, <2>2, BudgetKept
  <2> QED
    BY <1>p, <2>1, <2>3 DEF CountInv
<1>3. ASSUME NEW c \in Callers, NEW k \in {"sendrecv", "timed", "send_only"}, Call(c, k)
      PROVE  CountInv'
  <2>1. /\ UNCHANGED <<sent, stray, executed>> /\ pc[c] = "idle"
        /\ n'[c] = n[c] + 1 /\ pc'[c] = "connect" /\ attempts'[c] = 0
        /\ \A d \in Callers \ {c} : pc'[d] = pc[d] /\ n'[d] = n[d] /\ attempts'[d] = attempts[d]
    BY <1>p, <1>3 DEF Call, connection, QueueInv, TypeInv
  <2> QED
    BY <1>p, <1>1, <2>1, StartedGrows
<1>4. ASSUME NEW c \in Callers, NEW status, NEW of, Return(c, status, of)
      PROVE  \A d \in Callers : \A i \in 1..MaxCalls : Started(d, i)' >= Started(d, i)
  <2>1. /\ n' = n /\ attempts' = attempts /\ pc'[c] = "idle"
        /\ \A d \in Callers \ {c} : pc'[d] = pc[d]
    BY <1>p, <1>4 DEF Return, QueueInv
  <2> QED
    BY <1>p, <2>1, StartedGrows
<1>5. ASSUME NEW c \in Callers, Step(c) PROVE CountInv'
  <2>1. CASE Connect(c)
    <3>1. /\ UNCHANGED <<sent, stray, executed>> /\ pc[c] = "connect"
          /\ n' = n /\ attempts' = attempts /\ pc'[c] = "send"
          /\ \A d \in Callers \ {c} : pc'[d] = pc[d]
      BY <1>p, <2>1 DEF Connect, At, Goto, QueueInv
    <3> QED
      BY <1>p, <1>1, <3>1, StartedGrows
  <2>2. CASE ConnectFails(c) \/ Recv(c) \/ RecvEof(c) \/ Timeout(c)
    <3>1. /\ UNCHANGED <<sent, stray, executed>>
          /\ \E status, of : Return(c, status, of)
      BY <2>2 DEF ConnectFails, Recv, RecvEof, Timeout, connection
    <3> QED
      BY <1>1, <1>4, <3>1
  <2>3. CASE Broken(c)
    <3>1. sent' = << >> /\ stray' = Pending /\ executed' = executed
      BY <2>3 DEF Broken, DropConnection, Pending
    <3>2. CASE \E status, of : Return(c, status, of)
      BY <1>2, <1>4, <3>1, <3>2
    <3>3. CASE /\ attempts' = [attempts EXCEPT ![c] = @ + 1] /\ n' = n
               /\ pc' = [pc EXCEPT ![c] = "connect"]
      <4>1. /\ n'[c] = n[c] /\ attempts'[c] = attempts[c] + 1 /\ pc'[c] = "connect"
            /\ \A d \in Callers \ {c} : pc'[d] = pc[d] /\ n'[d] = n[d] /\ attempts'[d] = attempts[d]
        BY <1>p, <3>3 DEF QueueInv, TypeInv
      <4> QED
        BY <1>p, <1>2, <3>1, <4>1, StartedGrows
    <3> QED
      BY <2>3, <3>2, <3>3 DEF Broken
  <2>4. CASE Send(c)
    <3> DEFINE m == <<c, n[c], attempts[c]>>
    <3>1. /\ pc[c] = "send" /\ n[c] \in 1..MaxCalls /\ UNCHANGED <<stray, executed, n, attempts>>
          /\ sent' = (IF peer = "open" THEN sent \o <<m>> ELSE sent)
          /\ pc'[c] \in {"idle", "recv"} /\ \A d \in Callers \ {c} : pc'[d] = pc[d]
      BY <1>p, <2>4 DEF Send, At, SendMessage, Return, Goto, QueueInv, TypeInv
    <3>2. m \in Messages /\ attempts[c] \in Nat
      BY <1>p, <3>1 DEF TypeInv, Messages, Attempts
    <3>3. Started(c, n[c]) = attempts[c]
      <4>1. n[c] \in Nat
        BY <3>1
      <4> QED
        BY <3>1, <4>1 DEF Started
    <3>4. m \notin Pending
      <4>1. \A a \in Waiting(Pending, c, n[c]) : a < attempts[c]
        BY <1>d, <3>1, <3>3 DEF BudgetInv
      <4>2. m \in Pending => attempts[c] \in Waiting(Pending, c, n[c])
        BY <1>p DEF Waiting, TypeInv
      <4> QED
        BY <3>2, <4>1, <4>2
    <3>5. sent \in Seq(Messages)
      BY <1>p DEF TypeInv
    <3> HIDE DEF m
    <3>6. ToSet(sent \o <<m>>) = ToSet(sent) \union {m}
      <4>1. /\ Len(sent \o <<m>>) = Len(sent) + 1 /\ (sent \o <<m>>)[Len(sent) + 1] = m
            /\ \A i \in 1..Len(sent) : (sent \o <<m>>)[i] = sent[i]
        BY <3>2, <3>5
      <4>2. 1..(Len(sent) + 1) = 1..Len(sent) \union {Len(sent) + 1}
        BY <3>5
      <4> QED
        BY <4>1, <4>2 DEF ToSet
    <3>7. DistinctInv'
      <4>1. CASE peer = "open"
        <5>1. /\ Len(sent') = Len(sent) + 1 /\ sent'[Len(sent) + 1] = m /\ Len(sent) \in Nat
              /\ \A i \in 1..Len(sent) : sent'[i] = sent[i]
          BY <3>1, <3>2, <3>5, <4>1
        <5>2. \A i \in 1..Len(sent) : sent[i] # m
          BY <3>4 DEF Pending, ToSet
        <5>3. \A i, j \in 1..Len(sent') : sent'[i] = sent'[j] => i = j
          BY <1>d, <5>1, <5>2 DEF DistinctInv
        <5>4. ToSet(sent') \intersect stray' = {}
          BY <1>d, <3>1, <3>4, <3>6, <4>1 DEF DistinctInv, Pending
        <5> QED
          BY <5>3, <5>4 DEF DistinctInv
      <4>2. CASE peer # "open"
        BY <1>d, <3>1, <4>2 DEF DistinctInv
      <4> QED
        BY <4>1, <4>2
    <3>8. Pending' \subseteq Pending \union {m}
      BY <3>1, <3>6 DEF Pending
    <3>9. BudgetInv'
      BY <1>p, <1>d, <3>1, <3>8, BudgetSpent DEF m
    <3> QED
      BY <1>p, <3>7, <3>9 DEF CountInv
  <2> QED
    BY <1>5, <2>1, <2>2, <2>3, <2>4 DEF Step
<1>6. ASSUME UNCHANGED caller
      PROVE  \A d \in Callers : \A i \in 1..MaxCalls : Started(d, i)' >= Started(d, i)
  <2>1. UNCHANGED <<pc, n, attempts>>
    BY <1>6 DEF caller
  <2>2. ASSUME NEW d \in Callers, NEW i \in 1..MaxCalls PROVE Started(d, i)' >= Started(d, i)
    <3>1. Started(d, i)' = Started(d, i)
      BY <2>1 DEF Started
    <3>2. Started(d, i) \in Nat
      BY <1>p, StartedBounds, TcpProxyAssumption DEF StartedIn
    <3> QED
      BY <3>1, <3>2
  <2> QED
    BY <2>2
<1>7. CASE Serve
  <2> DEFINE m == Head(sent)
  <2>1. /\ sent # << >> /\ sent' = Tail(sent) /\ UNCHANGED <<stray, pc, n, attempts>>
        /\ executed' = [executed EXCEPT ![<<m[1], m[2]>>] = @ + 1]
    BY <1>7 DEF Serve, caller
  <2>2. sent \in Seq(Messages)
    BY <1>p DEF TypeInv
  <2>3. /\ \A i, j \in 1..Len(sent') : sent'[i] = sent'[j] => i = j
        /\ ToSet(sent') \subseteq ToSet(sent) \ {m} /\ m \in ToSet(sent)
    BY <1>d, <2>1, <2>2, TailTaken DEF DistinctInv
  <2>4. m \in Messages
    BY <2>1, <2>2
  <2>5. DistinctInv'
    BY <1>d, <2>1, <2>3 DEF DistinctInv
  <2>6. m \in Pending /\ Pending' \subseteq Pending \ {m}
    BY <1>d, <2>1, <2>3 DEF Pending, DistinctInv
  <2>7. BudgetInv'
    BY <1>p, <1>d, <2>1, <2>4, <2>6, BudgetUsed
  <2> QED
    BY <1>p, <2>5, <2>7 DEF CountInv
<1>8. ASSUME NEW r \in stray, ServeStray(r) PROVE CountInv'
  <2>1. /\ stray' = stray \ {r} /\ UNCHANGED <<sent, pc, n, attempts>>
        /\ executed' = [executed EXCEPT ![<<r[1], r[2]>>] = @ + 1]
    BY <1>8 DEF ServeStray, caller, connection
  <2>2. r \in Messages
    BY <1>p DEF TypeInv
  <2>3. DistinctInv'
    BY <1>d, <2>1 DEF DistinctInv
  <2>4. r \in Pending /\ Pending' \subseteq Pending \ {r}
    BY <1>d, <2>1 DEF Pending, DistinctInv
  <2>5. BudgetInv'
    BY <1>p, <1>d, <2>1, <2>2, <2>4, BudgetUsed
  <2> QED
    BY <1>p, <2>3, <2>5 DEF CountInv
<1>9. ASSUME NEW r \in stray, LoseStray(r) PROVE CountInv'
  <2>1. stray' \subseteq stray /\ UNCHANGED caller /\ UNCHANGED <<sent, executed>>
    BY <1>9 DEF LoseStray, connection
  <2>2. DistinctInv'
    BY <1>d, <2>1 DEF DistinctInv
  <2>3. Pending' \subseteq Pending
    BY <2>1 DEF Pending
  <2>4. BudgetInv'
    BY <1>p, <1>d, <1>6, <2>1, <2>3, BudgetKept
  <2> QED
    BY <1>p, <2>2, <2>4 DEF CountInv
<1>10. CASE CloseConnection \/ ServerStops \/ ConnectionLost
  <2>1. sent' = << >> /\ stray' \subseteq Pending /\ executed' = executed /\ UNCHANGED caller
    BY <1>10 DEF CloseConnection, DropConnection, ServerStops, ConnectionLost, Pending
  <2> QED
    BY <1>2, <1>6, <2>1
<1>11. CASE StopAccepting \/ ServerStarts \/ UNCHANGED vars
  <2>1. UNCHANGED <<sent, stray, executed>> /\ UNCHANGED caller
    BY <1>11 DEF StopAccepting, ServerStarts, vars, connection
  <2>2. DistinctInv'
    BY <1>d, <2>1 DEF DistinctInv
  <2>3. BudgetInv'
    BY <1>p, <1>d, <1>6, <2>1, BudgetKept DEF Pending
  <2> QED
    BY <1>p, <2>2, <2>3 DEF CountInv
<1> QED
  BY <1>3, <1>5, <1>7, <1>8, <1>9, <1>10, <1>11, TcpProxyAssumption DEF Next, HealthCheck

LEMMA CountHolds == Spec => []CountInv
BY CountInit, CountStep, PTL DEF Spec

-----------------------------------------------------------------------------
(* The results.                                                            *)

(* The pool's Mutex is held from connecting to the reply by one call at a  *)
(* time, and a call that is dropped leaves no place behind.                *)
THEOREM MutexDisciplineHolds == Spec => []MutexDiscipline
<1>1. ProxyInv => MutexDiscipline
  BY DEF ProxyInv, QueueInv, HolderInv, MutexDiscipline
<1> QED
  BY <1>1, ProxyHolds, PTL

(* A call on a connection that no one-way and no dropped call has used     *)
(* returns the reply to its own request, through any failures and retries. *)
THEOREM OwnReplyHolds == Spec => []OwnReply
<1>1. ProxyInv => OwnReply
  BY DEF ProxyInv, ResultInv, OwnReply
<1> QED
  BY <1>1, ProxyHolds, PTL

(* Between calls such a connection carries nothing that the next call      *)
(* could take for its answer.                                              *)
THEOREM NoReplyLeftOverHolds == Spec => []NoReplyLeftOver
<1>1. ASSUME ProxyInv, queue = << >>, clean PROVE replies = << >> /\ sent = << >>
  <2>1. \A c \in Callers : pc[c] = "idle"
    BY <1>1 DEF ProxyInv, QueueInv
  <2> QED
    BY <1>1, <2>1 DEF ProxyInv, CleanInv
<1>2. ProxyInv => NoReplyLeftOver
  BY <1>1 DEF NoReplyLeftOver
<1> QED
  BY <1>2, ProxyHolds, PTL

(* A call that returned a reply over such a connection has been executed   *)
(* by the server at least once.                                            *)
THEOREM OkWasExecutedHolds == Spec => []OkWasExecuted
<1>1. ProxyInv => OkWasExecuted
  BY DEF ProxyInv, ResultInv, OkWasExecuted
<1> QED
  BY <1>1, ProxyHolds, PTL

(* However often connections are replaced, a call is executed at most once *)
(* for each of its attempts.                                               *)
THEOREM ExecutedPerAttemptHolds == Spec => []ExecutedPerAttempt
<1>1. ASSUME CountInv, NEW c \in Callers, NEW i \in 1..MaxCalls
      PROVE  executed[<<c, i>>] <= MaxReconnectAttempts + 1
  <2>1. /\ executed[<<c, i>>] \in Nat /\ Cardinality(Waiting(Pending, c, i)) \in Nat
        /\ Started(c, i) \in 0..(MaxReconnectAttempts + 1)
    BY <1>1, StartedBounds, WaitingFinite DEF CountInv, ProxyInv, TypeInv, Ids, StartedIn
  <2>2. executed[<<c, i>>] + Cardinality(Waiting(Pending, c, i)) <= Started(c, i)
    BY <1>1 DEF CountInv, BudgetInv
  <2> QED
    BY <2>1, <2>2, TcpProxyAssumption
<1>2. CountInv => ExecutedPerAttempt
  BY <1>1 DEF ExecutedPerAttempt
<1> QED
  BY <1>2, CountHolds, PTL

-----------------------------------------------------------------------------
(* The rest of the types: kinds of calls, the server and the failures.     *)
RestInv ==
  /\ kind \in [Callers -> Kinds \union {"sendrecv"}]
  /\ up \in BOOLEAN /\ failures \in 0..MaxFailures

LEMMA RestInit == Init => RestInv
BY TcpProxyAssumption DEF Init, RestInv

LEMMA RestStep ==
  ASSUME RestInv, [Next]_vars
  PROVE  RestInv'
<1> USE DEF RestInv
<1>1. CASE UNCHANGED <<kind, up, failures>>
  BY <1>1
<1>2. ASSUME NEW c \in Callers, NEW k \in Kinds, Call(c, k) PROVE RestInv'
  BY <1>2 DEF Call
<1>3. ASSUME NEW c \in Callers, Step(c) PROVE RestInv'
  <2>1. CASE Connect(c) \/ ConnectFails(c)
    BY <1>1, <2>1 DEF Connect, ConnectFails, Goto, Return
  <2>2. CASE Send(c) \/ Recv(c)
    BY <1>1, <2>2 DEF Send, Recv, Goto, Return
  <2>3. CASE Broken(c)
    BY <1>1, <2>3 DEF Broken, Return
  <2>4. CASE RecvEof(c) \/ Timeout(c)
    BY <1>1, <2>4 DEF RecvEof, Timeout, Return
  <2> QED
    BY <1>3, <2>1, <2>2, <2>3, <2>4 DEF Step
<1>4. CASE CloseConnection \/ Serve \/ \E r \in stray : ServeStray(r) \/ LoseStray(r)
  BY <1>1, <1>4 DEF CloseConnection, Serve, ServeStray, LoseStray, caller
<1>5. CASE ServerStops \/ StopAccepting \/ ConnectionLost
  <2>1. kind' = kind /\ up' \in {up, FALSE} /\ failures < MaxFailures /\ failures' = failures + 1
    BY <1>5 DEF ServerStops, StopAccepting, ConnectionLost, Failure, caller
  <2>2. failures' \in 0..MaxFailures
    BY <2>1, TcpProxyAssumption
  <2>3. kind' \in [Callers -> Kinds \union {"sendrecv"}] /\ up' \in BOOLEAN
    BY <2>1
  <2> QED
    BY <2>2, <2>3
<1>6. CASE ServerStarts
  BY <1>6 DEF ServerStarts, caller
<1>7. CASE UNCHANGED vars
  BY <1>1, <1>7 DEF vars, caller
<1> QED
  BY <1>2, <1>3, <1>4, <1>5, <1>6, <1>7 DEF Next, HealthCheck

(* Streams, results, attempts and the pool stay within their types for any *)
(* callers, retries and failures: no call goes beyond its last attempt.    *)
THEOREM TypeCorrect == Spec => []TypeOK
<1>1. ProxyInv /\ RestInv => TypeOK
  BY DEF ProxyInv, QueueInv, TypeInv, RestInv, TypeOK, Labels, Messages
<1> QED
  BY <1>1, ProxyHolds, RestInit, RestStep, PTL DEF Spec
=============================================================================
