---------------------------- MODULE ClientProofs ----------------------------
(***************************************************************************)
(* What the results of Client.tla tell, and what its appends leave, for    *)
(* any clients, callers, nodes, requests and broken connections.           *)
(***************************************************************************)
EXTENDS Client, FiniteSetTheorems, TLAPS

Strings == Seq(Atoms) \union {Absent}

LEMMA ValuesAreStrings == Values \subseteq Seq(Atoms) /\ Absent \notin Seq(Atoms)
<1>1. Absent \notin Seq(Atoms)
  BY TableAssumption
<1>2. ASSUME NEW v \in Values PROVE v \in Seq(Atoms)
  <2>1. PICK n \in 1..MaxLen : v \in [1..n -> Atoms]
    BY DEF Values
  <2>2. n \in Nat
    BY TableAssumption
  <2> QED
    BY <2>1, <2>2
<1> QED
  BY <1>1, <1>2

(* append leaves the value at the end of what was there.                   *)
LEMMA SuffixOfAppended ==
  ASSUME NEW u \in Seq(Atoms), NEW v \in Seq(Atoms)
  PROVE  IsSuffix(v, u \o v)
<1> DEFINE t == u \o v
<1>1. t \in Seq(Atoms) /\ Len(t) = Len(u) + Len(v) /\ Len(u) \in Nat /\ Len(v) \in Nat
  OBVIOUS
<1>2. Reverse(v) = [i \in 1..Len(v) |-> v[Len(v) - i + 1]]
  BY DEF Reverse
<1>3. Reverse(t) = [i \in 1..Len(t) |-> t[Len(t) - i + 1]]
  BY DEF Reverse
<1>4. \A i \in 1..Len(v) : t[Len(t) - i + 1] = v[Len(v) - i + 1]
  BY <1>1
<1>5. Reverse(v) \in Seq(Atoms) /\ Len(Reverse(v)) = Len(v)
  BY <1>1, <1>2
<1>6. Reverse(t) \in Seq(Atoms) /\ Len(Reverse(t)) = Len(t)
  BY <1>1, <1>3
<1>7. \A i \in 1..Len(v) : Reverse(v)[i] = Reverse(t)[i]
  BY <1>1, <1>2, <1>3, <1>4
<1>8. SubSeq(Reverse(v), 1, Len(v)) = SubSeq(Reverse(t), 1, Len(v))
  BY <1>1, <1>5, <1>6, <1>7
<1> QED
  BY <1>1, <1>5, <1>6, <1>8 DEF IsSuffix, IsPrefix

LEMMA SuffixOfItself ==
  ASSUME NEW v \in Seq(Atoms)
  PROVE  IsSuffix(v, v)
<1>1. << >> \in Seq(Atoms) /\ << >> \o v = v
  OBVIOUS
<1> QED
  BY <1>1, SuffixOfAppended

-----------------------------------------------------------------------------
(* One request at one table.                                               *)

LEMMA EffectIsString ==
  ASSUME NEW tbl \in [Keys -> Strings], NEW r \in Requests, r.key \in Keys
  PROVE  Effect(tbl, r) \in Strings
<1>1. r.val \in Seq(Atoms) /\ r.newval \in Seq(Atoms) /\ tbl[r.key] \in Strings
  BY ValuesAreStrings DEF Requests
<1>2. Appended(tbl, r.key, r.val) \in Strings
  <2>1. CASE tbl[r.key] = Absent
    BY <1>1, <2>1 DEF Appended, Strings
  <2>2. CASE tbl[r.key] # Absent
    <3>1. tbl[r.key] \in Seq(Atoms)
      BY <1>1, <2>2 DEF Strings
    <3>2. tbl[r.key] \o r.val \in Seq(Atoms)
      BY <1>1, <3>1
    <3> QED
      BY <2>2, <3>2 DEF Appended, Strings
  <2> QED
    BY <2>1, <2>2
<1>3. Swapped(tbl, r.key, r.val, r.newval) \in Strings
  BY <1>1 DEF Swapped, Strings
<1> QED
  BY <1>1, <1>2, <1>3 DEF Effect, Strings

(* More values only add to what a result may tell.                         *)
LEMMA TellsMore ==
  ASSUME NEW r, NEW res, NEW values, NEW more, values \subseteq more, Tells(r, res, values)
  PROVE  Tells(r, res, more)
BY DEF Tells

(* What the client makes of an answer is told by the value before and the  *)
(* value after.                                                            *)
LEMMA AnswerTells ==
  ASSUME NEW tbl \in [Keys -> Strings], NEW r \in Requests, r.key \in Keys,
         r.op # "STCHGCB", NEW answer, answer = Response(tbl, r),
         NEW values, tbl[r.key] \in values, Effect(tbl, r) \in values
  PROVE  Tells(r, [code |-> Interpreted(r.op, answer.code), val |-> answer.val], values)
<1> DEFINE old == tbl[r.key]
           new == Effect(tbl, r)
           res == [code |-> Interpreted(r.op, answer.code), val |-> answer.val]
<1>1. r.val \in Seq(Atoms) /\ r.newval \in Seq(Atoms) /\ old \in Strings
      /\ Absent \notin Seq(Atoms)
  BY ValuesAreStrings DEF Requests
<1>2. r.op \in Opcodes
  BY DEF Requests
<1>3. CASE r.op = "LOOKUP"
  <2>1. answer.code = (IF old = Absent THEN "-92" ELSE "000") /\ answer.val = old
    BY <1>3 DEF Response, Has
  <2>2. res.val = old /\ res.code = IF old = Absent THEN "KeyNotFound" ELSE "Ok"
    BY <1>3, <2>1 DEF Interpreted
  <2> QED
    BY <1>3, <2>2 DEF Tells
<1>4. CASE r.op = "REMOVE"
  <2>1. answer.code = (IF old = Absent THEN "-92" ELSE "000") /\ new = Absent
    BY <1>4 DEF Response, Has, Effect
  <2> QED
    BY <1>4, <2>1 DEF Tells
<1>5. CASE r.op = "INSERT"
  <2>1. new = r.val
    BY <1>5 DEF Effect
  <2> QED
    BY <1>5, <2>1 DEF Tells
<1>6. CASE r.op = "APPEND"
  <2>1. new = IF old = Absent THEN r.val ELSE old \o r.val
    BY <1>6 DEF Effect, Appended
  <2>2. new \in Seq(Atoms) /\ IsSuffix(r.val, new)
    <3>1. CASE old = Absent
      BY <1>1, <2>1, <3>1, SuffixOfItself
    <3>2. CASE old # Absent
      <4>1. old \in Seq(Atoms)
        BY <1>1, <3>2 DEF Strings
      <4> QED
        BY <1>1, <2>1, <3>2, <4>1, SuffixOfAppended
    <3> QED
      BY <3>1, <3>2
  <2>3. new \in values \ {Absent}
    BY <1>1, <2>2
  <2> QED
    BY <1>6, <2>2, <2>3 DEF Tells
<1>7. CASE r.op = "CMPSWP"
  <2>1. new = IF old \in {r.val, Absent} THEN r.newval ELSE old
    BY <1>7 DEF Effect, Swapped
  <2>2. CASE new = r.newval
    <3>1. answer.code = "000" /\ answer.val = Absent
      BY <1>7, <2>2 DEF Response
    <3>2. res.code = "Ok" /\ res.val = Absent
      BY <1>7, <3>1 DEF Interpreted
    <3> QED
      BY <1>7, <2>2, <3>2 DEF Tells
  <2>3. CASE new # r.newval
    <3>1. answer.code = "-02" /\ answer.val = old
      BY <1>7, <2>3 DEF Response
    <3>2. res.code = "CasMismatch" /\ res.val = old
      <4>1. Interpreted("CMPSWP", "-02") = "CasMismatch"
        BY DEF Interpreted
      <4> QED
        BY <1>7, <3>1, <4>1
    <3>3. old \in values \ {Absent, r.val, r.newval}
      BY <2>1, <2>3
    <3> QED
      BY <1>7, <3>2, <3>3 DEF Tells
  <2> QED
    BY <2>2, <2>3
<1> QED
  BY <1>2, <1>3, <1>4, <1>5, <1>6, <1>7 DEF Opcodes

LEMMA WaitTells ==
  ASSUME NEW r \in Requests, r.op = "STCHGCB", NEW current, NEW answer, NEW values,
         answer = [code |-> IF current = r.val THEN "000" ELSE "-04", val |-> Absent],
         current \in values
  PROVE  Tells(r, [code |-> Interpreted(r.op, answer.code), val |-> answer.val], values)
<1>1. CASE current = r.val
  BY <1>1 DEF Interpreted, Tells
<1>2. CASE current # r.val
  BY <1>2 DEF Interpreted, Tells
<1> QED
  BY <1>1, <1>2

-----------------------------------------------------------------------------
(* The state.                                                              *)

Ready == {"idle", "queued", "sent", "served"}

StateInv ==
  /\ table \in [Nodes -> [Keys -> Strings]]
  /\ pc \in [Callers -> Ready]
  /\ req \in [Callers -> Requests \union {NoRequest}]
  /\ seen \in [Callers -> SUBSET Strings]
  /\ DOMAIN reply = Callers /\ DOMAIN result = Callers
  /\ \A s \in strays : s.node \in Nodes /\ s.req \in Requests /\ s.req.key \in Keys

(* A call in progress is about a key, and has seen the value it has now.   *)
Underway(t) ==
  pc[t] # "idle" =>
    /\ req[t] \in Requests /\ req[t].key \in Keys
    /\ Home(t) \in Nodes
    /\ Current(t) \in seen[t]

(* An answer under way is told by what the call has seen.                  *)
Answered(t) ==
  pc[t] = "served" =>
    Tells(req[t], [code |-> Interpreted(req[t].op, reply[t].code), val |-> reply[t].val], seen[t])

WitnessInv ==
  /\ StateInv
  /\ \A t \in Callers : Underway(t) /\ Answered(t)

LEMMA HomeIsNode ==
  ASSUME NEW c \in Clients, NEW k \in Keys, Neighbours[c] # << >>
  PROVE  NodeOf(c, k) \in Nodes
<1>1. Neighbours[c] \in Seq(Nodes) /\ HashOf[k] \in Nat
  BY ClientAssumption
<1>2. Len(Neighbours[c]) \in Nat \ {0}
  BY <1>1
<1>3. HashOf[k] % Len(Neighbours[c]) \in 0..(Len(Neighbours[c]) - 1)
  BY <1>1, <1>2
<1>4. (HashOf[k] % Len(Neighbours[c])) + 1 \in 1..Len(Neighbours[c])
  BY <1>2, <1>3
<1> QED
  BY <1>1, <1>4 DEF NodeOf, ResolveNode

LEMMA WitnessInit == Init => WitnessInv
<1> SUFFICES ASSUME Init PROVE WitnessInv
  OBVIOUS
<1>1. StateInv
  BY DEF Init, StateInv, Ready, Strings, Empty
<1>2. \A t \in Callers : pc[t] = "idle"
  BY DEF Init
<1> QED
  BY <1>1, <1>2 DEF WitnessInv, Underway, Answered

(* A caller whose call a step leaves alone, while nodes may be written to. *)
Bystander(t) ==
  /\ pc'[t] = pc[t] /\ req'[t] = req[t] /\ reply'[t] = reply[t]

LEMMA BystanderKeeps ==
  ASSUME NEW t \in Callers, Underway(t), Answered(t), Bystander(t),
         seen[t] \subseteq seen'[t],
         pc[t] # "idle" => table'[Home(t)][req[t].key] \in seen'[t]
  PROVE  Underway(t)' /\ Answered(t)'
<1>1. Home(t)' = Home(t)
  BY DEF Home, Bystander
<1>2. Underway(t)'
  BY <1>1 DEF Underway, Bystander, Current
<1>3. Answered(t)'
  BY TellsMore DEF Answered, Bystander
<1> QED
  BY <1>2, <1>3

(* A node stores a value: every call about the key sees it.                *)
LEMMA StoreSeen ==
  ASSUME StateInv, NEW n \in Nodes, NEW k \in Keys, NEW v \in Strings, Store(n, k, v)
  PROVE  /\ table' \in [Nodes -> [Keys -> Strings]]
         /\ seen' \in [Callers -> SUBSET Strings]
         /\ \A t \in Callers : Underway(t) =>
              /\ seen[t] \subseteq seen'[t]
              /\ pc[t] # "idle" => table'[Home(t)][req[t].key] \in seen'[t]
              /\ pc[t] # "idle" /\ Home(t) = n /\ req[t].key = k => v \in seen'[t]
<1>1. table' = [table EXCEPT ![n][k] = v]
  BY DEF Store
<1>2. \A t \in Callers :
        seen'[t] = IF pc[t] # "idle" /\ Home(t) = n /\ req[t].key = k
                   THEN seen[t] \union {v} ELSE seen[t]
  BY DEF Store
<1>3. table' \in [Nodes -> [Keys -> Strings]]
  BY <1>1 DEF StateInv
<1>4. seen' \in [Callers -> SUBSET Strings]
  BY DEF Store, StateInv
<1>5. ASSUME NEW t \in Callers, Underway(t), pc[t] # "idle"
      PROVE  table'[Home(t)][req[t].key] \in seen'[t]
  <2>1. Home(t) \in Nodes /\ req[t].key \in Keys /\ table[Home(t)][req[t].key] \in seen[t]
    BY <1>5 DEF Underway, Current
  <2>2. CASE Home(t) = n /\ req[t].key = k
    BY <1>1, <1>2, <1>5, <2>1, <2>2 DEF StateInv
  <2>3. CASE ~(Home(t) = n /\ req[t].key = k)
    <3>1. table'[Home(t)][req[t].key] = table[Home(t)][req[t].key]
      BY <1>1, <2>1, <2>3 DEF StateInv
    <3> QED
      BY <1>2, <2>1, <3>1
  <2> QED
    BY <2>2, <2>3
<1> QED
  BY <1>2, <1>3, <1>4, <1>5

(* Steps of one caller that leave the nodes alone.                         *)
LEMMA OthersKeep ==
  ASSUME WitnessInv, NEW t, table' = table,
         \A u \in Callers \ {t} : Bystander(u) /\ seen'[u] = seen[u]
  PROVE  \A u \in Callers \ {t} : Underway(u)' /\ Answered(u)'
<1> SUFFICES ASSUME NEW u \in Callers \ {t} PROVE Underway(u)' /\ Answered(u)'
  OBVIOUS
<1>1. Underway(u) /\ Answered(u)
  BY DEF WitnessInv
<1>2. pc[u] # "idle" => table'[Home(u)][req[u].key] \in seen'[u]
  BY <1>1 DEF Underway, Current
<1> QED
  BY <1>1, <1>2, BystanderKeeps

LEMMA LeaveKeepsStrays ==
  ASSUME WitnessInv, NEW t \in Callers, Leave(t)
  PROVE  \A s \in strays' : s.node \in Nodes /\ s.req \in Requests /\ s.req.key \in Keys
<1>1. CASE UNCHANGED strays
  BY <1>1 DEF WitnessInv, StateInv
<1>2. CASE /\ pc[t] = "sent"
           /\ strays' = strays \union {[id |-> used.breaks, node |-> Home(t), req |-> req[t]]}
  <2>1. Home(t) \in Nodes /\ req[t] \in Requests /\ req[t].key \in Keys
    BY <1>2 DEF WitnessInv, Underway
  <2> QED
    BY <1>2, <2>1 DEF WitnessInv, StateInv
<1> QED
  BY <1>1, <1>2 DEF Leave

(* A call that returns leaves nothing to keep.                             *)
LEMMA ReturnKeeps ==
  ASSUME WitnessInv, NEW t \in Callers, NEW code, NEW val, Return(t, code, val),
         table' = table, \A u \in Callers \ {t} : reply'[u] = reply[u], DOMAIN reply' = Callers,
         \A s \in strays' : s.node \in Nodes /\ s.req \in Requests /\ s.req.key \in Keys
  PROVE  WitnessInv'
<1> USE DEF Return
<1>1. StateInv'
  BY DEF WitnessInv, StateInv, Ready
<1>2. \A u \in Callers \ {t} : Bystander(u) /\ seen'[u] = seen[u]
  BY DEF WitnessInv, StateInv, Bystander
<1>3. \A u \in Callers \ {t} : Underway(u)' /\ Answered(u)'
  BY <1>2, OthersKeep
<1>4. Underway(t)' /\ Answered(t)'
  BY DEF WitnessInv, StateInv, Underway, Answered
<1> QED
  BY <1>1, <1>3, <1>4 DEF WitnessInv

LEMMA WitnessStep ==
  ASSUME WitnessInv, [Next]_vars
  PROVE  WitnessInv'
<1>0. StateInv /\ \A t \in Callers : Underway(t) /\ Answered(t)
  BY DEF WitnessInv
<1> DEFINE Idle == UNCHANGED <<table, call, strays, seen>>
<1>1. ASSUME Idle PROVE WitnessInv'
  <2>1. StateInv'
    BY <1>0, <1>1 DEF StateInv, call
  <2>2. \A u \in Callers : Bystander(u) /\ seen'[u] = seen[u]
    BY <1>1 DEF call, Bystander
  <2>3. \A u \in Callers : pc[u] # "idle" => table'[Home(u)][req[u].key] \in seen'[u]
    BY <1>0, <1>1 DEF Underway, Current
  <2>4. \A u \in Callers : Underway(u)' /\ Answered(u)'
    BY <1>0, <2>2, <2>3, BystanderKeeps
  <2> QED
    BY <2>1, <2>4 DEF WitnessInv
<1>2. ASSUME NEW c \in Clients, Initialize(c) \/ Teardown(c) PROVE WitnessInv'
  <2>1. Idle
    BY <1>2 DEF Initialize, Teardown
  <2> QED
    BY <1>1, <2>1
<1>3. ASSUME NEW t \in Callers, NEW r \in RequestsOf[t], Refuse(t, r) PROVE WitnessInv'
  BY <1>0, <1>3, ReturnKeeps DEF Refuse, StateInv
<1>4. ASSUME NEW t \in Callers, NEW r \in RequestsOf[t], Call(t, r) PROVE WitnessInv'
  <2>1. r \in Requests /\ r.key # EmptyKey /\ Neighbours[ClientOf[t]] # << >>
    BY <1>4, ClientAssumption DEF Call, Refusal
  <2>2. r.key \in Keys /\ NodeOf(ClientOf[t], r.key) \in Nodes
    BY <2>1, HomeIsNode, ClientAssumption DEF Requests
  <2>3. /\ req' = [req EXCEPT ![t] = r] /\ pc' = [pc EXCEPT ![t] = "queued"]
        /\ result' = [result EXCEPT ![t] = NoReply]
        /\ seen' = [seen EXCEPT ![t] = {table[NodeOf(ClientOf[t], r.key)][r.key]}]
        /\ UNCHANGED <<table, reply, strays>>
    BY <1>4 DEF Call
  <2>4. StateInv'
    BY <1>0, <2>1, <2>2, <2>3 DEF StateInv, Ready
  <2>5. Underway(t)' /\ Answered(t)'
    BY <1>0, <2>1, <2>2, <2>3 DEF StateInv, Underway, Answered, Home, Current
  <2>6. \A u \in Callers \ {t} : Bystander(u) /\ seen'[u] = seen[u]
    BY <1>0, <2>3 DEF StateInv, Bystander
  <2>7. \A u \in Callers \ {t} : Underway(u)' /\ Answered(u)'
    BY <2>3, <2>6, OthersKeep
  <2> QED
    BY <2>4, <2>5, <2>7 DEF WitnessInv
<1>5. ASSUME NEW t \in Callers, Send(t) PROVE WitnessInv'
  <2>1. pc' = [pc EXCEPT ![t] = "sent"] /\ pc[t] = "queued"
        /\ UNCHANGED <<table, req, reply, result, strays, seen>>
    BY <1>5 DEF Send
  <2>2. StateInv'
    BY <1>0, <2>1 DEF StateInv, Ready
  <2>3. Underway(t)' /\ Answered(t)'
    BY <1>0, <2>1 DEF StateInv, Underway, Answered, Home, Current
  <2>4. \A u \in Callers \ {t} : Bystander(u) /\ seen'[u] = seen[u]
    BY <1>0, <2>1 DEF StateInv, Bystander
  <2>5. \A u \in Callers \ {t} : Underway(u)' /\ Answered(u)'
    BY <2>1, <2>4, OthersKeep
  <2> QED
    BY <2>2, <2>3, <2>5 DEF WitnessInv
<1>6. ASSUME NEW t \in Callers, Serve(t) PROVE WitnessInv'
  <2> DEFINE n == Home(t)
             new == Effect(table[n], req[t])
  <2>1. /\ pc[t] = "sent" /\ req[t].op # "STCHGCB"
        /\ Store(n, req[t].key, new)
        /\ reply' = [reply EXCEPT ![t] = Response(table[n], req[t])]
        /\ pc' = [pc EXCEPT ![t] = "served"]
        /\ UNCHANGED <<req, result, strays>>
    BY <1>6 DEF Serve
  <2>2. /\ req[t] \in Requests /\ req[t].key \in Keys /\ n \in Nodes
        /\ table[n] \in [Keys -> Strings] /\ table[n][req[t].key] \in seen[t]
    BY <1>0, <2>1 DEF Underway, Current, StateInv
  <2>3. new \in Strings
    BY <2>2, EffectIsString
  <2>4. /\ table' \in [Nodes -> [Keys -> Strings]]
        /\ seen' \in [Callers -> SUBSET Strings]
        /\ \A u \in Callers :
             /\ seen[u] \subseteq seen'[u]
             /\ pc[u] # "idle" => table'[Home(u)][req[u].key] \in seen'[u]
        /\ new \in seen'[t]
    BY <1>0, <2>1, <2>2, <2>3, StoreSeen
  <2>5. StateInv'
    BY <1>0, <2>1, <2>4 DEF StateInv, Ready
  <2>6. \A u \in Callers \ {t} : Underway(u)' /\ Answered(u)'
    <3>1. \A u \in Callers \ {t} : Bystander(u)
      BY <1>0, <2>1 DEF StateInv, Bystander
    <3> QED
      BY <1>0, <2>4, <3>1, BystanderKeeps
  <2>7. Underway(t)'
    <3>1. Home(t)' = n
      BY <2>1 DEF Home
    <3> QED
      BY <2>1, <2>2, <2>4, <3>1 DEF Underway, Current
  <2>8. Answered(t)'
    <3>1. reply'[t] = Response(table[n], req[t])
      BY <1>0, <2>1 DEF StateInv
    <3>2. Tells(req[t], [code |-> Interpreted(req[t].op, reply'[t].code), val |-> reply'[t].val], seen'[t])
      BY <2>1, <2>2, <2>4, <3>1, AnswerTells
    <3> QED
      BY <2>1, <3>2 DEF Answered
  <2> QED
    BY <2>5, <2>6, <2>7, <2>8 DEF WitnessInv
<1>7. ASSUME NEW t \in Callers, Wait(t) PROVE WitnessInv'
  <2>1. /\ pc[t] = "sent" /\ req[t].op = "STCHGCB"
        /\ reply' = [reply EXCEPT ![t] =
              [code |-> IF Current(t) = req[t].val THEN "000" ELSE "-04", val |-> Absent]]
        /\ pc' = [pc EXCEPT ![t] = "served"]
        /\ UNCHANGED <<table, req, result, strays, seen>>
    BY <1>7 DEF Wait
  <2>2. StateInv'
    BY <1>0, <2>1 DEF StateInv, Ready
  <2>3. Underway(t)'
    BY <1>0, <2>1 DEF StateInv, Underway, Home, Current
  <2>4. Answered(t)'
    <3>1. req[t] \in Requests /\ Current(t) \in seen[t]
      BY <1>0, <2>1 DEF Underway
    <3>2. reply'[t] = [code |-> IF Current(t) = req[t].val THEN "000" ELSE "-04", val |-> Absent]
      BY <1>0, <2>1 DEF StateInv
    <3>3. Tells(req[t], [code |-> Interpreted(req[t].op, reply'[t].code), val |-> reply'[t].val], seen[t])
      BY <2>1, <3>1, <3>2, WaitTells
    <3> QED
      BY <2>1, <3>3 DEF Answered
  <2>5. \A u \in Callers \ {t} : Bystander(u) /\ seen'[u] = seen[u]
    BY <1>0, <2>1 DEF StateInv, Bystander
  <2>6. \A u \in Callers \ {t} : Underway(u)' /\ Answered(u)'
    BY <2>1, <2>5, OthersKeep
  <2> QED
    BY <2>2, <2>3, <2>4, <2>6 DEF WitnessInv
<1>8. ASSUME NEW t \in Callers, Receive(t) PROVE WitnessInv'
  <2>1. /\ Return(t, Interpreted(req[t].op, reply[t].code), reply[t].val)
        /\ reply' = [reply EXCEPT ![t] = NoReply]
        /\ UNCHANGED <<table, strays>>
    BY <1>8 DEF Receive
  <2> QED
    BY <1>0, <2>1, ReturnKeeps DEF StateInv
<1>9. ASSUME NEW t \in Callers, Retry(t) PROVE WitnessInv'
  <2>1. /\ pc[t] \in {"sent", "served"} /\ Leave(t)
        /\ pc' = [pc EXCEPT ![t] = "sent"] /\ reply' = [reply EXCEPT ![t] = NoReply]
        /\ UNCHANGED <<table, req, result, seen>>
    BY <1>9 DEF Retry
  <2>2. \A s \in strays' : s.node \in Nodes /\ s.req \in Requests /\ s.req.key \in Keys
    BY <2>1, LeaveKeepsStrays
  <2>3. StateInv'
    BY <1>0, <2>1, <2>2 DEF StateInv, Ready
  <2>4. Underway(t)' /\ Answered(t)'
    BY <1>0, <2>1 DEF StateInv, Underway, Answered, Home, Current
  <2>5. \A u \in Callers \ {t} : Bystander(u) /\ seen'[u] = seen[u]
    BY <1>0, <2>1 DEF StateInv, Bystander
  <2>6. \A u \in Callers \ {t} : Underway(u)' /\ Answered(u)'
    BY <2>1, <2>5, OthersKeep
  <2> QED
    BY <2>3, <2>4, <2>6 DEF WitnessInv
<1>10. ASSUME NEW t \in Callers, Fails(t) PROVE WitnessInv'
  <2>1. /\ Return(t, "Transport", Absent) /\ Leave(t)
        /\ reply' = [reply EXCEPT ![t] = NoReply] /\ UNCHANGED table
    BY <1>10 DEF Fails
  <2>2. \A s \in strays' : s.node \in Nodes /\ s.req \in Requests /\ s.req.key \in Keys
    BY <2>1, LeaveKeepsStrays
  <2> QED
    BY <1>0, <2>1, <2>2, ReturnKeeps DEF StateInv
<1>11. ASSUME NEW s \in strays, ServeStray(s) PROVE WitnessInv'
  <2> DEFINE new == Effect(table[s.node], s.req)
  <2>1. /\ strays' = strays \ {s} /\ Store(s.node, s.req.key, new)
        /\ UNCHANGED <<pc, req, reply, result>>
    BY <1>11 DEF ServeStray, call
  <2>2. s.node \in Nodes /\ s.req \in Requests /\ s.req.key \in Keys
        /\ table[s.node] \in [Keys -> Strings]
    BY <1>0 DEF StateInv
  <2>3. new \in Strings
    BY <2>2, EffectIsString
  <2>4. /\ table' \in [Nodes -> [Keys -> Strings]]
        /\ seen' \in [Callers -> SUBSET Strings]
        /\ \A u \in Callers :
             /\ seen[u] \subseteq seen'[u]
             /\ pc[u] # "idle" => table'[Home(u)][req[u].key] \in seen'[u]
    BY <1>0, <2>1, <2>2, <2>3, StoreSeen
  <2>5. StateInv'
    BY <1>0, <2>1, <2>4 DEF StateInv
  <2>6. \A u \in Callers : Bystander(u)
    BY <2>1 DEF Bystander
  <2>7. \A u \in Callers : Underway(u)' /\ Answered(u)'
    BY <1>0, <2>4, <2>6, BystanderKeeps
  <2> QED
    BY <2>5, <2>7 DEF WitnessInv
<1>12. CASE UNCHANGED vars
  BY <1>1, <1>12 DEF vars
<1> QED
  BY <1>2, <1>3, <1>4, <1>5, <1>6, <1>7, <1>8, <1>9, <1>10, <1>11, <1>12 DEF Next, Step

(* What a call returns was so at its node while it lasted, for any number  *)
(* of clients, callers and nodes, and any connections that break:          *)
(* parse_status and the match on its result tell no more than that.  Of a  *)
(* swap that succeeded they do not tell the value, which is the empty one. *)
THEOREM WitnessedHolds == Spec => Witnessed
<1>1. ASSUME WitnessInv, [Next]_vars, NEW t \in Callers, Returns(t)
      PROVE  Tells(req[t], result'[t], seen[t])
  <2>0. StateInv /\ Answered(t)
    BY <1>1 DEF WitnessInv
  <2>1. pc[t] = "served" /\ pc'[t] = "idle"
    BY <1>1 DEF Returns
  <2>2. CASE Receive(t)
    <3>1. result'[t] = [code |-> Interpreted(req[t].op, reply[t].code), val |-> reply[t].val]
      BY <2>0, <2>2 DEF Receive, Return, StateInv
    <3> QED
      BY <2>0, <2>1, <3>1 DEF Answered
  <2>3. CASE Fails(t)
    <3>1. result'[t] = [code |-> "Transport", val |-> Absent]
      BY <2>0, <2>3 DEF Fails, Return, StateInv
    <3> QED
      BY <3>1 DEF Tells
  <2>4. Receive(t) \/ Fails(t)
    <3>1. ASSUME NEW u \in Callers, Step(u) \/ Retry(u) \/ Fails(u) PROVE Receive(t) \/ Fails(t)
      BY <2>0, <2>1, <3>1 DEF Step, Send, Serve, Wait, Receive, Retry, Fails, Return, StateInv
    <3>2. ASSUME NEW u \in Callers, NEW r \in RequestsOf[u], Refuse(u, r) \/ Call(u, r) PROVE FALSE
      BY <2>0, <2>1, <3>2 DEF Refuse, Call, Return, StateInv
    <3>3. ASSUME NEW c \in Clients, Initialize(c) \/ Teardown(c) PROVE FALSE
      BY <2>1, <3>3 DEF Initialize, Teardown, call
    <3>4. ASSUME NEW s \in strays, ServeStray(s) PROVE FALSE
      BY <2>1, <3>4 DEF ServeStray, call
    <3>5. ~UNCHANGED vars
      BY <2>1 DEF vars, call
    <3> QED
      BY <1>1, <3>1, <3>2, <3>3, <3>4, <3>5 DEF Next
  <2> QED
    BY <2>2, <2>3, <2>4
<1>2. WitnessInv /\ [Next]_vars =>
        [\A t \in Callers : Returns(t) => Tells(req[t], result'[t], seen[t])]_vars
  BY <1>1
<1>3. WitnessInv /\ [Next]_vars => WitnessInv'
  BY WitnessStep
<1> QED
  BY <1>2, <1>3, WitnessInit, PTL DEF Spec, Witnessed
-----------------------------------------------------------------------------
(* Counting.                                                               *)

LEMMA FewerElements ==
  ASSUME NEW S, IsFiniteSet(S), NEW T, T \subseteq S
  PROVE  /\ IsFiniteSet(T)
         /\ Cardinality(S) \in Nat /\ Cardinality(T) \in Nat
         /\ Cardinality(T) <= Cardinality(S)
         /\ T # S => Cardinality(T) <= Cardinality(S) - 1
<1>1. IsFiniteSet(T) /\ Cardinality(S) \in Nat /\ Cardinality(T) \in Nat
  BY FS_Subset, FS_CardinalityType
<1>2. Cardinality(T) <= Cardinality(S) /\ (Cardinality(T) = Cardinality(S) => T = S)
  BY FS_Subset
<1> QED
  BY <1>1, <1>2

LEMMA OneMoreElement ==
  ASSUME NEW S, IsFiniteSet(S), NEW x, NEW T, T \subseteq S \union {x}
  PROVE  /\ IsFiniteSet(T)
         /\ Cardinality(S) \in Nat /\ Cardinality(T) \in Nat
         /\ Cardinality(T) <= Cardinality(S) + 1
<1>1. /\ IsFiniteSet(S \union {x}) /\ Cardinality(S) \in Nat
      /\ Cardinality(S \union {x}) <= Cardinality(S) + 1
  <2>1. Cardinality(S) \in Nat /\ IsFiniteSet(S \union {x})
    BY FS_CardinalityType, FS_AddElement
  <2>2. Cardinality(S \union {x}) = IF x \in S THEN Cardinality(S) ELSE Cardinality(S) + 1
    BY FS_AddElement
  <2> QED
    BY <2>1, <2>2
<1>2. /\ IsFiniteSet(T) /\ Cardinality(T) \in Nat /\ Cardinality(S \union {x}) \in Nat
      /\ Cardinality(T) <= Cardinality(S \union {x})
  BY <1>1, FewerElements
<1> QED
  BY <1>1, <1>2

(* The atoms of a key: unchanged with its values, one more with an append. *)
LEMMA CellsSame ==
  ASSUME NEW k, \A n \in Nodes : table'[n][k] = table[n][k]
  PROVE  Cells(k)' = Cells(k)
BY DEF Cells

LEMMA CellsGrow ==
  ASSUME table \in [Nodes -> [Keys -> Strings]], NEW n \in Nodes, NEW k \in Keys,
         NEW v \in Seq(Atoms), Len(v) = 1,
         table' = [table EXCEPT ![n][k] = Appended(table[n], k, v)],
         IsFiniteSet(Cells(k))
  PROVE  IsFiniteSet(Cells(k)') /\ Length(k)' = Length(k) + 1 /\ Length(k) \in Nat
<1> DEFINE old == table[n][k]
           size == IF old = Absent THEN 0 ELSE Len(old)
<1>1. \A m \in Nodes \ {n} : table'[m][k] = table[m][k]
  OBVIOUS
<1>2. old \in Strings /\ table'[n][k] = IF old = Absent THEN v ELSE old \o v
  BY DEF Appended
<1>3. size \in Nat /\ table'[n][k] # Absent /\ Len(table'[n][k]) = size + 1
  <2>1. CASE old = Absent
    BY <1>2, <2>1, ValuesAreStrings
  <2>2. CASE old # Absent
    <3>1. old \in Seq(Atoms)
      BY <1>2, <2>2 DEF Strings
    <3> HIDE DEF old
    <3>2. old \o v \in Seq(Atoms) /\ Len(old \o v) = Len(old) + 1 /\ Len(old) \in Nat
      <4>1. \A u, w \in Seq(Atoms) :
              u \o w \in Seq(Atoms) /\ Len(u \o w) = Len(u) + Len(w) /\ Len(u) \in Nat
        OBVIOUS
      <4> QED
        BY <3>1, <4>1
    <3> QED
      BY <1>2, <2>2, <3>2, ValuesAreStrings DEF size
  <2> QED
    BY <2>1, <2>2
<1> DEFINE here == {n} \X (1..size)
           others == UNION {{m} \X (1..Len(table[m][k])) :
                              m \in {l \in Nodes \ {n} : table[l][k] # Absent}}
<1>4. Cells(k) = here \union others
  <2>1. CASE old = Absent
    <3>1. 1..size = {}
      BY <1>3, <2>1
    <3>2. {m \in Nodes : table[m][k] # Absent} = {l \in Nodes \ {n} : table[l][k] # Absent}
      BY <2>1
    <3> QED
      BY <3>1, <3>2 DEF Cells
  <2>2. CASE old # Absent
    <3>1. {m \in Nodes : table[m][k] # Absent} = {n} \union {l \in Nodes \ {n} : table[l][k] # Absent}
      BY <2>2
    <3> HIDE DEF size
    <3>2. size = Len(table[n][k])
      BY <2>2 DEF size
    <3> QED
      BY <3>1, <3>2 DEF Cells
  <2> QED
    BY <2>1, <2>2
<1>5. Cells(k)' = ({n} \X (1..(size + 1))) \union others
  <2>1. {m \in Nodes : table'[m][k] # Absent} = {n} \union {l \in Nodes \ {n} : table[l][k] # Absent}
    BY <1>1, <1>3
  <2> HIDE DEF size
  <2> QED
    BY <1>1, <1>3, <2>1 DEF Cells
<1>6. {n} \X (1..(size + 1)) = here \union {<<n, size + 1>>}
  <2>1. 1..(size + 1) = (1..size) \union {size + 1}
    BY <1>3
  <2> QED
    BY <2>1
<1>7. <<n, size + 1>> \notin here \union others
  <2>1. size + 1 \notin 1..size
    BY <1>3
  <2> QED
    BY <2>1
<1>8. Cells(k)' = Cells(k) \union {<<n, size + 1>>} /\ <<n, size + 1>> \notin Cells(k)
  <2> HIDE DEF here, others
  <2> QED
    BY <1>4, <1>5, <1>6, <1>7
<1> HIDE DEF size
<1> QED
  BY <1>8, FS_AddElement, FS_CardinalityType DEF Length

-----------------------------------------------------------------------------
(* The appends to one key: who may still append, and who has.              *)

Appending(t, k) == req[t].op = "APPEND" /\ req[t].key = k

Sent(k) == {t \in Callers : pc[t] = "sent" /\ Appending(t, k)}
Served(k) == {t \in Callers : pc[t] = "served" /\ Appending(t, k)}
FirstTry(k) == {t \in Callers : pc[t] \in {"sent", "served"} /\ ~retried[t] /\ Appending(t, k)}
StraysOf(k) == {s \in strays : s.req.key = k}

(* An atom that may yet be appended is that of a request sent, of one left *)
(* behind, or of the retry that a first attempt still has.                 *)
KeyInv(k) ==
  /\ IsFiniteSet(Cells(k)) /\ IsFiniteSet(Sent(k)) /\ IsFiniteSet(Served(k))
  /\ IsFiniteSet(FirstTry(k)) /\ IsFiniteSet(StraysOf(k))
  /\ Length(k) + Cardinality(StraysOf(k)) + Cardinality(Sent(k)) + Cardinality(FirstTry(k))
       <= 2 * appends[k]["sent"]
  /\ appends[k]["ok"] + Cardinality(Served(k)) <= Length(k)
  /\ used["breaks"] = 0 =>
       StraysOf(k) = {} /\ Length(k) <= appends[k]["ok"] + Cardinality(Served(k))

(* Requests are those of their callers; only writes are left behind.       *)
AppendInv ==
  /\ WitnessInv
  /\ retried \in [Callers -> BOOLEAN]
  /\ appends \in [Keys -> [{"sent", "ok"} -> Nat]]
  /\ used \in [{"switches", "calls", "breaks"} -> Nat]
  /\ \A t \in Callers : pc[t] # "idle" => req[t] \in RequestsOf[t]
  /\ \A s \in strays :
       /\ \E t \in Callers : s.req \in RequestsOf[t]
       /\ s.req.op \notin {"LOOKUP", "STCHGCB"}
  /\ \A k \in AppendOnly : KeyInv(k)

LEMMA AppendInit == Init => AppendInv
<1> SUFFICES ASSUME Init PROVE AppendInv
  OBVIOUS
<1>1. /\ retried \in [Callers -> BOOLEAN] /\ strays = {}
      /\ \A t \in Callers : pc[t] = "idle"
  BY DEF Init
<1>2. appends \in [Keys -> [{"sent", "ok"} -> Nat]] /\ \A k \in Keys : appends[k]["sent"] = 0 /\ appends[k]["ok"] = 0
  BY DEF Init
<1>3. used \in [{"switches", "calls", "breaks"} -> Nat]
  BY DEF Init
<1>4. ASSUME NEW k \in AppendOnly PROVE KeyInv(k)
  <2>1. k \in Keys /\ \A n \in Nodes : table[n][k] = Absent
    BY <1>4 DEF AppendOnly, Init, Empty
  <2>2. Cells(k) = {} /\ Sent(k) = {} /\ Served(k) = {} /\ FirstTry(k) = {} /\ StraysOf(k) = {}
    BY <1>1, <2>1 DEF Cells, Sent, Served, FirstTry, StraysOf
  <2>3. IsFiniteSet({}) /\ Cardinality({}) = 0
    BY FS_EmptySet
  <2> QED
    BY <1>2, <2>1, <2>2, <2>3 DEF KeyInv, Length
<1> QED
  BY WitnessInit, <1>1, <1>2, <1>3, <1>4 DEF AppendInv

(* A request for a key that is only appended to either appends one atom to *)
(* it, or leaves it alone and is not left behind.                          *)
LEMMA AppendOrRead ==
  ASSUME NEW k \in AppendOnly, NEW u \in Callers, NEW r \in RequestsOf[u], r.key = k
  PROVE  /\ k \in Keys /\ r \in Requests
         /\ \/ r.op \in {"LOOKUP", "STCHGCB"} /\ \A tbl : Effect(tbl, r) = tbl[k]
            \/ /\ r.op = "APPEND" /\ r.val \in Seq(Atoms) /\ Len(r.val) = 1
               /\ \A tbl : Effect(tbl, r) = Appended(tbl, k, r.val)
<1>1. k \in Keys /\ r \in Requests
  BY ClientAssumption DEF AppendOnly
<1>2. r.val \in Seq(Atoms)
  BY <1>1, ValuesAreStrings DEF Requests
<1>3. CASE r.op \in {"LOOKUP", "STCHGCB"}
  BY <1>1, <1>3 DEF Effect
<1>4. CASE r.op = "APPEND" /\ Len(r.val) = 1
  BY <1>1, <1>2, <1>4 DEF Effect
<1> QED
  BY <1>3, <1>4 DEF AppendOnly

(* Nothing of what a key's count depends on has changed.                   *)
LEMMA KeyUntouched ==
  ASSUME NEW k, KeyInv(k), Cells(k)' = Cells(k), Sent(k)' = Sent(k), Served(k)' = Served(k),
         FirstTry(k)' = FirstTry(k), StraysOf(k)' = StraysOf(k), appends'[k] = appends[k],
         used'["breaks"] = 0 => used["breaks"] = 0
  PROVE  KeyInv(k)'
BY DEF KeyInv, Length

(* A step of one caller leaves the others in the sets they are in.         *)
Alone(t) ==
  \A u \in Callers \ {t} : pc'[u] = pc[u] /\ req'[u] = req[u] /\ retried'[u] = retried[u]

LEMMA OtherCallers ==
  ASSUME NEW t \in Callers, Alone(t), NEW k
  PROVE  /\ Sent(k)' \ {t} = Sent(k) \ {t}
         /\ Served(k)' \ {t} = Served(k) \ {t}
         /\ FirstTry(k)' \ {t} = FirstTry(k) \ {t}
BY DEF Alone, Sent, Served, FirstTry, Appending

LEMMA NotItsCaller ==
  ASSUME NEW t \in Callers, Alone(t), NEW k,
         pc[t] \in {"sent", "served"} => ~Appending(t, k),
         pc'[t] \in {"sent", "served"} => ~Appending(t, k)'
  PROVE  Sent(k)' = Sent(k) /\ Served(k)' = Served(k) /\ FirstTry(k)' = FirstTry(k)
<1>1. t \notin Sent(k) /\ t \notin Served(k) /\ t \notin FirstTry(k)
  BY DEF Sent, Served, FirstTry
<1>2. t \notin Sent(k)' /\ t \notin Served(k)' /\ t \notin FirstTry(k)'
  BY DEF Sent, Served, FirstTry
<1> QED
  BY <1>1, <1>2, OtherCallers

(* What has changed, but for the sets of callers, in a step of one.        *)
LEMMA AppendAlone ==
  ASSUME AppendInv, NEW t \in Callers,
         Step(t) \/ Retry(t) \/ Fails(t) \/ \E r \in RequestsOf[t] : Refuse(t, r) \/ Call(t, r)
  PROVE  Alone(t)
<1> USE DEF AppendInv, WitnessInv, StateInv, Alone, Return
<1>1. CASE Send(t) \/ Serve(t) \/ Wait(t) \/ Receive(t)
  BY <1>1 DEF Send, Serve, Wait, Receive
<1>2. CASE Retry(t) \/ Fails(t)
  BY <1>2 DEF Retry, Fails
<1>3. CASE \E r \in RequestsOf[t] : Refuse(t, r) \/ Call(t, r)
  BY <1>3 DEF Refuse, Call
<1> QED
  BY <1>1, <1>2, <1>3 DEF Step

(* A connection that breaks leaves at most the request behind.             *)
LEMMA LeaveStrays ==
  ASSUME AppendInv, NEW t \in Callers, pc[t] \in {"sent", "served"}, Leave(t),
         NEW k \in AppendOnly
  PROVE  /\ ~Appending(t, k) => StraysOf(k)' = StraysOf(k)
         /\ pc[t] = "served" => StraysOf(k)' = StraysOf(k)
         /\ \E s : StraysOf(k)' \subseteq StraysOf(k) \union {s}
<1>1. CASE UNCHANGED strays
  BY <1>1 DEF StraysOf
<1>2. CASE /\ pc[t] = "sent" /\ req[t].op \notin {"LOOKUP", "STCHGCB"}
           /\ strays' = strays \union {[id |-> used.breaks, node |-> Home(t), req |-> req[t]]}
  <2>1. req[t] \in RequestsOf[t]
    BY <1>2 DEF AppendInv
  <2>2. req[t].key = k => Appending(t, k)
    BY <1>2, <2>1, AppendOrRead DEF Appending
  <2>3. \E s : StraysOf(k)' \subseteq StraysOf(k) \union {s}
    BY <1>2 DEF StraysOf
  <2>4. ~Appending(t, k) => StraysOf(k)' = StraysOf(k)
    BY <1>2, <2>2 DEF StraysOf
  <2> QED
    BY <1>2, <2>3, <2>4
<1> QED
  BY <1>1, <1>2 DEF Leave

LEMMA AppendTypes ==
  ASSUME AppendInv, [Next]_vars
  PROVE  /\ retried' \in [Callers -> BOOLEAN]
         /\ appends' \in [Keys -> [{"sent", "ok"} -> Nat]]
         /\ used' \in [{"switches", "calls", "breaks"} -> Nat]
         /\ \A t \in Callers : pc'[t] # "idle" => req'[t] \in RequestsOf[t]
         /\ \A s \in strays' :
              /\ \E t \in Callers : s.req \in RequestsOf[t]
              /\ s.req.op \notin {"LOOKUP", "STCHGCB"}
<1> DEFINE Goal == /\ retried' \in [Callers -> BOOLEAN]
                   /\ appends' \in [Keys -> [{"sent", "ok"} -> Nat]]
                   /\ used' \in [{"switches", "calls", "breaks"} -> Nat]
                   /\ \A t \in Callers : pc'[t] # "idle" => req'[t] \in RequestsOf[t]
                   /\ \A s \in strays' :
                        /\ \E t \in Callers : s.req \in RequestsOf[t]
                        /\ s.req.op \notin {"LOOKUP", "STCHGCB"}
<1>0. /\ pc \in [Callers -> Ready] /\ DOMAIN req = Callers
      /\ retried \in [Callers -> BOOLEAN]
      /\ appends \in [Keys -> [{"sent", "ok"} -> Nat]]
      /\ used \in [{"switches", "calls", "breaks"} -> Nat]
      /\ \A t \in Callers : pc[t] # "idle" => req[t] \in RequestsOf[t]
      /\ \A s \in strays :
           /\ \E t \in Callers : s.req \in RequestsOf[t]
           /\ s.req.op \notin {"LOOKUP", "STCHGCB"}
      /\ \A t \in Callers : pc[t] # "idle" => req[t].key \in Keys
  BY DEF AppendInv, WitnessInv, StateInv, Underway
<1>u. ASSUME NEW what \in {"switches", "calls", "breaks"}, NEW bound, Use(what, bound)
      PROVE  used' \in [{"switches", "calls", "breaks"} -> Nat]
  BY <1>0, <1>u DEF Use
<1>c. ASSUME NEW r, r.key \in Keys, NEW what \in {"sent", "ok"}, appends' = Counted(r, what)
      PROVE  appends' \in [Keys -> [{"sent", "ok"} -> Nat]]
  BY <1>0, <1>c DEF Counted
<1>1. ASSUME NEW c \in Clients, Initialize(c) \/ Teardown(c) PROVE Goal
  BY <1>0, <1>1, <1>u DEF Initialize, Teardown, call
<1>2. ASSUME NEW t \in Callers, NEW r \in RequestsOf[t], Refuse(t, r) \/ Call(t, r) PROVE Goal
  <2>1. /\ used' \in [{"switches", "calls", "breaks"} -> Nat] /\ UNCHANGED <<appends, strays>>
        /\ retried' \in [Callers -> BOOLEAN]
    BY <1>0, <1>2, <1>u DEF Refuse, Call, Return
  <2>2. \A u \in Callers : pc'[u] # "idle" => req'[u] \in RequestsOf[u]
    BY <1>0, <1>2 DEF Refuse, Call, Return, Ready
  <2> QED
    BY <1>0, <2>1, <2>2
<1>3. ASSUME NEW t \in Callers, Send(t) \/ Serve(t) \/ Wait(t) PROVE Goal
  <2>1. /\ UNCHANGED <<used, retried, strays, req>> /\ pc[t] # "idle"
        /\ \A u \in Callers \ {t} : pc'[u] = pc[u]
    BY <1>0, <1>3 DEF Send, Serve, Wait
  <2>2. appends' \in [Keys -> [{"sent", "ok"} -> Nat]]
    BY <1>0, <1>3, <1>c DEF Send, Serve, Wait
  <2> QED
    BY <1>0, <2>1, <2>2
<1>4. ASSUME NEW t \in Callers, Receive(t) PROVE Goal
  <2>1. appends' \in [Keys -> [{"sent", "ok"} -> Nat]] /\ UNCHANGED <<used, strays>>
    BY <1>0, <1>4, <1>c DEF Receive
  <2>2. /\ retried' \in [Callers -> BOOLEAN]
        /\ \A u \in Callers : pc'[u] # "idle" => req'[u] \in RequestsOf[u]
    BY <1>0, <1>4 DEF Receive, Return
  <2> QED
    BY <1>0, <2>1, <2>2
<1>5. ASSUME NEW t \in Callers, Retry(t) \/ Fails(t) PROVE Goal
  <2>1. used' \in [{"switches", "calls", "breaks"} -> Nat] /\ UNCHANGED appends
    BY <1>5, <1>u DEF Retry, Fails
  <2>2. /\ retried' \in [Callers -> BOOLEAN]
        /\ \A u \in Callers : pc'[u] # "idle" => req'[u] \in RequestsOf[u]
    BY <1>0, <1>5 DEF Retry, Fails, Return
  <2>3. ASSUME NEW s \in strays' \ strays
        PROVE  s.req \in RequestsOf[t] /\ s.req.op \notin {"LOOKUP", "STCHGCB"}
    BY <1>0, <1>5, <2>3 DEF Retry, Fails, Leave
  <2> QED
    BY <1>0, <2>1, <2>2, <2>3
<1>6. ASSUME NEW s \in strays, ServeStray(s) PROVE Goal
  <2>1. strays' \subseteq strays /\ UNCHANGED <<call, appends, used>>
    BY <1>6 DEF ServeStray
  <2> QED
    BY <1>0, <2>1 DEF call
<1>7. CASE UNCHANGED vars
  BY <1>0, <1>7 DEF vars, call
<1> QED
  BY <1>1, <1>2, <1>3, <1>4, <1>5, <1>6, <1>7 DEF Next, Step

LEMMA KeyStep ==
  ASSUME AppendInv, [Next]_vars, NEW k \in AppendOnly
  PROVE  KeyInv(k)'
<1>0. /\ KeyInv(k) /\ k \in Keys
      /\ table \in [Nodes -> [Keys -> Strings]] /\ pc \in [Callers -> Ready]
      /\ DOMAIN req = Callers /\ retried \in [Callers -> BOOLEAN]
      /\ appends \in [Keys -> [{"sent", "ok"} -> Nat]]
      /\ used \in [{"switches", "calls", "breaks"} -> Nat]
      /\ \A t \in Callers : pc[t] # "idle" =>
           req[t] \in RequestsOf[t] /\ req[t].key \in Keys /\ Home(t) \in Nodes
  BY DEF AppendInv, WitnessInv, StateInv, Underway, AppendOnly
<1>n. /\ Length(k) \in Nat /\ Cardinality(StraysOf(k)) \in Nat /\ Cardinality(Sent(k)) \in Nat
      /\ Cardinality(FirstTry(k)) \in Nat /\ Cardinality(Served(k)) \in Nat
      /\ appends[k]["sent"] \in Nat /\ appends[k]["ok"] \in Nat /\ used["breaks"] \in Nat
  BY <1>0, FS_CardinalityType DEF KeyInv, Length
<1>b. ASSUME NEW what, NEW bound, Use(what, bound), what \in {"switches", "calls", "breaks"}
      PROVE  /\ used'["breaks"] = 0 => used["breaks"] = 0
             /\ what = "breaks" => used'["breaks"] # 0
  BY <1>0, <1>n, <1>b DEF Use
<1>1. ASSUME UNCHANGED <<table, call, strays, appends>>, used'["breaks"] = 0 => used["breaks"] = 0
      PROVE  KeyInv(k)'
  <2>1. /\ Cells(k)' = Cells(k) /\ Sent(k)' = Sent(k) /\ Served(k)' = Served(k)
        /\ FirstTry(k)' = FirstTry(k) /\ StraysOf(k)' = StraysOf(k)
    BY <1>1 DEF Cells, Sent, Served, FirstTry, StraysOf, Appending, call
  <2> QED
    BY <1>0, <1>1, <2>1, KeyUntouched
<1>2. ASSUME NEW c \in Clients, Initialize(c) \/ Teardown(c) PROVE KeyInv(k)'
  BY <1>1, <1>2, <1>b DEF Initialize, Teardown
<1>3. ASSUME NEW t \in Callers, NEW r \in RequestsOf[t], Refuse(t, r) \/ Call(t, r)
      PROVE  KeyInv(k)'
  <2>1. /\ pc[t] = "idle" /\ pc'[t] \in {"idle", "queued"}
        /\ UNCHANGED <<table, strays, appends>> /\ (used'["breaks"] = 0 => used["breaks"] = 0)
    BY <1>0, <1>3, <1>b DEF Refuse, Call, Return
  <2>2. Alone(t)
    BY <1>3, AppendAlone
  <2>3. Sent(k)' = Sent(k) /\ Served(k)' = Served(k) /\ FirstTry(k)' = FirstTry(k)
    BY <2>1, <2>2, NotItsCaller
  <2>4. Cells(k)' = Cells(k)
    BY <2>1, CellsSame
  <2>5. StraysOf(k)' = StraysOf(k)
    BY <2>1 DEF StraysOf
  <2>6. appends'[k] = appends[k] /\ (used'["breaks"] = 0 => used["breaks"] = 0)
    BY <2>1
  <2> QED
    BY <1>0, <2>3, <2>4, <2>5, <2>6, KeyUntouched
(* Send: an append begun may be applied by either of two attempts.         *)
<1>4. ASSUME NEW t \in Callers, Send(t) PROVE KeyInv(k)'
  <2>1. /\ pc[t] = "queued" /\ pc' = [pc EXCEPT ![t] = "sent"] /\ appends' = Counted(req[t], "sent")
        /\ UNCHANGED <<table, req, retried, strays, used>>
    BY <1>4 DEF Send
  <2>2. Alone(t) /\ Cells(k)' = Cells(k) /\ StraysOf(k)' = StraysOf(k)
    BY <1>0, <1>4, <2>1, AppendAlone, CellsSame DEF StraysOf, Step
  <2>3. CASE ~Appending(t, k)
    <3>1. Sent(k)' = Sent(k) /\ Served(k)' = Served(k) /\ FirstTry(k)' = FirstTry(k)
      BY <2>1, <2>2, <2>3, NotItsCaller DEF Appending
    <3>2. appends'[k] = appends[k] /\ used' = used
      BY <1>0, <2>1, <2>3 DEF Counted, Appending
    <3> QED
      BY <1>0, <2>2, <3>1, <3>2, KeyUntouched
  <2>4. CASE Appending(t, k)
    <3>1. /\ Sent(k)' \subseteq Sent(k) \union {t} /\ FirstTry(k)' \subseteq FirstTry(k) \union {t}
      BY <2>2, OtherCallers
    <3>2. t \notin Served(k) /\ t \notin Served(k)'
      BY <1>0, <2>1 DEF Served
    <3>3. Served(k)' = Served(k)
      BY <2>2, <3>2, OtherCallers
    <3>4. /\ appends'[k]["sent"] = appends[k]["sent"] + 1
          /\ appends'[k]["ok"] = appends[k]["ok"]
      BY <1>0, <2>1, <2>4 DEF Counted, Appending
    <3>5. /\ IsFiniteSet(Sent(k)') /\ Cardinality(Sent(k)') <= Cardinality(Sent(k)) + 1
          /\ IsFiniteSet(FirstTry(k)') /\ Cardinality(FirstTry(k)') <= Cardinality(FirstTry(k)) + 1
          /\ Cardinality(Sent(k)') \in Nat /\ Cardinality(FirstTry(k)') \in Nat
      BY <1>0, <3>1, OneMoreElement DEF KeyInv
    <3>6. Length(k)' = Length(k) /\ used' = used
      BY <2>1, <2>2 DEF Length
    <3> QED
      BY <1>0, <1>n, <2>2, <3>3, <3>4, <3>5, <3>6 DEF KeyInv
  <2> QED
    BY <2>3, <2>4
(* A node stores what a request leaves at its key.                         *)
<1>5. ASSUME NEW n \in Nodes, NEW u \in Callers, NEW r \in RequestsOf[u], r.key \in Keys,
             Store(n, r.key, Effect(table[n], r))
      PROVE  /\ r.key # k \/ r.op # "APPEND" => Cells(k)' = Cells(k)
             /\ r.key = k /\ r.op = "APPEND" =>
                  IsFiniteSet(Cells(k)') /\ Length(k)' = Length(k) + 1
  <2>1. table' = [table EXCEPT ![n][r.key] = Effect(table[n], r)]
    BY <1>5 DEF Store
  <2>2. CASE r.key # k
    BY <1>0, <2>1, <2>2, CellsSame
  <2>3. CASE r.key = k /\ r.op # "APPEND"
    <3>1. Effect(table[n], r) = table[n][k]
      BY <1>5, <2>3, AppendOrRead
    <3> QED
      BY <1>0, <2>1, <2>3, <3>1, CellsSame
  <2>4. CASE r.key = k /\ r.op = "APPEND"
    <3>1. r.val \in Seq(Atoms) /\ Len(r.val) = 1 /\ Effect(table[n], r) = Appended(table[n], k, r.val)
      BY <1>5, <2>4, AppendOrRead
    <3>2. IsFiniteSet(Cells(k))
      BY <1>0 DEF KeyInv
    <3> QED
      BY <1>0, <1>5, <2>1, <2>4, <3>1, <3>2, CellsGrow
  <2> QED
    BY <2>2, <2>3, <2>4
(* Serve: what was to be appended is.                                      *)
<1>6. ASSUME NEW t \in Callers, Serve(t) PROVE KeyInv(k)'
  <2>1. /\ pc[t] = "sent" /\ pc' = [pc EXCEPT ![t] = "served"]
        /\ Store(Home(t), req[t].key, Effect(table[Home(t)], req[t]))
        /\ UNCHANGED <<req, retried, strays, appends, used>>
    BY <1>6 DEF Serve
  <2>2. Alone(t) /\ StraysOf(k)' = StraysOf(k)
    BY <1>6, <2>1, AppendAlone DEF StraysOf, Step
  <2>3. req[t] \in RequestsOf[t] /\ req[t].key \in Keys /\ Home(t) \in Nodes
    BY <1>0, <2>1
  <2>4. CASE ~Appending(t, k)
    <3>1. Sent(k)' = Sent(k) /\ Served(k)' = Served(k) /\ FirstTry(k)' = FirstTry(k)
      BY <2>1, <2>2, <2>4, NotItsCaller DEF Appending
    <3>2. Cells(k)' = Cells(k)
      BY <1>5, <2>1, <2>3, <2>4 DEF Appending
    <3> QED
      BY <1>0, <2>1, <2>2, <3>1, <3>2, KeyUntouched
  <2>5. CASE Appending(t, k)
    <3>1. IsFiniteSet(Cells(k)') /\ Length(k)' = Length(k) + 1
      BY <1>5, <2>1, <2>3, <2>5 DEF Appending
    <3>2. /\ t \in Sent(k) /\ t \notin Sent(k)' /\ t \notin Served(k) /\ t \in Served(k)'
          /\ t \in FirstTry(k)' <=> t \in FirstTry(k)
      BY <1>0, <2>1, <2>5 DEF Sent, Served, FirstTry, Appending
    <3>3. /\ Sent(k)' = Sent(k) \ {t} /\ Served(k)' = Served(k) \union {t}
          /\ FirstTry(k)' = FirstTry(k)
      BY <2>2, <3>2, OtherCallers
    <3>4. /\ IsFiniteSet(Sent(k)') /\ Cardinality(Sent(k)') = Cardinality(Sent(k)) - 1
          /\ IsFiniteSet(Served(k)') /\ Cardinality(Served(k)') = Cardinality(Served(k)) + 1
      <4>1. IsFiniteSet(Sent(k)) /\ IsFiniteSet(Served(k))
        BY <1>0 DEF KeyInv
      <4>2. /\ IsFiniteSet(Sent(k) \ {t})
            /\ Cardinality(Sent(k) \ {t}) = Cardinality(Sent(k)) - 1
        BY <3>2, <4>1, FS_RemoveElement
      <4>3. /\ IsFiniteSet(Served(k) \union {t})
            /\ Cardinality(Served(k) \union {t}) = Cardinality(Served(k)) + 1
        BY <3>2, <4>1, FS_AddElement
      <4> QED
        BY <3>3, <4>2, <4>3
    <3> QED
      BY <1>0, <1>n, <2>1, <2>2, <3>1, <3>3, <3>4 DEF KeyInv
  <2> QED
    BY <2>4, <2>5
<1>7. ASSUME NEW t \in Callers, Wait(t) PROVE KeyInv(k)'
  <2>1. /\ pc[t] = "sent" /\ pc' = [pc EXCEPT ![t] = "served"] /\ req[t].op = "STCHGCB"
        /\ UNCHANGED <<table, req, retried, strays, appends, used>>
    BY <1>7 DEF Wait
  <2>2. Alone(t) /\ Cells(k)' = Cells(k) /\ StraysOf(k)' = StraysOf(k)
    BY <1>0, <1>7, <2>1, AppendAlone, CellsSame DEF StraysOf, Step
  <2>3. Sent(k)' = Sent(k) /\ Served(k)' = Served(k) /\ FirstTry(k)' = FirstTry(k)
    BY <2>1, <2>2, NotItsCaller DEF Appending
  <2> QED
    BY <1>0, <2>1, <2>2, <2>3, KeyUntouched
(* Receive: what has been appended is acknowledged.                        *)
<1>8. ASSUME NEW t \in Callers, Receive(t) PROVE KeyInv(k)'
  <2>1. /\ pc[t] = "served" /\ pc' = [pc EXCEPT ![t] = "idle"] /\ appends' = Counted(req[t], "ok")
        /\ UNCHANGED <<table, strays, used>>
    BY <1>8 DEF Receive, Return
  <2>2. Alone(t) /\ Cells(k)' = Cells(k) /\ StraysOf(k)' = StraysOf(k)
    BY <1>0, <1>8, <2>1, AppendAlone, CellsSame DEF StraysOf, Step
  <2>3. pc'[t] = "idle"
    BY <1>0, <2>1
  <2>4. CASE ~Appending(t, k)
    <3>1. Sent(k)' = Sent(k) /\ Served(k)' = Served(k) /\ FirstTry(k)' = FirstTry(k)
      BY <2>2, <2>3, <2>4, NotItsCaller
    <3>2. appends'[k] = appends[k]
      BY <1>0, <2>1, <2>4 DEF Counted, Appending
    <3> QED
      BY <1>0, <2>1, <2>2, <3>1, <3>2, KeyUntouched
  <2>5. CASE Appending(t, k)
    <3>1. /\ t \notin Sent(k) /\ t \notin Sent(k)' /\ t \in Served(k) /\ t \notin Served(k)'
          /\ t \notin FirstTry(k)'
      BY <2>1, <2>3, <2>5 DEF Sent, Served, FirstTry
    <3>2. /\ Sent(k)' = Sent(k) /\ Served(k)' = Served(k) \ {t}
          /\ FirstTry(k)' \subseteq FirstTry(k)
      BY <2>2, <3>1, OtherCallers
    <3>3. /\ appends'[k]["ok"] = appends[k]["ok"] + 1
          /\ appends'[k]["sent"] = appends[k]["sent"]
      BY <1>0, <2>1, <2>5 DEF Counted, Appending
    <3>4. IsFiniteSet(Served(k)') /\ Cardinality(Served(k)') = Cardinality(Served(k)) - 1
      BY <1>0, <3>1, <3>2, FS_RemoveElement DEF KeyInv
    <3>5. /\ IsFiniteSet(FirstTry(k)') /\ Cardinality(FirstTry(k)') \in Nat
          /\ Cardinality(FirstTry(k)') <= Cardinality(FirstTry(k))
      BY <1>0, <3>2, FewerElements DEF KeyInv
    <3>6. Length(k)' = Length(k) /\ used' = used
      BY <2>1, <2>2 DEF Length
    <3> QED
      BY <1>0, <1>n, <2>2, <3>2, <3>3, <3>4, <3>5, <3>6 DEF KeyInv
  <2> QED
    BY <2>4, <2>5
(* A connection breaks: what is left behind is no longer under way, and    *)
(* what is sent again was served before, or could be sent twice.           *)
<1>9. ASSUME NEW t \in Callers, Retry(t) \/ Fails(t) PROVE KeyInv(k)'
  <2>1. /\ pc[t] \in {"sent", "served"} /\ Leave(t) /\ UNCHANGED <<table, appends>>
        /\ used'["breaks"] # 0
    BY <1>9, <1>b DEF Retry, Fails
  <2>2. Alone(t) /\ Cells(k)' = Cells(k) /\ appends'[k] = appends[k]
    BY <1>9, <2>1, AppendAlone, CellsSame
  <2>3. \/ /\ ~retried[t] /\ pc'[t] = "sent" /\ retried'[t] /\ req'[t] = req[t]
        \/ pc'[t] = "idle"
    BY <1>0, <1>9 DEF Retry, Fails, Return
  <2>4. /\ ~Appending(t, k) => StraysOf(k)' = StraysOf(k)
        /\ pc[t] = "served" => StraysOf(k)' = StraysOf(k)
        /\ \E s : StraysOf(k)' \subseteq StraysOf(k) \union {s}
    BY <2>1, LeaveStrays
  <2>5. CASE ~Appending(t, k)
    <3>1. Sent(k)' = Sent(k) /\ Served(k)' = Served(k) /\ FirstTry(k)' = FirstTry(k)
      BY <2>2, <2>3, <2>5, NotItsCaller DEF Appending
    <3> QED
      BY <1>0, <2>1, <2>2, <2>4, <2>5, <3>1, KeyUntouched
  <2>6. CASE Appending(t, k)
    <3>0. IsFiniteSet(Sent(k)) /\ IsFiniteSet(Served(k)) /\ IsFiniteSet(FirstTry(k))
          /\ IsFiniteSet(StraysOf(k))
      BY <1>0 DEF KeyInv
    <3>1. t \notin Served(k)' /\ t \notin FirstTry(k)'
      BY <2>3 DEF Served, FirstTry
    <3>2. Served(k)' \subseteq Served(k) /\ FirstTry(k)' \subseteq FirstTry(k)
          /\ Sent(k)' \subseteq Sent(k) \union {t}
      BY <2>2, <3>1, OtherCallers
    <3>3. /\ IsFiniteSet(Served(k)') /\ Cardinality(Served(k)') \in Nat
          /\ Cardinality(Served(k)') <= Cardinality(Served(k))
          /\ IsFiniteSet(FirstTry(k)') /\ Cardinality(FirstTry(k)') \in Nat
          /\ Cardinality(FirstTry(k)') <= Cardinality(FirstTry(k))
          /\ FirstTry(k)' # FirstTry(k) => Cardinality(FirstTry(k)') <= Cardinality(FirstTry(k)) - 1
      BY <3>0, <3>2, FewerElements
    <3>4. /\ IsFiniteSet(Sent(k)') /\ Cardinality(Sent(k)') \in Nat
          /\ Cardinality(Sent(k)') <= Cardinality(Sent(k)) + 1
      BY <3>0, <3>2, OneMoreElement
    <3>5. /\ IsFiniteSet(StraysOf(k)') /\ Cardinality(StraysOf(k)') \in Nat
          /\ Cardinality(StraysOf(k)') <= Cardinality(StraysOf(k)) + 1
      BY <2>4, <3>0, OneMoreElement
    <3>6. Length(k)' = Length(k)
      BY <2>2 DEF Length
    <3>7. Cardinality(StraysOf(k)') + Cardinality(Sent(k)') + Cardinality(FirstTry(k)')
            <= Cardinality(StraysOf(k)) + Cardinality(Sent(k)) + Cardinality(FirstTry(k))
      <4>1. CASE pc[t] = "sent" /\ pc'[t] = "idle"
        <5>1. t \in Sent(k) /\ t \notin Sent(k)'
          BY <2>6, <4>1 DEF Sent
        <5>2. Sent(k)' \subseteq Sent(k) /\ Sent(k)' # Sent(k)
          BY <3>2, <5>1
        <5>3. Cardinality(Sent(k)') <= Cardinality(Sent(k)) - 1
          BY <3>0, <5>2, FewerElements
        <5> QED
          BY <1>n, <3>3, <3>4, <3>5, <5>3
      <4>2. CASE pc[t] = "sent" /\ pc'[t] = "sent"
        <5>1. t \in Sent(k)
          BY <2>6, <4>2 DEF Sent
        <5>2. Sent(k)' \subseteq Sent(k)
          BY <3>2, <5>1
        <5>3. Cardinality(Sent(k)') <= Cardinality(Sent(k))
          BY <3>0, <5>2, FewerElements
        <5>4. t \in FirstTry(k)
          BY <2>1, <2>3, <2>6, <4>2 DEF FirstTry
        <5> QED
          BY <1>n, <3>1, <3>3, <3>4, <3>5, <5>3, <5>4
      <4>3. CASE pc[t] = "served" /\ pc'[t] = "idle"
        <5>1. t \notin Sent(k)'
          BY <4>3 DEF Sent
        <5>2. Sent(k)' \subseteq Sent(k)
          BY <3>2, <5>1
        <5>3. Cardinality(Sent(k)') <= Cardinality(Sent(k))
          BY <3>0, <5>2, FewerElements
        <5> QED
          BY <1>n, <2>4, <3>3, <3>4, <4>3, <5>3
      <4>4. CASE pc[t] = "served" /\ pc'[t] = "sent"
        <5>1. t \in FirstTry(k)
          BY <2>1, <2>3, <2>6, <4>4 DEF FirstTry
        <5> QED
          BY <1>n, <2>4, <3>1, <3>3, <3>4, <4>4, <5>1
      <4> QED
        BY <2>1, <2>3, <4>1, <4>2, <4>3, <4>4
    <3> QED
      BY <1>0, <1>n, <2>1, <2>2, <3>3, <3>4, <3>5, <3>6, <3>7 DEF KeyInv
  <2> QED
    BY <2>5, <2>6
(* ServeStray: what was left behind is appended.                           *)
<1>10. ASSUME NEW s \in strays, ServeStray(s) PROVE KeyInv(k)'
  <2>1. /\ strays' = strays \ {s} /\ Store(s.node, s.req.key, Effect(table[s.node], s.req))
        /\ UNCHANGED <<call, appends, used>>
    BY <1>10 DEF ServeStray
  <2>2. /\ s.node \in Nodes /\ s.req.key \in Keys /\ s.req.op \notin {"LOOKUP", "STCHGCB"}
        /\ \E u \in Callers : s.req \in RequestsOf[u]
    BY DEF AppendInv, WitnessInv, StateInv
  <2>3. Sent(k)' = Sent(k) /\ Served(k)' = Served(k) /\ FirstTry(k)' = FirstTry(k)
    BY <2>1 DEF call, Sent, Served, FirstTry, Appending
  <2>4. CASE s.req.key # k
    <3>1. Cells(k)' = Cells(k)
      BY <1>5, <2>1, <2>2, <2>4
    <3>2. StraysOf(k)' = StraysOf(k)
      BY <2>1, <2>4 DEF StraysOf
    <3> QED
      BY <1>0, <2>1, <2>3, <3>1, <3>2, KeyUntouched
  <2>5. CASE s.req.key = k
    <3>1. s.req.op = "APPEND"
      BY <2>2, <2>5, AppendOrRead
    <3>2. IsFiniteSet(Cells(k)') /\ Length(k)' = Length(k) + 1
      BY <1>5, <2>1, <2>2, <2>5, <3>1
    <3>3. s \in StraysOf(k) /\ StraysOf(k)' = StraysOf(k) \ {s}
      BY <2>1, <2>5 DEF StraysOf
    <3>4. IsFiniteSet(StraysOf(k)') /\ Cardinality(StraysOf(k)') = Cardinality(StraysOf(k)) - 1
      BY <1>0, <3>3, FS_RemoveElement DEF KeyInv
    <3>5. used["breaks"] # 0
      BY <1>0, <3>3 DEF KeyInv
    <3> QED
      BY <1>0, <1>n, <2>1, <2>3, <3>2, <3>4, <3>5 DEF KeyInv
  <2> QED
    BY <2>4, <2>5
<1>11. CASE UNCHANGED vars
  BY <1>1, <1>11 DEF vars
<1> QED
  BY <1>2, <1>3, <1>4, <1>6, <1>7, <1>8, <1>9, <1>10, <1>11 DEF Next, Step

(* An APPEND that returned Ok is in the value, none is in it more than     *)
(* twice, and each once as long as no connection broke, whatever callers   *)
(* and nodes there are and however often connections break.                *)
THEOREM AppendsAccountedHolds == Spec => []AppendsAccounted
<1>1. ASSUME AppendInv, NEW k \in AppendOnly
      PROVE  /\ appends[k].ok <= Length(k)
             /\ Length(k) <= 2 * appends[k].sent
             /\ used.breaks = 0 /\ (\A t \in Callers : pc[t] = "idle") => Length(k) = appends[k].ok
  <2>1. KeyInv(k) /\ k \in Keys /\ appends \in [Keys -> [{"sent", "ok"} -> Nat]]
    BY <1>1 DEF AppendInv, AppendOnly
  <2>2. /\ Length(k) \in Nat /\ Cardinality(StraysOf(k)) \in Nat /\ Cardinality(Sent(k)) \in Nat
        /\ Cardinality(FirstTry(k)) \in Nat /\ Cardinality(Served(k)) \in Nat
        /\ appends[k]["sent"] \in Nat /\ appends[k]["ok"] \in Nat
    BY <2>1, FS_CardinalityType DEF KeyInv, Length
  <2>3. (\A t \in Callers : pc[t] = "idle") => Served(k) = {}
    BY DEF Served
  <2>4. Cardinality({}) = 0
    BY FS_EmptySet
  <2>5. /\ Length(k) <= 2 * appends[k]["sent"]
        /\ appends[k]["ok"] <= Length(k)
    BY <2>1, <2>2 DEF KeyInv
  <2>6. used["breaks"] = 0 /\ (\A t \in Callers : pc[t] = "idle") => Length(k) = appends[k]["ok"]
    <3>1. ASSUME used["breaks"] = 0, Served(k) = {} PROVE Length(k) = appends[k]["ok"]
      <4>1. Cardinality(Served(k)) = 0
        BY <2>4, <3>1
      <4>2. /\ appends[k]["ok"] + Cardinality(Served(k)) <= Length(k)
            /\ Length(k) <= appends[k]["ok"] + Cardinality(Served(k))
        BY <2>1, <3>1 DEF KeyInv
      <4> QED
        BY <2>2, <4>1, <4>2
    <3> QED
      BY <2>3, <3>1
  <2>7. /\ appends[k].ok = appends[k]["ok"] /\ appends[k].sent = appends[k]["sent"]
        /\ used.breaks = used["breaks"]
    OBVIOUS
  <2> QED
    BY <2>5, <2>6, <2>7
<1>2. AppendInv => AppendsAccounted
  BY <1>1 DEF AppendsAccounted
<1>3. AppendInv /\ [Next]_vars => AppendInv'
  <2> SUFFICES ASSUME AppendInv, [Next]_vars PROVE AppendInv'
    OBVIOUS
  <2>1. WitnessInv'
    BY WitnessStep DEF AppendInv
  <2>2. \A k \in AppendOnly : KeyInv(k)'
    BY KeyStep
  <2> QED
    BY <2>1, <2>2, AppendTypes DEF AppendInv, AppendOnly
<1> QED
  BY <1>2, <1>3, AppendInit, PTL DEF Spec

-----------------------------------------------------------------------------
(* The Mutex of a proxy.                                                   *)

AtNode(t) == pc[t] \in {"sent", "served"}

MutexInv ==
  /\ mutex \in [Clients -> Callers \union {Nobody}]
  /\ pc \in [Callers -> Ready]
  /\ \A t \in Callers : AtNode(t) => mutex[ClientOf[t]] = t
  /\ \A c \in Clients : mutex[c] # Nobody => ClientOf[mutex[c]] = c /\ AtNode(mutex[c])

LEMMA MutexInit == Init => MutexInv
BY DEF Init, MutexInv, AtNode, Ready

LEMMA MutexStep == MutexInv /\ [Next]_vars => MutexInv'
<1> SUFFICES ASSUME MutexInv, [Next]_vars PROVE MutexInv'
  OBVIOUS
<1>0. /\ mutex \in [Clients -> Callers \union {Nobody}] /\ pc \in [Callers -> Ready]
      /\ ClientOf \in [Callers -> Clients] /\ Nobody \notin Callers
  BY ClientAssumption DEF MutexInv, Nobody
<1>1. ASSUME mutex' = mutex, NEW t \in Callers, NEW place \in Ready,
             pc' = [pc EXCEPT ![t] = place],
             AtNode(t) <=> place \in {"sent", "served"}
      PROVE  MutexInv'
  <2>1. pc' \in [Callers -> Ready] /\ \A u \in Callers : AtNode(u)' <=> AtNode(u)
    BY <1>0, <1>1 DEF AtNode
  <2>2. \A c \in Clients : mutex[c] # Nobody => mutex[c] \in Callers
    BY <1>0
  <2>3. \A c \in Clients : mutex'[c] # Nobody => ClientOf[mutex'[c]] = c /\ AtNode(mutex[c])'
    BY <1>1, <2>1, <2>2 DEF MutexInv
  <2> QED
    BY <1>0, <1>1, <2>1, <2>3 DEF MutexInv, AtNode
<1>2. ASSUME NEW t \in Callers, Send(t) PROVE MutexInv'
  <2>1. /\ mutex[ClientOf[t]] = Nobody /\ mutex' = [mutex EXCEPT ![ClientOf[t]] = t]
        /\ pc[t] = "queued" /\ pc' = [pc EXCEPT ![t] = "sent"]
    BY <1>2 DEF Send
  <2>2. \A u \in Callers \ {t} : AtNode(u) => ClientOf[u] # ClientOf[t]
    BY <1>0, <2>1 DEF MutexInv
  <2> QED
    BY <1>0, <2>1, <2>2 DEF MutexInv, AtNode, Ready
<1>3. ASSUME NEW t \in Callers, AtNode(t), mutex' = [mutex EXCEPT ![ClientOf[t]] = Nobody],
             pc' = [pc EXCEPT ![t] = "idle"]
      PROVE  MutexInv'
  <2>1. mutex[ClientOf[t]] = t
    BY <1>3 DEF MutexInv
  <2>2. \A u \in Callers \ {t} : AtNode(u) => ClientOf[u] # ClientOf[t]
    BY <2>1 DEF MutexInv
  <2>3. \A c \in Clients \ {ClientOf[t]} : mutex[c] # t
    BY <1>0, <2>1 DEF MutexInv
  <2> QED
    BY <1>0, <1>3, <2>2, <2>3 DEF MutexInv, AtNode, Ready
<1>4. CASE UNCHANGED <<mutex, pc>>
  BY <1>0, <1>4 DEF MutexInv, AtNode
<1>5. ASSUME NEW c \in Clients, Initialize(c) \/ Teardown(c) PROVE MutexInv'
  BY <1>4, <1>5 DEF Initialize, Teardown, call
<1>6. ASSUME NEW t \in Callers, NEW r, Refuse(t, r) \/ Call(t, r) PROVE MutexInv'
  BY <1>1, <1>6 DEF Refuse, Call, Return, AtNode, Ready
<1>7. ASSUME NEW t \in Callers, Serve(t) \/ Wait(t) \/ Retry(t) PROVE MutexInv'
  BY <1>1, <1>7 DEF Serve, Wait, Retry, AtNode, Ready
<1>8. ASSUME NEW t \in Callers, Receive(t) \/ Fails(t) PROVE MutexInv'
  BY <1>3, <1>8 DEF Receive, Fails, Return, AtNode
<1>9. ASSUME NEW s \in strays, ServeStray(s) PROVE MutexInv'
  BY <1>4, <1>9 DEF ServeStray, call
<1> QED
  BY <1>2, <1>4, <1>5, <1>6, <1>7, <1>8, <1>9 DEF Next, Step, vars, call

(* "Protected by an async Mutex for safe concurrent access": of the        *)
(* callers that share a client, one at a time has a request at a node, and *)
(* it is the one with the Mutex, whatever retries and failures end a call. *)
THEOREM OneRequestPerClient ==
  Spec => [](\A t, u \in Callers :
               /\ AtNode(t) => mutex[ClientOf[t]] = t
               /\ AtNode(t) /\ AtNode(u) /\ ClientOf[t] = ClientOf[u] => t = u)
<1>1. MutexInv => \A t, u \in Callers :
                    /\ AtNode(t) => mutex[ClientOf[t]] = t
                    /\ AtNode(t) /\ AtNode(u) /\ ClientOf[t] = ClientOf[u] => t = u
  BY DEF MutexInv
<1> QED
  BY <1>1, MutexInit, MutexStep, PTL DEF Spec
=============================================================================
