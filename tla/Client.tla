------------------------------- MODULE Client -------------------------------
(***************************************************************************)
(* zht-client: ZHTClient, its six operations and what they make of the     *)
(* answers, over the sendrecv of TcpProxy and the workers of the nodes.    *)
(* Of TcpProxy only what a client sees is kept: one call at a time for all *)
(* connections of a client, an attempt that breaks is repeated once, and   *)
(* a request of a broken connection that the node has read already may be  *)
(* executed at any time.  Tasks share a client (&self); init and teardown  *)
(* have it for themselves (&mut self).                                     *)
(***************************************************************************)
EXTENDS Handler, Config, SequencesExt

CONSTANTS Clients, Callers,
          ClientOf,    \* the client each caller uses
          Nodes,
          Neighbours,  \* per client: the list in its neighbor.conf
          HashOf,      \* gen_hash_str
          RequestsOf,  \* per caller: the calls it may make
          MaxSwitches, \* bound on the calls of init and teardown
          MaxCalls,    \* bound on the calls
          MaxBreaks    \* bound on the attempts that fail

Requests == [op : Opcodes, key : Keys \union {EmptyKey}, val : Values, newval : Values]

ASSUME ClientAssumption ==
  /\ ClientOf \in [Callers -> Clients]
  /\ Neighbours \in [Clients -> Seq(Nodes)]
  /\ HashOf \in [Keys -> Nat]
  /\ RequestsOf \in [Callers -> SUBSET Requests]
  /\ {MaxSwitches, MaxCalls, MaxBreaks} \subseteq Nat
  /\ "nobody" \notin Callers \* see Nobody

VARIABLES initialized, \* per client
          mutex,       \* per client: who holds the Mutex of its proxy
          table,       \* per node: the NoVoHT behind its worker
          pc,          \* where the call of each caller is
          req,         \* its request
          retried,     \* whether the attempt under way is the second
          reply,       \* the answer of the node, under way
          result,      \* what the call returned
          strays,      \* requests read from connections that broke since
          seen,        \* values its key has had during the call (history)
          appends,     \* per key: APPENDs begun and acknowledged (history)
          used         \* how much of each bound is used up

call == <<pc, req, retried, reply, result>>
vars == <<initialized, mutex, table, call, strays, seen, appends, used>>

Nobody == "nobody"
NoReply == [code |-> "", val |-> Absent]
NoRequest == [op |-> "LOOKUP", key |-> EmptyKey, val |-> << >>, newval |-> << >>]

Init ==
  /\ initialized = [c \in Clients |-> FALSE]
  /\ mutex = [c \in Clients |-> Nobody]
  /\ table = [n \in Nodes |-> Empty]
  /\ pc = [t \in Callers |-> "idle"]
  /\ req = [t \in Callers |-> NoRequest]
  /\ retried = [t \in Callers |-> FALSE]
  /\ reply = [t \in Callers |-> NoReply]
  /\ result = [t \in Callers |-> NoReply]
  /\ strays = {}
  /\ seen = [t \in Callers |-> {}]
  /\ appends = [k \in Keys |-> [sent |-> 0, ok |-> 0]]
  /\ used = [switches |-> 0, calls |-> 0, breaks |-> 0]

Use(what, bound) ==
  /\ used[what] < bound
  /\ used' = [used EXCEPT ![what] = @ + 1]

(* resolve_node: the node of a key in the list of a client.                *)
NodeOf(c, k) == ResolveNode(Neighbours[c], HashOf[k])

Home(t) == NodeOf(ClientOf[t], req[t].key)
Current(t) == table[Home(t)][req[t].key]
UsersOf(c) == {t \in Callers : ClientOf[t] = c}

(* An APPEND is begun, or acknowledged.                                    *)
Counted(r, what) == IF r.op = "APPEND" THEN [appends EXCEPT ![r.key][what] = @ + 1] ELSE appends

(* The call is over, and what it knew forgotten.                           *)
Return(t, code, val) ==
  /\ seen' = [seen EXCEPT ![t] = {}]
  /\ req' = [req EXCEPT ![t] = NoRequest]
  /\ pc' = [pc EXCEPT ![t] = "idle"]
  /\ retried' = [retried EXCEPT ![t] = FALSE]
  /\ result' = [result EXCEPT ![t] = [code |-> code, val |-> val]]

-----------------------------------------------------------------------------
(* init and teardown set a flag and nothing else: the pool of connections  *)
(* outlives both.  A second init, or a teardown before it, does nothing.    *)
Initialize(c) ==
  /\ ~initialized[c]
  /\ \A t \in UsersOf(c) : pc[t] = "idle"
  /\ Use("switches", MaxSwitches)
  /\ initialized' = [initialized EXCEPT ![c] = TRUE]
  /\ UNCHANGED <<mutex, table, call, strays, seen, appends>>

Teardown(c) ==
  /\ initialized[c]
  /\ \A t \in UsersOf(c) : pc[t] = "idle"
  /\ Use("switches", MaxSwitches)
  /\ initialized' = [initialized EXCEPT ![c] = FALSE]
  /\ UNCHANGED <<mutex, table, call, strays, seen, appends>>

(* ensure_initialized, check_key and resolve_node fail before anything is  *)
(* sent.                                                                   *)
Refusal(c, r) ==
  IF ~initialized[c] THEN "NotInitialized"
  ELSE IF r.key = EmptyKey THEN "EmptyKey"
  ELSE IF Neighbours[c] = << >> THEN "NoNodes" ELSE ""

Refuse(t, r) ==
  /\ pc[t] = "idle"
  /\ Refusal(ClientOf[t], r) # ""
  /\ Use("calls", MaxCalls)
  /\ Return(t, Refusal(ClientOf[t], r), Absent)
  /\ UNCHANGED <<initialized, mutex, table, reply, strays, appends>>

Call(t, r) ==
  /\ pc[t] = "idle"
  /\ Refusal(ClientOf[t], r) = ""
  /\ Use("calls", MaxCalls)
  /\ req' = [req EXCEPT ![t] = r]
  /\ result' = [result EXCEPT ![t] = NoReply]
  /\ pc' = [pc EXCEPT ![t] = "queued"]
  /\ seen' = [seen EXCEPT ![t] = {table[NodeOf(ClientOf[t], r.key)][r.key]}]
  /\ UNCHANGED <<initialized, mutex, table, retried, reply, strays, appends>>

(* The Mutex is taken and the request written.                             *)
Send(t) ==
  /\ pc[t] = "queued"
  /\ mutex[ClientOf[t]] = Nobody
  /\ mutex' = [mutex EXCEPT ![ClientOf[t]] = t]
  /\ pc' = [pc EXCEPT ![t] = "sent"]
  /\ appends' = Counted(req[t], "sent")
  /\ UNCHANGED <<initialized, table, req, retried, reply, result, strays, seen, used>>

-----------------------------------------------------------------------------
(* The node.                                                               *)

Store(n, k, v) ==
  /\ table' = [table EXCEPT ![n][k] = v]
  /\ seen' = [t \in Callers |->
                IF pc[t] # "idle" /\ Home(t) = n /\ req[t].key = k
                THEN seen[t] \union {v} ELSE seen[t]]

Serve(t) ==
  /\ pc[t] = "sent"
  /\ req[t].op # "STCHGCB"
  /\ Store(Home(t), req[t].key, Effect(table[Home(t)], req[t]))
  /\ reply' = [reply EXCEPT ![t] = Response(table[Home(t)], req[t])]
  /\ pc' = [pc EXCEPT ![t] = "served"]
  /\ UNCHANGED <<initialized, mutex, req, retried, result, strays, appends, used>>

(* STATE_CHANGE_CALLBACK: a poll that matches, or the first that misses    *)
(* with the lease expired.  When that is, is HTWorker's concern.           *)
Wait(t) ==
  /\ pc[t] = "sent"
  /\ req[t].op = "STCHGCB"
  /\ reply' = [reply EXCEPT ![t] =
                 [code |-> IF Current(t) = req[t].val THEN "000" ELSE "-04", val |-> Absent]]
  /\ pc' = [pc EXCEPT ![t] = "served"]
  /\ UNCHANGED <<initialized, mutex, table, req, retried, result, strays, seen, appends, used>>

-----------------------------------------------------------------------------
(* The connection breaks: the node may have read the request by then, of   *)
(* which nothing more is seen if it only reads.                            *)
Leave(t) ==
  \/ UNCHANGED strays
  \/ /\ pc[t] = "sent"
     /\ req[t].op \notin {"LOOKUP", "STCHGCB"}
     /\ strays' = strays \union {[id |-> used.breaks, node |-> Home(t), req |-> req[t]]}

(* Mutant: an attempt that breaks is repeated as often as it breaks.       *)
RetryAgain(t) ==
  /\ pc[t] \in {"sent", "served"}
  /\ Use("breaks", MaxBreaks)
  /\ Leave(t)
  /\ pc' = [pc EXCEPT ![t] = "sent"]
  /\ reply' = [reply EXCEPT ![t] = NoReply]
  /\ retried' = [retried EXCEPT ![t] = TRUE]
  /\ UNCHANGED <<initialized, mutex, table, req, result, seen, appends>>

(* Once, the request is written to a new connection.                       *)
Retry(t) ==
  /\ pc[t] \in {"sent", "served"}
  /\ ~retried[t]
  /\ Use("breaks", MaxBreaks)
  /\ Leave(t)
  /\ pc' = [pc EXCEPT ![t] = "sent"]
  /\ reply' = [reply EXCEPT ![t] = NoReply]
  /\ retried' = [retried EXCEPT ![t] = TRUE]
  /\ UNCHANGED <<initialized, mutex, table, req, result, seen, appends>>

(* Mutant: the Mutex is not released on the way out.                       *)
FailsLocked(t) ==
  /\ pc[t] \in {"sent", "served"}
  /\ Use("breaks", MaxBreaks)
  /\ Leave(t)
  /\ reply' = [reply EXCEPT ![t] = NoReply]
  /\ Return(t, "Transport", Absent)
  /\ UNCHANGED <<initialized, mutex, table, appends>>

(* The second attempt fails, or the first in a way that is not taken for a *)
(* broken connection, or no connection is made: Err.                       *)
Fails(t) ==
  /\ pc[t] \in {"sent", "served"}
  /\ Use("breaks", MaxBreaks)
  /\ Leave(t)
  /\ mutex' = [mutex EXCEPT ![ClientOf[t]] = Nobody]
  /\ reply' = [reply EXCEPT ![t] = NoReply]
  /\ Return(t, "Transport", Absent)
  /\ UNCHANGED <<initialized, table, appends>>

(* Its request is executed after all, and the answer lost.                 *)
ServeStray(s) ==
  /\ strays' = strays \ {s}
  /\ Store(s.node, s.req.key, Effect(table[s.node], s.req))
  /\ UNCHANGED <<initialized, mutex, call, appends, used>>

-----------------------------------------------------------------------------
(* Mutant: a mismatch is not told from success.                            *)
InterpretedSwapped(op, status) ==
  CASE status = "000" -> "Ok"
    [] status = "-92" /\ op \in {"LOOKUP", "REMOVE", "CMPSWP"} -> "KeyNotFound"
    [] status = "-04" /\ op = "STCHGCB" -> "LeaseExpired"
    [] op = "CMPSWP" /\ status \notin {"000", "-92"} -> "Ok"
    [] OTHER -> "Internal"

(* The result the client makes of a status.  compare_swap returns every    *)
(* status it does not know as Ok.                                          *)
Interpreted(op, status) ==
  CASE status = "000" -> "Ok"
    [] status = "-92" /\ op \in {"LOOKUP", "REMOVE", "CMPSWP"} -> "KeyNotFound"
    [] status = "-02" /\ op = "CMPSWP" -> "CasMismatch"
    [] status = "-04" /\ op = "STCHGCB" -> "LeaseExpired"
    [] status = "-01" /\ op = "INSERT" -> "EmptyKey"
    [] op = "CMPSWP" /\ status \notin {"000", "-92", "-02"} -> "Ok"
    [] OTHER -> "Internal"

Receive(t) ==
  /\ pc[t] = "served"
  /\ mutex' = [mutex EXCEPT ![ClientOf[t]] = Nobody]
  /\ reply' = [reply EXCEPT ![t] = NoReply]
  /\ Return(t, Interpreted(req[t].op, reply[t].code), reply[t].val)
  /\ appends' = Counted(req[t], "ok")
  /\ UNCHANGED <<initialized, table, strays, used>>

Step(t) == Send(t) \/ Serve(t) \/ Wait(t) \/ Receive(t)

Next ==
  \/ \E c \in Clients : Initialize(c) \/ Teardown(c)
  \/ \E t \in Callers : \E r \in RequestsOf[t] : Refuse(t, r) \/ Call(t, r)
  \/ \E t \in Callers : Step(t) \/ Retry(t) \/ Fails(t)
  \/ \E s \in strays : ServeStray(s)

Spec == Init /\ [][Next]_vars

(* Tasks and handlers are run, tokio's Mutex is fair, leases expire.       *)
Fairness ==
  \A t \in Callers : SF_vars(Send(t)) /\ WF_vars(Serve(t) \/ Wait(t) \/ Receive(t))

FairSpec == Spec /\ Fairness

-----------------------------------------------------------------------------
(* Properties.                                                             *)

Results == {"", "Ok", "KeyNotFound", "CasMismatch", "LeaseExpired", "EmptyKey",
            "NotInitialized", "NoNodes", "Internal", "Transport"}

(* What the operations and the nodes leave in their state stays within its *)
(* types: the Mutex is with a caller whose request is under way.           *)
TypeOK ==
  /\ initialized \in [Clients -> BOOLEAN]
  /\ table \in [Nodes -> Tables]
  /\ pc \in [Callers -> {"idle", "queued", "sent", "served"}]
  /\ \A t \in Callers : req[t] \in RequestsOf[t] \union {NoRequest}
  /\ retried \in [Callers -> BOOLEAN]
  /\ reply \in [Callers -> [code : {"", "000", "-92", "-02", "-04"}, val : Values \union {Absent}]]
  /\ result \in [Callers -> [code : Results, val : Values \union {Absent}]]
  /\ strays \subseteq [id : 0..MaxBreaks, node : Nodes, req : Requests]
  /\ \A c \in Clients :
       mutex[c] \in {Nobody} \union {t \in UsersOf(c) : pc[t] \in {"sent", "served"}}

(* What r returning res tells of the values its key has had meanwhile.  No *)
(* value is the empty string that an answer without one is read as.        *)
Tells(r, res, values) ==
  LET Is(op, code) == r.op = op /\ res.code = code
  IN  /\ Is("LOOKUP", "Ok") => res.val \in values \ {Absent}
      /\ Is("LOOKUP", "KeyNotFound") => Absent \in values
      /\ Is("INSERT", "Ok") => r.val \in values
      /\ Is("REMOVE", "Ok") \/ Is("REMOVE", "KeyNotFound") => Absent \in values
      /\ Is("APPEND", "Ok") => \E v \in values \ {Absent} : IsSuffix(r.val, v)
      /\ Is("CMPSWP", "Ok") => r.newval \in values /\ res.val = Absent
      /\ Is("CMPSWP", "CasMismatch") => res.val \in values \ {Absent, r.val, r.newval}
      /\ Is("STCHGCB", "Ok") => r.val \in values
      /\ Is("STCHGCB", "LeaseExpired") => values \ {r.val} # {}

Returns(t) == pc[t] = "served" /\ pc'[t] = "idle"

(* What a call returns was so at its node at some time while it lasted,    *)
(* whatever other clients, retries and stray requests do meanwhile: a      *)
(* lookup returns a value its key had, "KeyNotFound" means it had none, a  *)
(* write that returns Ok was there to be seen, a CAS mismatch names a      *)
(* value that did not match.  A swap that returns Ok was there to be seen  *)
(* too, but the value it returns is always the empty string.  parse_status *)
(* and the match on its result.                                            *)
Witnessed == [][\A t \in Callers : Returns(t) => Tells(req[t], result'[t], seen[t])]_vars

(* compare_swap "returns the actual current value (regardless of whether   *)
(* the swap succeeded)", as its documentation has it.  The code violates   *)
(* it: a swap that succeeded is answered without a value.                  *)
SwapReturnsCurrent ==
  [][\A t \in Callers :
       Returns(t) /\ req[t].op = "CMPSWP" /\ result'[t].code \in {"Ok", "CasMismatch"}
         => result'[t].val \in seen[t] \ {Absent}]_vars

(* Keys that callers only append to, an atom at a time, or read.           *)
AppendOnly ==
  {k \in Keys : \A t \in Callers : \A r \in RequestsOf[t] :
     r.key = k => \/ r.op \in {"LOOKUP", "STCHGCB"}
                  \/ r.op = "APPEND" /\ Len(r.val) = 1}

(* Where the atoms of a key's values are, at all nodes that have it.       *)
Cells(k) ==
  UNION {{n} \X (1..Len(table[n][k])) : n \in {m \in Nodes : table[m][k] # Absent}}

Length(k) == Cardinality(Cells(k))

(* An APPEND that returned Ok is in the value; there is one retry, so none *)
(* is in it more than twice, whatever broken connections have left behind; *)
(* and once each, as long as none broke.                                   *)
AppendsAccounted ==
  \A k \in AppendOnly :
    /\ appends[k].ok <= Length(k)
    /\ Length(k) <= 2 * appends[k].sent
    /\ used.breaks = 0 /\ (\A t \in Callers : pc[t] = "idle") => Length(k) = appends[k].ok

(* Every call returns: those queued behind a wait of the same client, and  *)
(* those whose connection breaks under them.                               *)
CallsReturn == \A t \in Callers : pc[t] # "idle" ~> pc[t] = "idle"
=============================================================================
