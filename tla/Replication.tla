---------------------------- MODULE Replication ----------------------------
(***************************************************************************)
(* zht-server: ReplicatedHTWorker and ReplicationManager at one node.  A   *)
(* write is executed here and answered; a task of its own then sends it to *)
(* one replica after the other with TcpProxy::send_only, which waits for   *)
(* the pool's Mutex, makes the connection if there is none, and returns    *)
(* after the write.  The handler at the replica executes what comes and    *)
(* answers it, and nobody reads the answers.                               *)
(*                                                                         *)
(* A connection carries as many requests and answers as its buffers take.  *)
(***************************************************************************)
EXTENDS Membership, FiniteSets

CONSTANTS Ops,                  \* operations of the clients
          Vals,
          NumReplicas,          \* num_replicas; replication_type is 1
          MaxReconnectAttempts, \* MAX_RECONNECT_ATTEMPTS
          Buffer,               \* messages a direction of a connection holds
          MaxWrites,            \* bound on the writes
          MaxEvents             \* bound on membership changes and failures

ASSUME ReplicationAssumption ==
  /\ Ops \subseteq {"INSERT", "APPEND", "REMOVE", "CMPSWP"}
  /\ Buffer \in Nat \ {0}
  /\ {NumReplicas, MaxReconnectAttempts, MaxWrites, MaxEvents} \subseteq Nat

VARIABLES primary,  \* the store of this node
          write,    \* the writes executed here, in order
          stage,    \* per write: where its replication task is
          todo,     \* per write: the replicas it has not been sent to
          attempts, \* per write: reconnections of the current send_only
          queue,    \* tasks at the pool Mutex, the first one holds it
          link,     \* per node: its connection, "none", "open" or "reset"
          sent,     \* per node: writes in the connection
          unread,   \* per node: answers in the connection
          stray,    \* writes in the hands of handlers of lost connections
          up,       \* the nodes that accept connections
          replica,  \* the stores of the other nodes
          chosen,   \* per write: the replicas it was to be sent to (history)
          applied,  \* per node and write: how often it was executed (history)
          excused,  \* <<node, key>> excused from Converges (history)
          events    \* how many changes and failures there were

task == <<write, stage, todo, attempts, queue>>
network == <<link, sent, unread, stray, up>>
remote == <<replica, applied>>
history == <<chosen, excused>>
vars == <<members, primary, task, network, remote, history, events>>

Others == Hosts \ {Self}
Writes == 1..MaxWrites

(* What an operation makes of the value of a key; values are sequences.    *)
Result(op, old, v) ==
  CASE op = "INSERT" -> <<v>>
    [] op = "REMOVE" -> << >>
    [] op = "APPEND" -> Append(old, v)
    [] op = "CMPSWP" -> <<v>>

(* get_replica_nodes: the NumReplicas members after the one that owns the  *)
(* key, this node not being one of them.                                   *)
Replicas(k) ==
  IF Active = << >> THEN << >>
  ELSE [i \in 1..NumReplicas |-> Active[((HashOf[k] + i) % Len(Active)) + 1]]

(* How often the list of replicas names a node.                            *)
Named(list, h) == Cardinality({i \in 1..Len(list) : list[i] = h})

Init ==
  /\ InitMembers
  /\ primary = [k \in Keys |-> << >>]
  /\ write = << >>
  /\ stage = [w \in Writes |-> "none"]
  /\ todo = [w \in Writes |-> << >>]
  /\ attempts = [w \in Writes |-> 0]
  /\ queue = << >>
  /\ link = [h \in Others |-> "none"]
  /\ sent = [h \in Others |-> << >>]
  /\ unread = [h \in Others |-> 0]
  /\ stray = {}
  /\ up = Others
  /\ replica = [h \in Others |-> [k \in Keys |-> << >>]]
  /\ chosen = [w \in Writes |-> << >>]
  /\ applied = [h \in Others |-> [w \in Writes |-> 0]]
  /\ excused = {}
  /\ events = 0

Event == events < MaxEvents /\ events' = events + 1

(* A write to k is still on its way to some replica.                       *)
InFlight(k) ==
  \E w \in 1..Len(write) :
    /\ write[w].key = k
    /\ \/ stage[w] # "done"
       \/ \E h \in Others : (\E i \in 1..Len(sent[h]) : sent[h][i] = w) \/ <<h, w>> \in stray

-----------------------------------------------------------------------------
(* process_with_replication: execute, and spawn the task if the operation  *)
(* succeeded.  A swap succeeds but its task does nothing.                  *)
Process(op, k, v) ==
  /\ Len(write) < MaxWrites
  /\ op = "REMOVE" => primary[k] # << >>
  /\ primary' = [primary EXCEPT ![k] = Result(op, @, v)]
  /\ write' = Append(write, [op |-> op, key |-> k, val |-> v])
  /\ stage' = [stage EXCEPT ![Len(write) + 1] = IF op = "CMPSWP" THEN "done" ELSE "spawned"]
  /\ excused' = IF op = "CMPSWP" \/ InFlight(k) THEN excused \union (Others \X {k}) ELSE excused
  /\ UNCHANGED <<members, todo, attempts, queue, network, remote, chosen, events>>

(* The task runs: the replicas are chosen among the members of this moment.*)
Resolve(w) ==
  /\ stage[w] = "spawned"
  /\ todo' = [todo EXCEPT ![w] = Replicas(write[w].key)]
  /\ chosen' = [chosen EXCEPT ![w] = todo'[w]]
  /\ excused' = IF write[w].op = "APPEND"
                THEN excused \union {<<h, write[w].key>> : h \in {g \in Others : Named(todo'[w], g) > 1}}
                ELSE excused
  /\ stage' = [stage EXCEPT ![w] = IF todo'[w] = << >> THEN "done" ELSE "next"]
  /\ UNCHANGED <<members, primary, write, attempts, queue, network, remote, events>>

SendOnly(w) ==
  /\ stage[w] = "next"
  /\ queue' = Append(queue, w)
  /\ attempts' = [attempts EXCEPT ![w] = 0]
  /\ stage' = [stage EXCEPT ![w] = "send"]
  /\ UNCHANGED <<members, primary, write, todo, network, remote, history, events>>

(* Mutant: the Mutex is kept.                                              *)
ReturnLocked(w) ==
  /\ UNCHANGED queue
  /\ todo' = [todo EXCEPT ![w] = Tail(@)]
  /\ stage' = [stage EXCEPT ![w] = IF Len(todo[w]) = 1 THEN "done" ELSE "next"]
  /\ UNCHANGED <<members, primary, write, attempts, remote, chosen, events>>

(* send_only returns, and the loop goes on whatever it returned.           *)
Return(w) ==
  /\ queue' = Tail(queue)
  /\ todo' = [todo EXCEPT ![w] = Tail(@)]
  /\ stage' = [stage EXCEPT ![w] = IF Len(todo[w]) = 1 THEN "done" ELSE "next"]
  /\ UNCHANGED <<members, primary, write, attempts, remote, chosen, events>>

(* The write at the Mutex, its target, and what failing it excuses.        *)
Holds(w) == queue # << >> /\ Head(queue) = w /\ stage[w] = "send"
Target(w) == Head(todo[w])
Excuse(w) == excused' = excused \union {<<Target(w), write[w].key>>}

Connect(w) ==
  /\ Holds(w)
  /\ link[Target(w)] = "none" /\ Target(w) \in up
  /\ link' = [link EXCEPT ![Target(w)] = "open"]
  /\ UNCHANGED <<members, primary, task, sent, unread, stray, up, remote, history, events>>

(* Mutant: the first error ends the loop over the replicas.                *)
ConnectFailsForAll(w) ==
  /\ Holds(w)
  /\ link[Target(w)] = "none" /\ Target(w) \notin up
  /\ queue' = Tail(queue)
  /\ todo' = [todo EXCEPT ![w] = << >>]
  /\ stage' = [stage EXCEPT ![w] = "done"]
  /\ Excuse(w)
  /\ UNCHANGED <<members, primary, write, attempts, remote, chosen, events, network>>

ConnectFails(w) ==
  /\ Holds(w)
  /\ link[Target(w)] = "none" /\ Target(w) \notin up
  /\ Return(w)
  /\ Excuse(w)
  /\ UNCHANGED network

(* Mutant: goes on with the loop instead of returning.                     *)
WriteAgain(w) ==
  /\ Holds(w)
  /\ link[Target(w)] = "open" /\ Len(sent[Target(w)]) < Buffer
  /\ sent' = [sent EXCEPT ![Target(w)] = Append(@, w)]
  /\ UNCHANGED <<members, primary, task, link, unread, stray, up, remote, history, events>>

Write(w) ==
  /\ Holds(w)
  /\ link[Target(w)] = "open" /\ Len(sent[Target(w)]) < Buffer
  /\ sent' = [sent EXCEPT ![Target(w)] = Append(@, w)]
  /\ Return(w)
  /\ UNCHANGED <<link, unread, stray, up, excused>>

(* A write into a connection whose other end has gone may still succeed.   *)
WriteLost(w) ==
  /\ Holds(w)
  /\ link[Target(w)] = "reset"
  /\ Return(w)
  /\ Excuse(w)
  /\ UNCHANGED network

(* A broken pipe or a reset: forget the connection and start over, once.   *)
Broken(w) ==
  /\ Holds(w)
  /\ link[Target(w)] = "reset"
  /\ link' = [link EXCEPT ![Target(w)] = "none"]
  /\ attempts[w] + 1 <= MaxReconnectAttempts
  /\ attempts' = [attempts EXCEPT ![w] = @ + 1]
  /\ UNCHANGED <<members, primary, write, stage, todo, queue, sent, unread, stray, up, remote, history, events>>

GivesUp(w) ==
  /\ Holds(w)
  /\ link[Target(w)] = "reset"
  /\ link' = [link EXCEPT ![Target(w)] = "none"]
  /\ attempts[w] + 1 > MaxReconnectAttempts
  /\ Return(w)
  /\ Excuse(w)
  /\ UNCHANGED <<sent, unread, stray, up>>

-----------------------------------------------------------------------------
(* The other nodes.                                                        *)

Execute(h, w) ==
  /\ replica' = [replica EXCEPT ![h][write[w].key] = Result(write[w].op, @, write[w].val)]
  /\ applied' = [applied EXCEPT ![h][w] = @ + 1]

(* handle_connection: the answer to a request must fit into the buffer     *)
(* before the next request is read.                                        *)
Serve(h) ==
  /\ link[h] = "open" /\ sent[h] # << >>
  /\ unread[h] <= Buffer
  /\ Execute(h, Head(sent[h]))
  /\ sent' = [sent EXCEPT ![h] = Tail(@)]
  /\ unread' = [unread EXCEPT ![h] = @ + 1]
  /\ UNCHANGED <<members, primary, task, link, stray, up, history, events>>

ServeStray(h, w) ==
  /\ <<h, w>> \in stray
  /\ stray' = stray \ {<<h, w>>}
  /\ Execute(h, w)
  /\ UNCHANGED <<members, primary, task, link, sent, unread, up, history, events>>

(* The connection breaks with what is in it; the handler may have read the *)
(* first of the requests already.                                          *)
Break(h) ==
  /\ link[h] = "open"
  /\ Event
  /\ link' = [link EXCEPT ![h] = "reset"]
  /\ sent' = [sent EXCEPT ![h] = << >>]
  /\ unread' = [unread EXCEPT ![h] = 0]
  /\ stray' = stray \union (IF sent[h] = << >> THEN {} ELSE {<<h, Head(sent[h])>>})
  /\ excused' = excused \union {<<h, write[w].key>> : w \in ToSet(sent[h])}
  /\ UNCHANGED <<members, primary, task, up, remote, chosen>>

(* A node does not accept connections for a while.                         *)
Goes(h) ==
  /\ h \in up
  /\ Event
  /\ up' = up \ {h}
  /\ UNCHANGED <<members, primary, task, link, sent, unread, stray, remote, history>>

Comes(h) ==
  /\ h \in Others \ up
  /\ up' = up \union {h}
  /\ UNCHANGED <<members, primary, task, link, sent, unread, stray, remote, history, events>>

(* A node that becomes a replica of a key has missed what was written to   *)
(* it before: nothing of it is sent again.                                 *)
MembershipChanges ==
  /\ Event
  /\ MembershipNext
  /\ excused' = excused \union
       {p \in Others \X Keys : p[1] \in ToSet(Replicas(p[2]))' \ ToSet(Replicas(p[2]))}
  /\ UNCHANGED <<primary, task, network, remote, chosen>>

Step(w) ==
  \/ Resolve(w) \/ SendOnly(w)
  \/ Connect(w) \/ ConnectFails(w) \/ Write(w) \/ WriteLost(w) \/ Broken(w) \/ GivesUp(w)

Next ==
  \/ \E op \in Ops, k \in Keys, v \in Vals : Process(op, k, v)
  \/ \E w \in 1..Len(write) : Step(w)
  \/ \E h \in Others : Serve(h) \/ Break(h) \/ Goes(h) \/ Comes(h)
  \/ \E h \in Others, w \in Writes : ServeStray(h, w)
  \/ MembershipChanges

Spec == Init /\ [][Next]_vars

(* The tasks are run, and the handler of an open connection goes on        *)
(* serving as long as its answers fit into the buffer.                     *)
Fairness ==
  /\ \A w \in Writes : WF_vars(w <= Len(write) /\ Step(w))
  /\ \A h \in Others : WF_vars(Serve(h))

FairSpec == Spec /\ Fairness

-----------------------------------------------------------------------------
(* Properties.                                                             *)

(* What the replication tasks leave in the queue, the connections and the  *)
(* stores stays within its types: no attempt beyond the maximum, and no    *)
(* more in a connection than fits.                                         *)
TypeOK ==
  /\ MembershipTypeOK
  /\ primary \in [Keys -> Seq(Vals)]
  /\ write \in Seq([op : Ops, key : Keys, val : Vals]) /\ Len(write) <= MaxWrites
  /\ stage \in [Writes -> {"none", "spawned", "next", "send", "done"}]
  /\ todo \in [Writes -> Seq(Others)]
  /\ attempts \in [Writes -> 0..MaxReconnectAttempts]
  /\ queue \in Seq(Writes)
  /\ link \in [Others -> {"none", "open", "reset"}]
  /\ \A h \in Others : sent[h] \in Seq(Writes) /\ Len(sent[h]) <= Buffer
  /\ unread \in [Others -> 0..Buffer + 1]
  /\ stray \subseteq Others \X Writes
  /\ up \subseteq Others
  /\ replica \in [Others -> [Keys -> Seq(Vals)]]
  /\ chosen \in [Writes -> Seq(Others)]
  /\ applied \in [Others -> [Writes -> Nat]]
  /\ excused \subseteq Others \X Keys

(* However send_only reconnects and retries, no replica executes a write   *)
(* more often than the list of its replicas names it.                      *)
AppliedAsListed ==
  \A h \in Others, w \in Writes : applied[h][w] <= Named(chosen[w], h)

(* The tasks of different writes are not ordered, failures are only logged,*)
(* swaps are not replicated and a replica that is listed twice appends     *)
(* twice.  But a replica of a key that none of this has happened to agrees *)
(* with this node once the tasks are done, whoever joins or leaves.        *)
Converges ==
  \A k \in Keys : \A h \in ToSet(Replicas(k)) :
    <<h, k>> \notin excused /\ ~InFlight(k) => replica[h][k] = primary[k]

(* The task at the Mutex cannot write: the connection is full of requests, *)
(* and the replica reads none as nobody reads its answers.                 *)
Clogged ==
  \E w \in Writes :
    /\ Holds(w) /\ link[Target(w)] = "open"
    /\ Len(sent[Target(w)]) = Buffer /\ unread[Target(w)] > Buffer

(* Every replication task ends and gives the Mutex back to the others,     *)
(* unless in the end one of them holds it for ever at a connection that is *)
(* full: no unreachable node, no broken connection, no retry and no other  *)
(* task keeps a task from its end.  send_only has no timeout and reads no  *)
(* answers, so that the code does stop at a full connection.               *)
TasksEnd == (\A w \in Writes : stage[w] = "spawned" ~> stage[w] = "done") \/ <>[]Clogged

(* What "fire-and-forget" lets one expect of send_only: that a task ends   *)
(* whatever has become of the answers.  Violated at a full connection.     *)
TasksAlwaysEnd == \A w \in Writes : stage[w] = "spawned" ~> stage[w] = "done"
=============================================================================
