------------------------------- MODULE Server -------------------------------
(***************************************************************************)
(* zht-server: ZHTServer from start to exit, as main.rs runs it.  The main *)
(* task is the accept loop and then the summary and the final flush; a     *)
(* task per connection serves requests; another one checks the heartbeats  *)
(* of the members.  The counters of ServerMetrics are atomics of their     *)
(* own, so a status is put together from loads at different times.         *)
(* Ctrl-C before its handler is installed ends the process like a crash    *)
(* and is left out.                                                        *)
(*                                                                         *)
(* HTWorker::process is one step here; HTWorker.tla has its inside.        *)
(***************************************************************************)
EXTENDS Membership, Config, FiniteSets

CONSTANTS Files,       \* what the server may find in its files: [zht, neighbors]
          PortArgs,    \* what --port may be: a port or NaN
          Conns,       \* the connections that clients make, each made once
          Vals, Absent,
          Loaded,      \* the entries of the database file at start
          MaxRequests, \* bound on the requests served
          MaxAging,    \* bound on the heartbeats that are missed
          MaxErrors,   \* bound on bind, accept and set_nodelay errors
          Local        \* the names under which this machine finds itself

ASSUME ServerAssumption ==
  /\ Absent \notin Vals
  /\ Loaded \in [Keys -> Vals \union {Absent}]
  /\ {MaxRequests, MaxAging, MaxErrors} \subseteq Nat
  /\ \A f \in Files :
       /\ f.neighbors = Missing \/ f.neighbors \in Seq(Seq(Token))
       /\ Load(f.zht, f.neighbors).nodes \in Seq(Hosts)

VARIABLES main,      \* where main() is
          config,    \* the files it has read, with --port
          cancelled, \* cancel_token
          checker,   \* the health checker task: "none", "running" or "over"
          conn,      \* per connection: where its handler is
          req,       \* per connection: the request being served
          table,     \* the store of the worker
          store,     \* the store of the server
          file,      \* what the database file holds
          metrics,   \* ServerMetrics: connections, messages for bytes
          ops,       \* total_operations of the worker's metrics
          status,    \* the status() of the summary
          used       \* how much of each bound is used up

vars == <<members, main, config, cancelled, checker, conn, req, table, store, file,
          metrics, ops, status, used>>

Request == (Keys \X Vals) \union (Keys \X {Absent})
NoRequest == << >>
EmptyTable == [k \in Keys |-> Absent]

Started ==
  /\ main = "boot" /\ cancelled = FALSE /\ checker = "none"
  /\ config \in [file : Files, port : PortArgs]
  /\ conn = [c \in Conns |-> "none"]
  /\ req = [c \in Conns |-> NoRequest]

(* new_with_store: the worker gets a NoVoHT::new() of its own.             *)
Wired ==
  /\ table = EmptyTable
  /\ store = Loaded
  /\ file = Loaded
  /\ ops = 0

NoMetrics == [accepted |-> 0, active |-> 0, received |-> 0, sent |-> 0]

(* The part of a ServerMetricsSnapshot that handlers count meanwhile.      *)
NoStatus == [ops |-> 0, received |-> 0, sent |-> 0]

Init ==
  /\ members = << >>
  /\ Started
  /\ Wired
  /\ metrics = NoMetrics
  /\ status = NoStatus
  /\ used = [requests |-> 0, aging |-> 0, errors |-> 0]

(* record_connection_accepted, record_connection_closed,                   *)
(* record_bytes_received, record_bytes_sent.                               *)
Accepted(m) == [m EXCEPT !.accepted = @ + 1, !.active = @ + 1]
Closed(m) == [m EXCEPT !.active = @ - 1]
Received(m) == [m EXCEPT !.received = @ + 1]
Sent(m) == [m EXCEPT !.sent = @ + 1]

Use(what, bound) ==
  /\ used[what] < bound
  /\ used' = [used EXCEPT ![what] = @ + 1]

Running == main \notin {"boot", "refused", "exited"}

-----------------------------------------------------------------------------
(* main up to the accept loop.  The protocol is checked and then not used: *)
(* every server is a TCP server.                                           *)
Loading == Load(config.file.zht, config.file.neighbors)
SelfHost ==
  Node("0.0.0.0", IF config.port = NaN THEN Loading.settings.port ELSE config.port)

Refuse ==
  /\ main = "boot"
  /\ \/ ~Loading.ok
     \/ Loading.settings.protocol \notin Protocols
  /\ main' = "refused"
  /\ UNCHANGED <<members, config, cancelled, checker, conn, req, table, store, file, metrics, ops, status, used>>

(* with_persistence(db_path)? cannot open or read the database.            *)
OpenFails ==
  /\ main = "boot"
  /\ Loading.ok /\ Loading.settings.protocol \in Protocols
  /\ Use("errors", MaxErrors)
  /\ main' = "refused"
  /\ UNCHANGED <<members, config, cancelled, checker, conn, req, table, store, file, metrics, ops, status>>

(* The server is built, the signal handler and the health checker spawned. *)
Boot ==
  /\ main = "boot"
  /\ Loading.ok /\ Loading.settings.protocol \in Protocols
  /\ members' = MembersFrom(Loading.nodes, SelfHost)
  /\ main' = "bind"
  /\ checker' = "running"
  /\ UNCHANGED <<config, cancelled, conn, req, table, store, file, metrics, ops, status, used>>

Bind ==
  /\ main = "bind"
  /\ main' = "serving"
  /\ UNCHANGED <<members, config, cancelled, checker, conn, req, table, store, file, metrics, ops, status, used>>

(* start returns the error, main logs it and goes on to the summary.       *)
BindFails ==
  /\ main = "bind"
  /\ Use("errors", MaxErrors)
  /\ main' = "abort"
  /\ UNCHANGED <<members, config, cancelled, checker, conn, req, table, store, file, metrics, ops, status>>

-----------------------------------------------------------------------------
(* The accept loop.  select! takes any branch that is ready, so that       *)
(* connections may still be accepted after the token was cancelled.        *)
Accept(c) ==
  /\ main = "serving"
  /\ conn[c] = "none"
  /\ conn' = [conn EXCEPT ![c] = "accepted"]
  /\ metrics' = Accepted(metrics)
  /\ UNCHANGED <<members, main, config, cancelled, checker, req, table, store, file, ops, status, used>>

(* Mutant: waits for the handlers to be done.                              *)
StopWhenIdle ==
  /\ main = "serving"
  /\ cancelled
  /\ \A c \in Conns : conn[c] \in {"none", "closed"}
  /\ main' = "abort"
  /\ UNCHANGED <<members, config, cancelled, checker, conn, req, table, store, file, metrics, ops, status, used>>

StopAccepting ==
  /\ main = "serving"
  /\ cancelled
  /\ main' = "abort"
  /\ UNCHANGED <<members, config, cancelled, checker, conn, req, table, store, file, metrics, ops, status, used>>

(* As for a failing bind.                                                  *)
AcceptError ==
  /\ main = "serving"
  /\ Use("errors", MaxErrors)
  /\ main' = "abort"
  /\ UNCHANGED <<members, config, cancelled, checker, conn, req, table, store, file, metrics, ops, status>>

(* Ctrl-C, or a call of shutdown.                                          *)
Shutdown ==
  /\ Running /\ ~cancelled
  /\ cancelled' = TRUE
  /\ UNCHANGED <<members, main, config, checker, conn, req, table, store, file, metrics, ops, status, used>>

-----------------------------------------------------------------------------
(* handle_connection_with_metrics.                                         *)
Handler(c, from, to) ==
  /\ Running
  /\ conn[c] = from
  /\ conn' = [conn EXCEPT ![c] = to]
  /\ UNCHANGED <<members, main, config, cancelled, checker, store, file, status>>

NodelaySet(c) ==
  /\ Handler(c, "accepted", "receive")
  /\ UNCHANGED <<req, table, metrics, ops, used>>

(* set_nodelay(true)? returns before the loop, and past the line that      *)
(* counts the connection as closed.                                        *)
NodelayFails(c) ==
  /\ Handler(c, "accepted", "failed")
  /\ Use("errors", MaxErrors)
  /\ UNCHANGED <<req, table, metrics, ops>>

Receive(c, r) ==
  /\ Handler(c, "receive", "process")
  /\ Use("requests", MaxRequests)
  /\ req' = [req EXCEPT ![c] = r]
  /\ metrics' = Received(metrics)
  /\ UNCHANGED <<table, ops>>

(* INSERT and REMOVE stand for the requests.                               *)
Process(c) ==
  /\ Handler(c, "process", "respond")
  /\ table' = [table EXCEPT ![req[c][1]] = req[c][2]]
  /\ ops' = ops + 1
  /\ UNCHANGED <<req, metrics, used>>

Respond(c) ==
  /\ Handler(c, "respond", "send")
  /\ metrics' = Sent(metrics)
  /\ req' = [req EXCEPT ![c] = NoRequest]
  /\ UNCHANGED <<table, ops, used>>

Send(c) ==
  /\ Handler(c, "send", "receive")
  /\ UNCHANGED <<req, table, metrics, ops, used>>

(* Mutant: a failing send returns at once.                                 *)
CloseUncounted(c) ==
  /\ \/ Handler(c, "receive", "closed")
     \/ Handler(c, "send", "closed")
  /\ metrics' = IF conn[c] = "receive" THEN Closed(metrics) ELSE metrics
  /\ UNCHANGED <<req, table, ops, used>>

(* The client has gone, which recv_message or send_message finds out.      *)
Close(c) ==
  /\ \/ Handler(c, "receive", "closed")
     \/ Handler(c, "send", "closed")
  /\ metrics' = Closed(metrics)
  /\ UNCHANGED <<req, table, ops, used>>

-----------------------------------------------------------------------------
(* spawn_health_checker.                                                   *)

(* Mutant: the last member is left out.                                    *)
HealthTickButLast ==
  /\ Running /\ checker = "running"
  /\ members' = [i \in 1..Len(members) |->
                   IF i < Len(members) /\ members[i].state = "Alive" /\ members[i].stale
                   THEN [members[i] EXCEPT !.state = "Suspect"]
                   ELSE members[i]]
  /\ UNCHANGED <<main, config, cancelled, checker, conn, req, table, store, file, metrics, ops, status, used>>

HealthTick ==
  /\ Running /\ checker = "running"
  /\ CheckHealth
  /\ UNCHANGED <<main, config, cancelled, checker, conn, req, table, store, file, metrics, ops, status, used>>

CheckerStops ==
  /\ Running /\ checker = "running"
  /\ cancelled
  /\ checker' = "over"
  /\ UNCHANGED <<members, main, config, cancelled, conn, req, table, store, file, metrics, ops, status, used>>

Aging(i) ==
  /\ Running
  /\ Use("aging", MaxAging)
  /\ HeartbeatAges(i)
  /\ UNCHANGED <<main, config, cancelled, checker, conn, req, table, store, file, metrics, ops, status>>

-----------------------------------------------------------------------------
(* The end of main: the background tasks are aborted, the status is read,  *)
(* the worker's metrics first, and the server's store is flushed.  The     *)
(* handlers go on until the runtime is dropped with main.                  *)
Main(from, to) ==
  /\ main = from
  /\ main' = to
  /\ UNCHANGED <<members, config, cancelled, conn, req, table, store, metrics, ops, used>>

AbortTasks ==
  /\ Main("abort", "status")
  /\ checker' = "over"
  /\ UNCHANGED <<file, status>>

UpdateWorkerMetrics ==
  /\ Main("status", "load")
  /\ status' = [status EXCEPT !.ops = ops]
  /\ UNCHANGED <<checker, file>>

(* Mutant: the two counters are mixed up.                                  *)
LoadSentTwice ==
  /\ Main("load", "load_sent")
  /\ status' = [status EXCEPT !.received = metrics.sent]
  /\ UNCHANGED <<checker, file>>

LoadReceived ==
  /\ Main("load", "load_sent")
  /\ status' = [status EXCEPT !.received = metrics.received]
  /\ UNCHANGED <<checker, file>>

LoadSent ==
  /\ Main("load_sent", "flush")
  /\ status' = [status EXCEPT !.sent = metrics.sent]
  /\ UNCHANGED <<checker, file>>

Flush ==
  /\ Main("flush", "exited")
  /\ file' = store
  /\ UNCHANGED <<checker, status>>

Ending == AbortTasks \/ UpdateWorkerMetrics \/ LoadReceived \/ LoadSent \/ Flush

Next ==
  \/ \E c \in Conns :
       \/ Accept(c) \/ NodelaySet(c) \/ NodelayFails(c)
       \/ \E r \in Request : Receive(c, r)
       \/ Process(c) \/ Respond(c) \/ Send(c) \/ Close(c)
  \/ Refuse \/ OpenFails \/ Boot \/ Bind \/ BindFails
  \/ StopAccepting \/ AcceptError \/ Shutdown
  \/ HealthTick \/ CheckerStops
  \/ \E i \in 1..Len(members) : Aging(i)
  \/ Ending

Spec == Init /\ [][Next]_vars

(* Tasks are run, the ticker ticks, and a select! that finds the token     *)
(* cancelled in every round takes that branch in the end.  Nothing is      *)
(* assumed of clients, connections or handlers.                            *)
Fairness ==
  /\ WF_vars(Bind) /\ WF_vars(StopAccepting) /\ WF_vars(Ending) /\ WF_vars(HealthTick)

FairSpec == Spec /\ Fairness

-----------------------------------------------------------------------------
(* Properties.                                                             *)

(* What start, the handlers and the health checker leave in the server's   *)
(* state stays within its types: no gauge falls below zero.                *)
TypeOK ==
  /\ MembershipTypeOK
  /\ main \in {"boot", "refused", "bind", "serving", "abort", "status", "load",
              "load_sent", "flush", "exited"}
  /\ config \in [file : Files, port : PortArgs]
  /\ cancelled \in BOOLEAN /\ checker \in {"none", "running", "over"}
  /\ conn \in [Conns -> {"none", "accepted", "receive", "process", "respond",
                         "send", "closed", "failed"}]
  /\ req \in [Conns -> Request \union {NoRequest}]
  /\ {table, store, file} \subseteq [Keys -> Vals \union {Absent}]
  /\ metrics \in [accepted : Nat, active : Nat, received : Nat, sent : Nat]
  /\ ops \in Nat
  /\ status \in [ops : Nat, received : Nat, sent : Nat]

(* The connections whose handlers have not ended.                          *)
Open == {c \in Conns : conn[c] \notin {"none", "closed", "failed"}}

(* "Currently active connections": the gauge misses none of them, and what *)
(* it counts besides, for ever, is no more than the errors there were; so  *)
(* it is exact as long as there were none.                                 *)
ActiveWithinErrors ==
  /\ Cardinality(Open) <= metrics.active
  /\ metrics.active <= Cardinality(Open) + used.errors

(* The same as it is documented, without the exception for errors.         *)
CurrentlyActive == metrics.active = Cardinality(Open)

(* status() loads its parts while handlers work, and yet never reports     *)
(* more operations than messages, since it asks the worker first.          *)
StatusOrdered == main \in {"load_sent", "flush", "exited"} => status.ops <= status.received

(* "share data via the same Arc": what the worker serves is what the       *)
(* server flushes, migrates and counts.                                    *)
SharedData == store = table

(* "Ordered list of neighbor nodes": a server that runs knows every node   *)
(* that a line of neighbor.conf names, itself excepted, in their order; it *)
(* never starts with fewer, whatever the other lines hold.                 *)
StartsAsConfigured ==
  main \in {"boot", "refused"} \/
    LET lines == config.file.neighbors
        naming == {i \in 1..Len(lines) : ~Skipped(lines[i]) /\ ~Names(lines[i], SelfHost)}
    IN  \E place \in [1..Len(members) -> naming] :
          /\ naming = {place[i] : i \in 1..Len(members)}
          /\ \A i, j \in 1..Len(members) : i < j => place[i] < place[j]
          /\ \A i \in 1..Len(members) : Names(lines[place[i]], members[i].host)

(* "Return the number of alive members (excluding self)": no member is     *)
(* this machine on the port that this server has bound.                    *)
SelfExcluded ==
  \A i \in 1..Len(members) :
    ~(members[i].host.host \in Local /\ members[i].host.port = SelfHost.port)

(* Ctrl-C ends the server, whatever its clients do.                        *)
ShutdownEnds == cancelled ~> main = "exited"

StaleAlive(h) ==
  \E i \in 1..Len(members) : members[i] = [host |-> h, state |-> "Alive", stale |-> TRUE]

(* "marks stale nodes as suspect": while the server runs, a member without *)
(* heartbeats is Alive no longer.                                          *)
StaleDetected ==
  \A h \in Hosts : StaleAlive(h) ~> ~StaleAlive(h) \/ checker = "over"
=============================================================================
