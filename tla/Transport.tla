----------------------------- MODULE Transport -----------------------------
(***************************************************************************)
(* zht-transport, factory.rs and traits.rs: TransportFactory and the enums *)
(* that it makes, over udp.rs and tcp.rs.  A behaviour is about what one   *)
(* process creates: a client by protocol, with the UDP server it talks to, *)
(* or a TCP server.  A proxy may be used without the enum as well.  The    *)
(* files are not compiled at this commit.                                  *)
(***************************************************************************)
EXTENDS Udp, TcpPool, TcpServer

CONSTANTS Asked,    \* the protocols asked of the factory
          ThreadOf  \* the thread that runs each caller's future

ASSUME TransportAssumption == DOMAIN ThreadOf = Callers

VARIABLES made,  \* what the factory has made: "none" to begin with
          guard, \* TransportClientEnum::Udp: who holds its std Mutex
          bound  \* whether its UdpProxy is there

vars == <<shutdownVars, udpVars, poolVars, serverVars, made, guard, bound>>

Init ==
  /\ ShutdownInit /\ UdpInit /\ PoolInit /\ ServerInit
  /\ made = "none"
  /\ guard = Nobody
  /\ bound = FALSE

(* to_uppercase: the name of a protocol in any case.                       *)
Upper(name) ==
  CASE name \in {"tcp", "Tcp", "TCP"} -> "TCP"
    [] name \in {"udp", "Udp", "UDP"} -> "UDP"
    [] OTHER -> name

(* create_client, create_server; UdpProxy::new and TcpServer::new by hand. *)
CreateFor(name, side) ==
  /\ made = "none"
  /\ made' = CASE Upper(name) = "TCP" -> IF side = "server" THEN "tcp server" ELSE "tcp client"
               [] Upper(name) = "UDP" -> "udp " \o side
               [] OTHER -> "unsupported"
  /\ bound' = (made' = "udp proxy")
  /\ UNCHANGED <<shutdownVars, udpVars, poolVars, serverVars, guard>>

-----------------------------------------------------------------------------
(* The std Mutex of the enum is held from the call to its return, across   *)
(* every await.  Whoever waits for it blocks the thread.                   *)
Blocked(c) == at[c] = "blocked"
Runs(c) == \A d \in Callers : ThreadOf[d] = ThreadOf[c] => ~Blocked(d)

Pending == {c \in Callers : Blocked(c)} \union ({guard} \ {Nobody})
At(c, place) ==
  /\ at' = [at EXCEPT ![c] = place]
  /\ UNCHANGED <<shutdownVars, socket, call, unsent, answer, net, server, table, inflight,
                 history, calls, dups, poolVars, serverVars, made, bound>>

Block(c) ==
  /\ made = "udp client" /\ Runs(c)
  /\ at[c] = "idle" /\ guard \notin {c, Nobody}
  /\ calls + Cardinality(Pending) < MaxCalls
  /\ At(c, "blocked")
  /\ UNCHANGED guard

EnumLock(c) ==
  /\ made = "udp client" /\ guard = Nobody
  /\ \/ Blocked(c)
     \/ at[c] = "idle" /\ Runs(c) /\ calls + Cardinality(Pending) < MaxCalls
  /\ guard' = c
  /\ At(c, "idle")

(* The first call binds the socket; an error is returned.                  *)
EnumBind(c) ==
  /\ guard = c /\ ~bound /\ Runs(c)
  /\ \/ bound' = TRUE /\ UNCHANGED <<guard, calls>>
     \/ guard' = Nobody /\ calls' = calls + 1 /\ UNCHANGED bound
  /\ UNCHANGED <<shutdownVars, socket, at, call, unsent, answer, net, server, table, inflight,
                 history, dups, poolVars, serverVars, made>>

(* A step of a call: one through the enum ends with the guard released.    *)
Proxied(c) ==
  /\ \/ made = "udp proxy" /\ UNCHANGED guard
     \/ /\ guard = c /\ bound /\ Runs(c)
        /\ guard' = IF at'[c] = "idle" THEN Nobody ELSE guard
  /\ UNCHANGED <<shutdownVars, poolVars, serverVars, made, bound>>

-----------------------------------------------------------------------------
InUdpServer ==
  /\ made \in {"udp client", "udp proxy"}
  /\ UNCHANGED <<shutdownVars, poolVars, serverVars, made, guard, bound>>

InPool ==
  /\ made = "tcp client"
  /\ UNCHANGED <<shutdownVars, udpVars, serverVars, made, guard, bound>>

InTcpServer ==
  /\ made = "tcp server"
  /\ UNCHANGED <<shutdownVars, udpVars, poolVars, made, guard, bound>>

(* Nobody waits for the message of a UDP server.                           *)
InShutdown ==
  /\ made \in {"udp client", "udp proxy", "tcp server"}
  /\ UNCHANGED <<udpVars, poolVars, serverVars, made, guard, bound>>

Next ==
  \/ \E name \in Asked, side \in {"client", "server", "proxy"} : CreateFor(name, side)
  \/ \E c \in Callers :
       \/ Block(c) \/ EnumLock(c) \/ EnumBind(c)
       \/ UdpStep(c) /\ Proxied(c)
  \/ UdpServerNext /\ InUdpServer
  \/ PoolNext /\ InPool
  \/ ServerNext /\ InTcpServer
  \/ Store /\ InShutdown
  \/ made = "tcp server" /\ ShutdownNext /\ InShutdown

Spec == Init /\ [][Next]_vars

(* Tasks run and timers go off; both Mutexes are fair.  Nothing is assumed *)
(* of the network, nor of clients: not even that they read their answers.  *)
Begins(c) == guard = c /\ \E r \in RequestsOf[c] : Call(c, r, "sendrecv")

Fairness ==
  /\ \A c \in Callers :
       /\ WF_vars(Blocked(c) /\ EnumLock(c)) /\ WF_vars(EnumBind(c))
       /\ WF_vars((Begins(c) \/ Sending(c) \/ Timeout(c)) /\ Proxied(c))
  /\ WF_vars(UdpServerStops /\ InUdpServer)
  /\ WF_vars(CheckFlag /\ InTcpServer) /\ WF_vars(NobodyConnects /\ InTcpServer)
  /\ \A p \in Peers : WF_vars(HandlerSteps(p) /\ InTcpServer)
  /\ WF_vars(made = "tcp server" /\ Notify /\ InShutdown)
  /\ \A w \in Waiters :
       WF_vars(Resubscribe(w) /\ InShutdown) /\ WF_vars(Wake(w) /\ InShutdown)

FairSpec == Spec /\ Fairness

-----------------------------------------------------------------------------
(* Properties.                                                             *)

(* "Trigger the shutdown signal, notifying all listeners": the loops of    *)
(* both servers end, with them every handler, its client silent or busy,   *)
(* but one that stays for ever with an answer that its client does not     *)
(* read, and who waits for the message when shutdown is under way is woken.*)
ShutdownReaches ==
  /\ Woken
  /\ triggered /\ made = "tcp server" ~> accepting = "over"
  /\ \A p \in Peers :
       (triggered /\ made = "tcp server" ~> Ended(p)) \/ <>[](handler[p] = "answer")
  /\ triggered /\ made # "tcp server" ~> server # "running"

(* "A signal that server tasks can listen on to initiate graceful          *)
(* shutdown": the accept loop and all handlers end, whatever their clients *)
(* do.  Violated by a handler whose client does not read its answer.       *)
ServerStops == triggered /\ made = "tcp server" ~> Stopped
=============================================================================
