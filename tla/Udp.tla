-------------------------------- MODULE Udp --------------------------------
(***************************************************************************)
(* zht-transport, udp.rs: the callers of one UdpProxy, a UdpServer, and a  *)
(* network that loses datagrams (by never delivering them), reorders and   *)
(* duplicates them.  The file is not compiled at this commit.              *)
(***************************************************************************)
EXTENDS Chunking, Handler, Shutdown

CONSTANTS Callers,
          RequestsOf,     \* per caller: the requests it may make
          SizeOf,         \* the encoded size of each request
          MaxDatagram,    \* UDP_MAX_DATAGRAM
          ChunkThreshold, \* DEFAULT_CHUNK_THRESHOLD
          ChunkSize,      \* CHUNK_PAYLOAD_SIZE
          Ids,            \* what gen_id may return
          NoValue,        \* no request, no answer
          MaxCalls,       \* bound on the calls
          MaxDups         \* bound on the duplicated datagrams

Requests == UNION {RequestsOf[c] : c \in Callers}
Nobody == "nobody"

(* How many chunks a request takes.                                        *)
Total(r) == (SizeOf[r] + ChunkSize - 1) \div ChunkSize

ASSUME UdpAssumption ==
  /\ SizeOf \in [Requests -> Nat \ {0}]
  /\ {MaxDatagram, ChunkThreshold, MaxCalls, MaxDups} \subseteq Nat
  /\ ChunkSize \in 1..MaxDatagram /\ ChunkSize < SizeLimit
  /\ \A r \in Requests : Total(r) < CountLimit
  /\ Nobody \notin Callers
  /\ \A r \in Requests : "payload" \notin DOMAIN r

VARIABLES socket,    \* who holds the Mutex of the socket
          at,        \* per caller: where its call is
          call,      \* per caller: its request and the number of the call
          unsent,    \* per caller: the chunks it has still to send
          answer,    \* per caller: what its last call returned
          net,       \* the datagrams under way
          server,    \* the server's loop: "running", "over", "panicked"
          table,     \* the NoVoHT behind its handler
          inflight,  \* the reassemblers of its ChunkReceiver
          given,     \* the message each id was given to first (history)
          collided,  \* the ids given to another one (history)
          broken,    \* the ids of messages cut off or doubled (history)
          assembled, \* the messages put together, with ids (history)
          loose,     \* the calls timed out, sent only or doubled (history)
          displaced, \* the calls that took the answer of another (history)
          calls, dups

history == <<given, collided, broken, assembled, loose, displaced>>
udpVars == <<socket, at, call, unsent, answer, net, server, table, inflight,
             history, calls, dups>>

NoCall == [number |-> 0, request |-> NoValue, id |-> NoValue]

UdpInit ==
  /\ socket = Nobody
  /\ at = [c \in Callers |-> "idle"]
  /\ call = [c \in Callers |-> NoCall]
  /\ unsent = [c \in Callers |-> << >>]
  /\ answer = [c \in Callers |-> NoValue]
  /\ net = {}
  /\ server = "running"
  /\ table = Empty
  /\ inflight = << >>
  /\ given = << >> /\ collided = {} /\ broken = {}
  /\ assembled = {} /\ loose = {} /\ displaced = {}
  /\ calls = 0 /\ dups = 0

Bytes(r) == [i \in 1..SizeOf[r] |-> <<r, i>>]
Chunked(r) == SizeOf[r] > ChunkThreshold
Frame(to, number, body) == [to |-> to, number |-> number, body |-> body]
Piece(number, chunk) == [to |-> "server", number |-> number, body |-> chunk]
IsChunk(datagram) == "payload" \in DOMAIN datagram.body
Busy == {c \in Callers : at[c] # "idle"}

-----------------------------------------------------------------------------
(* UdpProxy.                                                               *)
Return(c, what) ==
  /\ at' = [at EXCEPT ![c] = "idle"]
  /\ answer' = [answer EXCEPT ![c] = what]
  /\ call' = [call EXCEPT ![c] = NoCall]
  /\ unsent' = [unsent EXCEPT ![c] = << >>]
  /\ socket' = Nobody

(* A call is made; a long request is cut into chunks at once, under an id  *)
(* hashed from the clock.                                                  *)
Call(c, r, how) ==
  /\ at[c] = "idle"
  /\ calls < MaxCalls
  /\ calls' = calls + 1
  /\ at' = [at EXCEPT ![c] = how]
  /\ answer' = [answer EXCEPT ![c] = NoValue]
  /\ IF how = "sendrecv" /\ Chunked(r)
     THEN \E id \in Ids :
            /\ call' = [call EXCEPT ![c] = [number |-> calls + 1, request |-> r, id |-> id]]
            /\ unsent' = [unsent EXCEPT ![c] = ChunkMessage(id, Bytes(r), ChunkSize)]
            /\ given' = IF id \in DOMAIN given THEN given
                        ELSE [i \in DOMAIN given \union {id} |-> IF i = id THEN r ELSE given[i]]
            /\ collided' = IF id \in DOMAIN given THEN collided \union {id} ELSE collided
     ELSE /\ call' = [call EXCEPT ![c] = [number |-> calls + 1, request |-> r, id |-> NoValue]]
          /\ UNCHANGED <<unsent, given, collided>>
  /\ UNCHANGED <<socket, net, server, table, inflight, broken, assembled, loose, displaced, dups>>

(* Mutant: the socket is used while another caller has it.                 *)
LockShared(c) ==
  /\ at[c] \in {"sendrecv", "send_only"}
  /\ socket' = c
  /\ at' = [at EXCEPT ![c] = CASE unsent[c] # << >> -> "chunks"
                               [] unsent[c] = << >> /\ at[c] = "sendrecv" -> "sendrecv!"
                               [] OTHER -> "send_only!"]
  /\ UNCHANGED <<call, unsent, answer, net, server, table, inflight, history, calls, dups>>

Lock(c) ==
  /\ at[c] \in {"sendrecv", "send_only"}
  /\ socket = Nobody
  /\ socket' = c
  /\ at' = [at EXCEPT ![c] = CASE unsent[c] # << >> -> "chunks"
                               [] unsent[c] = << >> /\ at[c] = "sendrecv" -> "sendrecv!"
                               [] OTHER -> "send_only!"]
  /\ UNCHANGED <<call, unsent, answer, net, server, table, inflight, history, calls, dups>>

(* One datagram; sendrecv goes on to wait, send_only returns.              *)
SendFrame(c) ==
  /\ at[c] \in {"sendrecv!", "send_only!"}
  /\ SizeOf[call[c].request] <= MaxDatagram
  /\ net' = net \union {Frame("server", call[c].number, call[c].request)}
  /\ IF at[c] = "sendrecv!"
     THEN /\ at' = [at EXCEPT ![c] = "waiting"]
          /\ UNCHANGED <<socket, call, unsent, answer, loose>>
     ELSE /\ loose' = loose \union {call[c].number}
          /\ Return(c, [code |-> "sent"])
  /\ UNCHANGED <<server, table, inflight, given, collided, broken, assembled, displaced, calls, dups>>

(* send_to fails: always if the frame is too long for a datagram.          *)
FrameFails(c) ==
  /\ at[c] \in {"sendrecv!", "send_only!"}
  /\ Return(c, [code |-> "SendFailed"])
  /\ UNCHANGED <<net, server, table, inflight, history, calls, dups>>

SendChunk(c) ==
  /\ at[c] = "chunks"
  /\ net' = net \union {Piece(call[c].number, Head(unsent[c]))}
  /\ unsent' = [unsent EXCEPT ![c] = Tail(@)]
  /\ at' = [at EXCEPT ![c] = IF Len(unsent[c]) = 1 THEN "waiting" ELSE "chunks"]
  /\ UNCHANGED <<socket, call, answer, server, table, inflight, history, calls, dups>>

(* The network refuses a chunk; those before it are on their way.          *)
SendChunkFails(c) ==
  /\ at[c] = "chunks"
  /\ broken' = broken \union {call[c].id}
  /\ Return(c, [code |-> "SendFailed"])
  /\ UNCHANGED <<net, server, table, inflight, given, collided, assembled, loose, displaced, calls, dups>>

(* A datagram arrives, and a copy of it may be left in the network.        *)
Delivered(d, copied) ==
  /\ copied => dups < MaxDups
  /\ dups' = IF copied THEN dups + 1 ELSE dups
  /\ broken' = IF copied /\ IsChunk(d) THEN broken \union {d.body.id} ELSE broken

Rest(d, copied) == IF copied THEN net ELSE net \ {d}

(* Whatever comes to the socket counts as the answer.  A call that gets    *)
(* the answer of another leaves its own to those after it.                 *)
Receive(c, d, copied) ==
  /\ at[c] = "waiting"
  /\ d.to = "proxy"
  /\ Delivered(d, copied)
  /\ net' = Rest(d, copied)
  /\ loose' = IF copied THEN loose \union {d.number} ELSE loose
  /\ displaced' = displaced \union ({call[c].number} \ {d.number})
  /\ Return(c, [code |-> "ok", asked |-> call[c].number, answered |-> d.number])
  /\ UNCHANGED <<server, table, inflight, given, collided, assembled, calls>>

(* Mutant: waits for another five seconds.                                 *)
TimeoutAgain(c) ==
  /\ at[c] = "waiting"
  /\ UNCHANGED udpVars

(* Five seconds without an answer, or an error of recv_from.               *)
Timeout(c) ==
  /\ at[c] = "waiting"
  /\ loose' = loose \union {call[c].number}
  /\ Return(c, [code |-> "RecvFailed"])
  /\ UNCHANGED <<net, server, table, inflight, given, collided, broken, assembled, displaced, calls, dups>>

-----------------------------------------------------------------------------
(* UdpServer::run: one datagram at a time, and the handler in between.     *)
Running == server = "running"

(* The answer to a frame, if it fits into a datagram: the value of a       *)
(* LOOKUP comes twice, in val and in lease.                                *)
Replies(number, reply) ==
  IF reply.val # Absent /\ 2 * Len(reply.val) > MaxDatagram THEN {}
  ELSE {Frame("proxy", number, reply)}

ServeFrame(d, copied) ==
  /\ Running
  /\ d.to = "server" /\ ~IsChunk(d)
  /\ Delivered(d, copied)
  /\ LET handled == Handle(table, d.body)
     IN  /\ table' = handled.table
         /\ net' = Rest(d, copied) \union Replies(d.number, handled.reply)
  /\ loose' = IF copied THEN loose \union {d.number} ELSE loose
  /\ UNCHANGED <<socket, at, call, unsent, answer, server, inflight, given, collided, assembled,
                 displaced, calls>>

(* What is no frame is taken for a chunk.  The message that is put         *)
(* together has no length in front, so that decode_message takes its first *)
(* four bytes for one, longer than any message: nobody answers it.         *)
ServeChunk(d, copied) ==
  /\ Running
  /\ d.to = "server" /\ IsChunk(d)
  /\ Delivered(d, copied)
  /\ net' = Rest(d, copied)
  /\ LET entry == Inserted(inflight, d.body)
         panics == IsComplete(entry) /\ LacksChunk(entry)
     IN  /\ server' = IF panics THEN "panicked" ELSE server
         /\ inflight' = Received(inflight, d.body)
         /\ assembled' = IF IsComplete(entry) /\ ~panics
                         THEN assembled \union {[id |-> d.body.id, data |-> Reassembled(entry)]}
                         ELSE assembled
  /\ UNCHANGED <<socket, at, call, unsent, answer, table, given, collided, loose, displaced, calls>>

(* The flag is looked at before each datagram, and every 100 ms.           *)
UdpServerStops ==
  /\ Running /\ triggered
  /\ server' = "over"
  /\ UNCHANGED <<socket, at, call, unsent, answer, net, table, inflight, history, calls, dups>>

-----------------------------------------------------------------------------
UdpStep(c) ==
  \/ \E r \in RequestsOf[c], how \in {"sendrecv", "send_only"} : Call(c, r, how)
  \/ Lock(c) \/ SendFrame(c) \/ FrameFails(c) \/ SendChunk(c) \/ SendChunkFails(c)
  \/ Timeout(c)
  \/ \E d \in net, copied \in BOOLEAN : Receive(c, d, copied)

UdpServerNext ==
  \/ \E d \in net, copied \in BOOLEAN : ServeFrame(d, copied) \/ ServeChunk(d, copied)
  \/ UdpServerStops

(* What a caller does by itself, with the Mutex its own.                   *)
Sending(c) == Lock(c) \/ SendFrame(c) \/ FrameFails(c) \/ SendChunk(c)

-----------------------------------------------------------------------------
(* Properties.                                                             *)

(* The Mutex of the socket keeps the answers of concurrent calls apart: a  *)
(* call gets its own, or one that a call before left behind.  Only a call  *)
(* that timed out, sent only or had its datagrams doubled begins that; but *)
(* then each that gets a wrong answer leaves its own to the next, and it   *)
(* may go on for ever.                                                     *)
OwnDatagram ==
  /\ \A c \in Callers : answer[c] # NoValue /\ answer[c].code = "ok" =>
       answer[c].answered \in loose \union displaced \union {answer[c].asked}
  /\ loose = {} => displaced = {}

(* "Send a request and wait for a response": a call gets the answer to its *)
(* own request.  Violated by the first call after one that timed out.      *)
OwnAnswer ==
  \A c \in Callers : answer[c] # NoValue /\ answer[c].code = "ok" =>
    answer[c].answered = answer[c].asked

(* A wrong answer is at least that of a call that timed out, sent only or  *)
(* was doubled, not of an ordinary one.  Violated one call later.          *)
NoCascade ==
  \A c \in Callers : answer[c] # NoValue /\ answer[c].code = "ok" =>
    answer[c].answered \in loose \union {answer[c].asked}

(* "Chunks ... are concatenated in order to reconstruct the original       *)
(* message": in whatever order, and however often, they arrive; only ids   *)
(* that were given twice mix messages, or make the receiver panic.         *)
Reassembles ==
  /\ \A m \in assembled : m.id \in collided \/ m.data = Bytes(given[m.id])
  /\ server = "panicked" => collided # {}

(* A reassembler waits for chunks that may still come.  Those of a message *)
(* cut off, doubled, or whose id was given twice stay for ever.            *)
NoLeak ==
  \A id \in DOMAIN inflight :
    \/ id \in collided \union broken
    \/ \E d \in net : IsChunk(d) /\ d.body.id = id
    \/ \E c \in Callers : at[c] = "chunks" /\ call[c].id = id

(* Every call returns: nobody waits longer than the timeouts of those      *)
(* before it.                                                              *)
UdpReturns == \A c \in Callers : at[c] # "idle" ~> at[c] = "idle"
=============================================================================
