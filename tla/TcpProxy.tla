------------------------------ MODULE TcpProxy ------------------------------
(***************************************************************************)
(* zht-transport: TcpProxy and the connection handler it talks to, for one *)
(* address.  Callers queue for the pool's async Mutex (tokio grants it in  *)
(* order) and the one at the head keeps it over connect, send and receive. *)
(* Dropping the future of a call, which is what a timeout does, gives the  *)
(* Mutex back and leaves the connection as it is.                          *)
(*                                                                         *)
(* The pooled connection is two FIFO streams and what has become of the    *)
(* server's end: "open", "closed" (a FIN: read_exact reports "early eof")  *)
(* or "reset" (reads and writes report a reset or a broken pipe).  A       *)
(* message is one write; messages are told apart by caller, call number    *)
(* and attempt, and a reply carries the call it answers.                   *)
(***************************************************************************)
EXTENDS Naturals, Sequences, SequencesExt

CONSTANTS Callers,
          Kinds,                \* subset of {"sendrecv", "timed", "send_only"}
          MaxReconnectAttempts, \* MAX_RECONNECT_ATTEMPTS
          MaxCalls,             \* bound on the calls of each caller
          MaxFailures           \* bound on the failures of server and network

ASSUME TcpProxyAssumption ==
  /\ Kinds \subseteq {"sendrecv", "timed", "send_only"}
  /\ MaxReconnectAttempts \in Nat
  /\ MaxCalls \in Nat /\ MaxFailures \in Nat

VARIABLES queue,    \* callers at the pool Mutex, the first one holds it
          pc, kind, n, attempts,  \* per caller: where it is in which call
          result,   \* per caller: what its last call returned
          pooled,   \* does the pool hold a connection?
          sent,     \* that connection: requests the handler has not read
          replies,  \* that connection: replies the client has not read
          peer,     \* that connection: "open", "closed" or "reset"
          clean,    \* that connection: every call on it took its reply (history)
          stray,    \* requests in the hands of handlers of dropped connections
          up,       \* is the server listening?
          executed, \* how often each call was executed (history)
          failures

caller == <<queue, pc, kind, n, attempts, result>>
connection == <<pooled, sent, replies, peer, clean>>
vars == <<caller, connection, stray, up, executed, failures>>

Ids == Callers \X (1..MaxCalls)
Attempts == 0..MaxReconnectAttempts

Holds(c) == queue # << >> /\ Head(queue) = c

Init ==
  /\ queue = << >>
  /\ pc = [c \in Callers |-> "idle"]
  /\ kind = [c \in Callers |-> "sendrecv"]
  /\ n = [c \in Callers |-> 0]
  /\ attempts = [c \in Callers |-> 0]
  /\ result = [c \in Callers |-> [status |-> "none", of |-> <<c, 0>>, clean |-> TRUE]]
  /\ pooled = FALSE
  /\ sent = << >>
  /\ replies = << >>
  /\ peer = "open"
  /\ clean = TRUE
  /\ stray = {}
  /\ up = TRUE
  /\ executed = [id \in Ids |-> 0]
  /\ failures = 0

(* The call returns, or is dropped, and its place at the Mutex with it.    *)
Return(c, status, of) ==
  /\ pc' = [pc EXCEPT ![c] = "idle"]
  /\ result' = [result EXCEPT ![c] = [status |-> status, of |-> of, clean |-> clean]]
  /\ \E i \in 1..Len(queue) : queue[i] = c /\ queue' = RemoveAt(queue, i)
  /\ UNCHANGED <<kind, n, attempts>>

Goto(c, label) ==
  /\ pc' = [pc EXCEPT ![c] = label]
  /\ UNCHANGED <<queue, kind, n, attempts, result>>

(* The entry is removed; its handler may still have the requests sent.     *)
DropConnection ==
  /\ pooled' = FALSE
  /\ sent' = << >>
  /\ replies' = << >>
  /\ peer' = "open"
  /\ clean' = TRUE
  /\ stray' = stray \union ToSet(sent)

(* send_message: one frame.  Into a connection that the server has closed  *)
(* the write still succeeds.                                               *)
SendMessage(messages) == sent' = IF peer = "open" THEN sent \o messages ELSE sent

(* recv_message: exactly one frame, the next in the stream.                *)
RecvMessage ==
  /\ replies # << >>
  /\ replies' = Tail(replies)

-----------------------------------------------------------------------------
Call(c, k) ==
  /\ pc[c] = "idle"
  /\ n[c] < MaxCalls
  /\ queue' = Append(queue, c)
  /\ pc' = [pc EXCEPT ![c] = "connect"]
  /\ kind' = [kind EXCEPT ![c] = k]
  /\ n' = [n EXCEPT ![c] = @ + 1]
  /\ attempts' = [attempts EXCEPT ![c] = 0]
  /\ UNCHANGED <<result, connection, stray, up, executed, failures>>

(* A sendrecv_with_timeout of a message no handler knows; any reply to it  *)
(* is the answer that the connection is alive.                             *)
HealthCheck(c) == "timed" \in Kinds /\ Call(c, "timed")

(* Mutant: nobody waits for the Mutex.                                     *)
AtUnlocked(c, label) == pc[c] = label

At(c, label) == Holds(c) /\ pc[c] = label

Connect(c) ==
  /\ At(c, "connect")
  /\ pooled \/ up
  /\ pooled' = TRUE
  /\ Goto(c, "send")
  /\ UNCHANGED <<sent, replies, peer, clean, stray, up, executed, failures>>

ConnectFails(c) ==
  /\ At(c, "connect")
  /\ ~pooled /\ ~up
  /\ Return(c, "connection_failed", <<c, n[c]>>)
  /\ UNCHANGED <<connection, stray, up, executed, failures>>

(* Mutants: the message is written twice; no reply is waited for.          *)
SendTwice(c) ==
  /\ At(c, "send")
  /\ peer # "reset"
  /\ LET m == <<c, n[c], attempts[c]>> IN SendMessage(<<m, m>>)
  /\ IF kind[c] = "send_only" THEN Return(c, "ok", <<c, n[c]>>) ELSE Goto(c, "recv")
  /\ clean' = (clean /\ kind[c] # "send_only")
  /\ UNCHANGED <<pooled, replies, peer, stray, up, executed, failures>>

SendOnly(c) ==
  /\ At(c, "send")
  /\ peer # "reset"
  /\ SendMessage(<<<<c, n[c], attempts[c]>>>>)
  /\ Return(c, "ok", <<c, n[c]>>)
  /\ UNCHANGED <<pooled, replies, peer, clean, stray, up, executed, failures>>

Send(c) ==
  /\ At(c, "send")
  /\ peer # "reset"
  /\ SendMessage(<<<<c, n[c], attempts[c]>>>>)
  /\ IF kind[c] = "send_only" THEN Return(c, "ok", <<c, n[c]>>) ELSE Goto(c, "recv")
  /\ clean' = (clean /\ kind[c] # "send_only")
  /\ UNCHANGED <<pooled, replies, peer, stray, up, executed, failures>>

(* Mutant: the reply is left in the stream.                                *)
RecvPeeks(c) ==
  /\ At(c, "recv")
  /\ replies # << >>
  /\ Return(c, "ok", Head(replies))
  /\ UNCHANGED <<connection, stray, up, executed, failures>>

Recv(c) ==
  /\ At(c, "recv")
  /\ RecvMessage
  /\ Return(c, "ok", Head(replies))
  /\ UNCHANGED <<pooled, sent, peer, clean, stray, up, executed, failures>>

(* Mutant: one retry too many.                                             *)
BrokenOnceMore(c) ==
  /\ Holds(c)
  /\ \/ pc[c] = "send" /\ peer \in {"closed", "reset"}
     \/ pc[c] = "recv" /\ peer = "reset"
  /\ DropConnection
  /\ IF attempts[c] > MaxReconnectAttempts
     THEN Return(c, "broken", <<c, n[c]>>)
     ELSE /\ attempts' = [attempts EXCEPT ![c] = @ + 1]
          /\ pc' = [pc EXCEPT ![c] = "connect"]
          /\ UNCHANGED <<queue, kind, n, result>>
  /\ UNCHANGED <<up, executed, failures>>

(* A broken pipe or a reset: forget the connection and start over, once.   *)
Broken(c) ==
  /\ Holds(c)
  /\ \/ pc[c] = "send" /\ peer \in {"closed", "reset"}
     \/ pc[c] = "recv" /\ peer = "reset"
  /\ DropConnection
  /\ IF attempts[c] + 1 > MaxReconnectAttempts
     THEN Return(c, "broken", <<c, n[c]>>)
     ELSE /\ attempts' = [attempts EXCEPT ![c] = @ + 1]
          /\ pc' = [pc EXCEPT ![c] = "connect"]
          /\ UNCHANGED <<queue, kind, n, result>>
  /\ UNCHANGED <<up, executed, failures>>

(* "early eof" is none of the phrases is_connection_broken_error looks     *)
(* for: the error is returned and the connection stays in the pool.        *)
RecvEof(c) ==
  /\ At(c, "recv")
  /\ peer = "closed" /\ replies = << >>
  /\ Return(c, "eof", <<c, n[c]>>)
  /\ UNCHANGED <<connection, stray, up, executed, failures>>

(* tokio::time::timeout drops the sendrecv future wherever it is.          *)
Timeout(c) ==
  /\ pc[c] # "idle" /\ kind[c] = "timed"
  /\ Return(c, "timeout", <<c, n[c]>>)
  /\ clean' = (clean /\ pc[c] # "recv")
  /\ UNCHANGED <<pooled, sent, replies, peer, stray, up, executed, failures>>

(* close_connection, close_all.                                            *)
CloseConnection ==
  /\ queue = << >>
  /\ pooled
  /\ DropConnection
  /\ UNCHANGED <<caller, up, executed, failures>>

-----------------------------------------------------------------------------
(* handle_connection: read, process, reply, in this order.                 *)
Serve ==
  /\ peer = "open" /\ sent # << >>
  /\ LET id == <<Head(sent)[1], Head(sent)[2]>> IN
       /\ executed' = [executed EXCEPT ![id] = @ + 1]
       /\ replies' = Append(replies, id)
  /\ sent' = Tail(sent)
  /\ UNCHANGED <<caller, pooled, peer, clean, stray, up, failures>>

(* The handler of a dropped connection still processes what it had read,   *)
(* or loses it.                                                            *)
ServeStray(r) ==
  /\ executed' = [executed EXCEPT ![<<r[1], r[2]>>] = @ + 1]
  /\ stray' = stray \ {r}
  /\ UNCHANGED <<caller, connection, up, failures>>

LoseStray(r) ==
  /\ stray' = stray \ {r}
  /\ UNCHANGED <<caller, connection, up, executed, failures>>

Failure == failures < MaxFailures /\ failures' = failures + 1

(* The server process ends: its sockets are closed, or reset if there was  *)
(* something left to read.                                                 *)
ServerStops ==
  /\ up \/ (pooled /\ peer = "open")
  /\ Failure
  /\ up' = FALSE
  /\ peer' \in IF pooled THEN {"closed", "reset"} ELSE {"open"}
  /\ sent' = << >>
  /\ stray' = {}
  /\ UNCHANGED <<caller, pooled, replies, clean, executed>>

(* run_server_with_shutdown: the token ends the accept loop; the handlers  *)
(* of the connections there are go on.                                     *)
StopAccepting ==
  /\ up
  /\ Failure
  /\ up' = FALSE
  /\ UNCHANGED <<caller, connection, stray, executed>>

(* run_server: listens and spawns a handler for every connection.          *)
ServerStarts ==
  /\ ~up
  /\ up' = TRUE
  /\ UNCHANGED <<caller, connection, stray, executed, failures>>

(* The connection breaks while the server lives: replies under way are     *)
(* lost, requests under way may have been read.                            *)
ConnectionLost ==
  /\ pooled /\ peer # "reset"
  /\ Failure
  /\ peer' = "reset"
  /\ sent' = << >>
  /\ replies' = << >>
  /\ stray' = stray \union ToSet(sent)
  /\ UNCHANGED <<caller, pooled, clean, up, executed>>

Step(c) ==
  \/ Connect(c) \/ ConnectFails(c) \/ Send(c) \/ Recv(c) \/ Broken(c) \/ RecvEof(c)
  \/ Timeout(c)

Next ==
  \/ \E c \in Callers : HealthCheck(c)
  \/ \E c \in Callers, k \in Kinds : Call(c, k)
  \/ \E c \in Callers : Step(c)
  \/ CloseConnection
  \/ Serve
  \/ \E r \in stray : ServeStray(r) \/ LoseStray(r)
  \/ ServerStops \/ StopAccepting \/ ServerStarts \/ ConnectionLost

Spec == Init /\ [][Next]_vars

(* Tasks are run.  Nothing makes the server answer.                        *)
Fairness == \A c \in Callers : WF_vars(Step(c))

FairSpec == Spec /\ Fairness

-----------------------------------------------------------------------------
(* Properties.                                                             *)

Statuses == {"none", "ok", "connection_failed", "broken", "eof", "timeout"}

(* What sendrecv and the handlers leave in the pool, the streams and the   *)
(* results stays within their types: no attempt beyond the maximum.        *)
TypeOK ==
  /\ queue \in Seq(Callers)
  /\ pc \in [Callers -> {"idle", "connect", "send", "recv"}]
  /\ kind \in [Callers -> Kinds \union {"sendrecv"}]
  /\ n \in [Callers -> 0..MaxCalls]
  /\ attempts \in [Callers -> Attempts]
  /\ result \in [Callers -> [status : Statuses, of : Callers \X (0..MaxCalls), clean : BOOLEAN]]
  /\ pooled \in BOOLEAN
  /\ sent \in Seq(Callers \X (1..MaxCalls) \X Attempts)
  /\ replies \in Seq(Ids)
  /\ peer \in {"open", "closed", "reset"}
  /\ clean \in BOOLEAN
  /\ stray \subseteq Callers \X (1..MaxCalls) \X Attempts
  /\ up \in BOOLEAN
  /\ executed \in [Ids -> Nat]
  /\ failures \in 0..MaxFailures

(* Exactly the callers with a call under way are at the Mutex, once each,  *)
(* and only the first of them has got further than asking for it.          *)
MutexDiscipline ==
  /\ \A c \in Callers : pc[c] # "idle" <=> \E i \in 1..Len(queue) : queue[i] = c
  /\ \A i, j \in 1..Len(queue) : queue[i] = queue[j] => i = j
  /\ \A c \in Callers : pc[c] \in {"send", "recv"} => Holds(c) /\ pooled

(* sendrecv "sends the message and blocks until the server's response is   *)
(* received": a call returns the reply to the request it sent.             *)
ReplyMatches ==
  \A c \in Callers :
    pc[c] = "idle" /\ result[c].status = "ok" => result[c].of = <<c, n[c]>>

(* So it is on a connection on which no call was one-way or dropped with   *)
(* its request sent, however often connections break and are replaced.     *)
OwnReply ==
  \A c \in Callers :
    pc[c] = "idle" /\ result[c].status = "ok" /\ result[c].clean
      => result[c].of = <<c, n[c]>>

(* Between calls no reply waits in such a connection: it would be taken    *)
(* for the answer to the next request.                                     *)
NoReplyLeftOver == queue = << >> /\ clean => replies = << >> /\ sent = << >>

(* A retry may execute a request again, but never more often than there    *)
(* are attempts.                                                           *)
ExecutedPerAttempt ==
  \A c \in Callers : \A i \in 1..MaxCalls :
    executed[<<c, i>>] <= MaxReconnectAttempts + 1

(* A call that returned a reply, on such a connection, was executed.       *)
OkWasExecuted ==
  \A c \in Callers :
    /\ pc[c] = "idle" /\ n[c] > 0 /\ kind[c] # "send_only"
    /\ result[c].status = "ok" /\ result[c].clean
    => executed[<<c, n[c]>>] > 0

(* "unexpected EOF" is handled by reconnecting: no caller gets to see it.  *)
EofIsRetried == \A c \in Callers : result[c].status # "eof"

(* No call waits for the Mutex or for a reply for ever.  With a server that*)
(* does not answer it is violated: sendrecv has no timeout of its own.     *)
Returns == \A c \in Callers : pc[c] # "idle" ~> pc[c] = "idle"
=============================================================================
