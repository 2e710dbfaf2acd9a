----------------------------- MODULE TcpServer -----------------------------
(***************************************************************************)
(* zht-transport, tcp.rs: TcpServer, its accept loop and a handler per     *)
(* connection.  A frame comes in two parts, its length and its body, and   *)
(* thirty seconds may pass between them.  The file is not compiled at this *)
(* commit.                                                                 *)
(***************************************************************************)
EXTENDS Shutdown, Sequences

CONSTANTS Peers,     \* the clients, with a connection each
          MaxFrames  \* bound on the frames that each sends

ASSUME TcpServerAssumption == MaxFrames \in Nat

VARIABLES accepting, \* the accept loop: "check", "accept" or "over"
          handler,   \* per connection: where its handler is
          stream,    \* per connection: the parts sent and not read
          parts,     \* per connection: the parts sent
          processed  \* per connection: the requests handled (requests_processed)

serverVars == <<accepting, handler, stream, parts, processed>>

ServerInit ==
  /\ accepting = "check"
  /\ handler = [p \in Peers |-> "none"]
  /\ stream = [p \in Peers |-> << >>]
  /\ parts = [p \in Peers |-> 0]
  /\ processed = [p \in Peers |-> 0]

Reading(p) == handler[p] \in {"length", "body", "lost"}
Handler(p, step) ==
  /\ handler' = [handler EXCEPT ![p] = step]
  /\ UNCHANGED <<accepting, parts>>

(* The client writes the next part of a frame, or closes.                  *)
Part(n) == IF n % 2 = 0 THEN "length" ELSE "body"

Writes(p) ==
  /\ handler[p] \notin {"none", "over"}
  /\ parts[p] < 2 * MaxFrames
  /\ stream' = [stream EXCEPT ![p] = Append(@, Part(parts[p]))]
  /\ parts' = [parts EXCEPT ![p] = @ + 1]
  /\ UNCHANGED <<accepting, handler, processed>>

(* run: the flag before each accept, which waits for 100 ms.  An error of  *)
(* accept is logged.                                                       *)
CheckFlag ==
  /\ accepting = "check"
  /\ accepting' = IF triggered THEN "over" ELSE "accept"
  /\ UNCHANGED <<handler, stream, parts, processed>>

(* The new handler ends at once if set_nodelay fails.                      *)
AcceptPeer(p) ==
  /\ accepting = "accept"
  /\ accepting' = "check"
  /\ handler[p] = "none"
  /\ \E step \in {"loop", "over"} : handler' = [handler EXCEPT ![p] = step]
  /\ UNCHANGED <<stream, parts, processed>>

NobodyConnects ==
  /\ accepting = "accept"
  /\ accepting' = "check"
  /\ UNCHANGED <<handler, stream, parts, processed>>

(* handle_conn: the flag before each frame.                                *)
NextFrame(p) ==
  /\ handler[p] = "loop"
  /\ Handler(p, IF triggered THEN "over" ELSE "length")
  /\ UNCHANGED <<stream, processed>>

(* recv_raw.  What is not a length is read as one, and is longer than all  *)
(* that follows.  A request that is whole is handled.                      *)
Read(p) ==
  /\ Reading(p) /\ stream[p] # << >>
  /\ stream' = [stream EXCEPT ![p] = Tail(@)]
  /\ Handler(p, CASE handler[p] = "length" /\ Head(stream[p]) = "length" -> "body"
                  [] handler[p] = "body" -> "answer"
                  [] OTHER -> "lost")
  /\ processed' = [processed EXCEPT ![p] = IF handler[p] = "body" THEN @ + 1 ELSE @]

(* Mutant: the timeout is counted anew, without a look at the flag.        *)
ReadAgain(p) ==
  /\ Reading(p) /\ stream[p] = << >>
  /\ Handler(p, "length")
  /\ UNCHANGED <<stream, processed>>

(* The timeout drops what recv_raw has read of a frame.                    *)
ReadTimeout(p) ==
  /\ Reading(p) /\ stream[p] = << >>
  /\ Handler(p, "loop")
  /\ UNCHANGED <<stream, processed>>

(* send_raw, which has no timeout: it waits for a client that does not     *)
(* read.                                                                   *)
Answer(p) ==
  /\ handler[p] = "answer"
  /\ Handler(p, "loop")
  /\ UNCHANGED <<stream, processed>>

(* The connection ends: at the read, or at the write of the answer.        *)
ConnectionEnds(p) ==
  /\ Reading(p) \/ handler[p] = "answer"
  /\ Handler(p, "over")
  /\ UNCHANGED <<stream, processed>>

ServerNext ==
  \/ CheckFlag \/ NobodyConnects
  \/ \E p \in Peers :
       \/ Writes(p) \/ AcceptPeer(p) \/ NextFrame(p) \/ Read(p) \/ ReadTimeout(p)
       \/ Answer(p) \/ ConnectionEnds(p)

(* What a handler does by itself, or when thirty seconds are over.  That   *)
(* it gets rid of an answer is up to the client.                           *)
HandlerSteps(p) == NextFrame(p) \/ Read(p) \/ ReadTimeout(p)

-----------------------------------------------------------------------------
(* Properties.                                                             *)

Ended(p) == handler[p] \in {"none", "over"}

(* The accept loop and every handler are over.                             *)
Stopped == accepting = "over" /\ \A p \in Peers : Ended(p)

(* "Receive a length-prefixed ZPack message": a handler reads lengths as   *)
(* lengths.  It does not after a timeout in the middle of a frame.         *)
InStep == \A p \in Peers : handler[p] # "lost"
=============================================================================
