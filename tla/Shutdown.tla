------------------------------ MODULE Shutdown ------------------------------
(***************************************************************************)
(* zht-transport, shutdown.rs: ShutdownController and ShutdownSignal, a    *)
(* flag to poll and a broadcast channel to wait on.  The file is not       *)
(* compiled at this commit.                                                *)
(***************************************************************************)
EXTENDS Naturals

CONSTANTS Waiters,      \* the tasks that call recv, once each
          MaxShutdowns  \* bound on the calls of shutdown

ASSUME ShutdownAssumption == MaxShutdowns \in Nat

VARIABLES triggered,  \* the flag
          stopping,   \* where the controller is: "idle", "stored", "dropped"
          messages,   \* the messages sent on the channel
          waiter,     \* per waiter: where its recv is
          since       \* per waiter: the messages sent before it subscribed

shutdownVars == <<triggered, stopping, messages, waiter, since>>

ShutdownInit ==
  /\ triggered = FALSE
  /\ stopping = "idle"
  /\ messages = 0
  /\ waiter = [w \in Waiters |-> "none"]
  /\ since = [w \in Waiters |-> 0]

(* shutdown: the flag, then the message to those who have subscribed.      *)
Store ==
  /\ stopping = "idle"
  /\ messages < MaxShutdowns
  /\ stopping' = "stored"
  /\ triggered' = TRUE
  /\ UNCHANGED <<messages, waiter, since>>

Notify ==
  /\ stopping = "stored"
  /\ stopping' = "idle"
  /\ messages' = messages + 1
  /\ UNCHANGED <<triggered, waiter, since>>

(* The last controller goes, which closes the channel.                     *)
DropController ==
  /\ stopping = "idle"
  /\ stopping' = "dropped"
  /\ UNCHANGED <<triggered, messages, waiter, since>>

(* recv: the flag first, then a new receiver, which sees what is sent from *)
(* then on.                                                                *)
Check(w) ==
  /\ waiter[w] = "none"
  /\ waiter' = [waiter EXCEPT ![w] = IF triggered THEN "returned" ELSE "checked"]
  /\ UNCHANGED <<triggered, stopping, messages, since>>

Resubscribe(w) ==
  /\ waiter[w] = "checked"
  /\ waiter' = [waiter EXCEPT ![w] = "waiting"]
  /\ since' = [since EXCEPT ![w] = messages]
  /\ UNCHANGED <<triggered, stopping, messages>>

(* A message, or the error of a closed channel: recv ignores which.        *)
Wake(w) ==
  /\ waiter[w] = "waiting"
  /\ messages > since[w] \/ stopping = "dropped"
  /\ waiter' = [waiter EXCEPT ![w] = "returned"]
  /\ UNCHANGED <<triggered, stopping, messages, since>>

ShutdownNext ==
  \/ Store \/ Notify \/ DropController
  \/ \E w \in Waiters : Check(w) \/ Resubscribe(w) \/ Wake(w)

-----------------------------------------------------------------------------
(* Properties.                                                             *)

(* A task that has subscribed when shutdown is under way is woken.         *)
Woken == \A w \in Waiters : waiter[w] = "waiting" /\ stopping = "stored" ~> waiter[w] = "returned"

(* "Wait until the shutdown signal is triggered": with the signal, recv    *)
(* returns.  It does not for a task between the flag and the subscription. *)
Informed == \A w \in Waiters : triggered /\ waiter[w] # "none" ~> waiter[w] = "returned"
=============================================================================
