------------------------------ MODULE HTWorker ------------------------------
(***************************************************************************)
(* zht-transport: HTWorker::process, run by the tasks of all connections   *)
(* against one in-memory NoVoHT.  The table's RwLock makes each storage    *)
(* operation one step; the metrics mutex is taken and released once per    *)
(* update, so the counters move in steps of their own.  Time is counted in *)
(* ticks: each waiting task has what is left of its lease and its sleep.   *)
(***************************************************************************)
EXTENDS HashTable, FiniteSets

CONSTANTS Tasks,        \* connection handlers
          EmptyKey,     \* the key ""
          RequestsOf,   \* per task: the requests its client may send
          Free,         \* the value of a lock nobody holds, see CasExcludes
          PollInterval, \* SCCB_POLL_DEFAULT_INTERVAL, in ticks
          MaxRequests   \* bound on the requests processed

Opcodes == {"LOOKUP", "REMOVE", "INSERT", "APPEND", "CMPSWP", "STCHGCB"}

(* Status codes: success, empty key, CAS mismatch, lease expired,          *)
(* non-existent key, unrecognized opcode.                                  *)
Codes == {"000", "-01", "-02", "-04", "-92", "-98"}

Requests ==
  [op : Opcodes \union {"OTHER"}, key : Keys \union {EmptyKey},
   val : Values, newval : Values, lease : Nat]

ASSUME HTWorkerAssumption ==
  /\ EmptyKey \notin Keys
  /\ RequestsOf \in [Tasks -> SUBSET Requests]
  /\ PollInterval \in Nat \ {0}
  /\ MaxRequests \in Nat

VARIABLES table,    \* the NoVoHT behind the worker
          metrics,  \* HTWorkerMetrics
          pc,       \* where process() is in each task
          req,      \* the request of each task
          reply,    \* the response of its last request
          lease,    \* STATE_CHANGE_CALLBACK: ticks to the deadline
          sleep,    \* STATE_CHANGE_CALLBACK: ticks to the next poll
          polls,    \* STATE_CHANGE_CALLBACK: polls made (history)
          answers   \* how often each code was answered (history)

waiting == <<lease, sleep, polls>>
vars == <<table, metrics, pc, req, reply, waiting, answers>>

NoRequest == [op |-> "OTHER", key |-> EmptyKey, val |-> << >>, newval |-> << >>, lease |-> 0]

(* HTWorkerMetrics::default(): a counter and an error counter per opcode.  *)
NoMetrics ==
  [total |-> 0, errors |-> 0, unrecognized |-> 0,
   count |-> [o \in Opcodes |-> 0], err |-> [o \in Opcodes |-> 0]]

Init ==
  /\ table = Empty
  /\ metrics = NoMetrics
  /\ pc = [t \in Tasks |-> "idle"]
  /\ req = [t \in Tasks |-> NoRequest]
  /\ reply = [t \in Tasks |-> [lease |-> "", val |-> Absent]]
  /\ lease = [t \in Tasks |-> 0]
  /\ sleep = [t \in Tasks |-> 0]
  /\ polls = [t \in Tasks |-> 0]
  /\ answers = [c \in Codes |-> 0]

Goto(t, label) == pc' = [pc EXCEPT ![t] = label]

Respond(t, code, val) ==
  /\ Goto(t, "idle")
  /\ reply' = [reply EXCEPT ![t] = [lease |-> code, val |-> val]]
  /\ answers' = [answers EXCEPT ![code] = @ + 1]

(* The response is settled but its error has still to be counted.          *)
Fail(t, code, val) ==
  /\ Goto(t, "error")
  /\ reply' = [reply EXCEPT ![t] = [lease |-> code, val |-> val]]
  /\ UNCHANGED answers

-----------------------------------------------------------------------------
Accept(t, r) ==
  /\ pc[t] = "idle"
  /\ metrics.total < MaxRequests
  /\ req' = [req EXCEPT ![t] = r]
  /\ metrics' = [metrics EXCEPT !.total = @ + 1]
  /\ Goto(t, "validate")
  /\ UNCHANGED <<table, reply, waiting, answers>>

(* Mutant: the error is counted here and once more with the response.      *)
RejectEmptyKeyTwice(t) ==
  /\ pc[t] = "validate"
  /\ req[t].key = EmptyKey
  /\ metrics' = [metrics EXCEPT !.errors = @ + 1]
  /\ IF req[t].op \in Opcodes THEN Fail(t, "-01", Absent) ELSE Respond(t, "-01", Absent)
  /\ UNCHANGED <<table, req, waiting>>

RejectEmptyKey(t) ==
  /\ pc[t] = "validate"
  /\ req[t].key = EmptyKey
  /\ metrics' = IF req[t].op \in Opcodes
                THEN [metrics EXCEPT !.errors = @ + 1, !.err[req[t].op] = @ + 1]
                ELSE [metrics EXCEPT !.errors = @ + 1]
  /\ Respond(t, "-01", Absent)
  /\ UNCHANGED <<table, req, waiting>>

RejectOpcode(t) ==
  /\ pc[t] = "validate"
  /\ req[t].key # EmptyKey
  /\ req[t].op \notin Opcodes
  /\ metrics' = [metrics EXCEPT !.errors = @ + 1, !.unrecognized = @ + 1]
  /\ Respond(t, "-98", Absent)
  /\ UNCHANGED <<table, req, waiting>>

Count(t) ==
  /\ pc[t] = "validate"
  /\ req[t].key # EmptyKey
  /\ req[t].op \in Opcodes
  /\ metrics' = [metrics EXCEPT !.count[req[t].op] = @ + 1]
  /\ Goto(t, "execute")
  /\ UNCHANGED <<table, req, reply, waiting, answers>>

Execute(t, op) ==
  /\ pc[t] = "execute"
  /\ req[t].op = op
  /\ UNCHANGED <<metrics, req>>

Lookup(t) ==
  /\ Execute(t, "LOOKUP")
  /\ IF Has(table, req[t].key)
     THEN Respond(t, "000", table[req[t].key]) ELSE Fail(t, "-92", Absent)
  /\ UNCHANGED <<table, waiting>>

Insert(t) ==
  /\ Execute(t, "INSERT")
  /\ table' = [table EXCEPT ![req[t].key] = req[t].val]
  /\ Respond(t, "000", Absent)
  /\ UNCHANGED waiting

Remove(t) ==
  /\ Execute(t, "REMOVE")
  /\ table' = [table EXCEPT ![req[t].key] = Absent]
  /\ IF Has(table, req[t].key)
     THEN Respond(t, "000", Absent) ELSE Fail(t, "-92", Absent)
  /\ UNCHANGED waiting

AppendTo(t) ==
  /\ Execute(t, "APPEND")
  /\ table' = [table EXCEPT ![req[t].key] = Appended(table, req[t].key, req[t].val)]
  /\ Respond(t, "000", Absent)
  /\ UNCHANGED waiting

(* Success is told from mismatch by comparing the value after the          *)
(* operation with the new one; only a mismatch returns the value.          *)
CompareSwap(t) ==
  /\ Execute(t, "CMPSWP")
  /\ LET r == req[t]
         actual == Swapped(table, r.key, r.val, r.newval)
     IN  /\ table' = [table EXCEPT ![r.key] = actual]
         /\ IF actual = r.newval
            THEN Respond(t, "000", Absent) ELSE Fail(t, "-02", actual)
  /\ UNCHANGED waiting

-----------------------------------------------------------------------------
(* STATE_CHANGE_CALLBACK: the deadline is fixed, then the key is polled    *)
(* until it matches or a poll that missed finds the deadline passed.       *)

StartPolling(t) ==
  /\ Execute(t, "STCHGCB")
  /\ lease' = [lease EXCEPT ![t] = req[t].lease]
  /\ sleep' = [sleep EXCEPT ![t] = 0]
  /\ polls' = [polls EXCEPT ![t] = 0]
  /\ Goto(t, "poll")
  /\ UNCHANGED <<table, reply, answers>>

Poll(t) ==
  /\ pc[t] = "poll"
  /\ sleep[t] = 0
  /\ polls' = [polls EXCEPT ![t] = @ + 1]
  /\ IF table[req[t].key] = req[t].val
     THEN Respond(t, "000", Absent)
     ELSE Goto(t, "missed") /\ UNCHANGED <<reply, answers>>
  /\ UNCHANGED <<table, metrics, req, lease, sleep>>

(* Mutants: a deadline that is reached has not passed; no sleep.            *)
ExpireBelow(t) ==
  /\ pc[t] = "missed"
  /\ lease[t] < 0
  /\ Fail(t, "-04", Absent)
  /\ UNCHANGED <<table, metrics, req, waiting>>

SleepNot(t) ==
  /\ pc[t] = "missed"
  /\ lease[t] > 0
  /\ Goto(t, "poll")
  /\ UNCHANGED <<table, metrics, req, reply, waiting, answers>>

Expire(t) ==
  /\ pc[t] = "missed"
  /\ lease[t] = 0
  /\ Fail(t, "-04", Absent)
  /\ UNCHANGED <<table, metrics, req, waiting>>

Sleep(t) ==
  /\ pc[t] = "missed"
  /\ lease[t] > 0
  /\ sleep' = [sleep EXCEPT ![t] = PollInterval]
  /\ Goto(t, "poll")
  /\ UNCHANGED <<table, metrics, req, reply, lease, polls, answers>>

CountError(t) ==
  /\ pc[t] = "error"
  /\ metrics' = [metrics EXCEPT !.errors = @ + 1, !.err[req[t].op] = @ + 1]
  /\ Respond(t, reply[t].lease, reply[t].val)
  /\ UNCHANGED <<table, req, waiting>>

(* Time passes for everyone who waits for it.                              *)
Tick ==
  /\ \E t \in Tasks : pc[t] \in {"poll", "missed"} /\ lease[t] + sleep[t] > 0
  /\ lease' = [t \in Tasks |-> IF lease[t] > 0 THEN lease[t] - 1 ELSE 0]
  /\ sleep' = [t \in Tasks |-> IF sleep[t] > 0 THEN sleep[t] - 1 ELSE 0]
  /\ UNCHANGED <<table, metrics, pc, req, reply, polls, answers>>

Step(t) ==
  \/ RejectEmptyKey(t) \/ RejectOpcode(t) \/ Count(t)
  \/ Lookup(t) \/ Insert(t) \/ Remove(t) \/ AppendTo(t) \/ CompareSwap(t)
  \/ StartPolling(t) \/ Poll(t) \/ Expire(t) \/ Sleep(t)
  \/ CountError(t)

Next ==
  \/ \E t \in Tasks : \E r \in RequestsOf[t] : Accept(t, r)
  \/ \E t \in Tasks : Step(t)
  \/ Tick

Spec == Init /\ [][Next]_vars

(* The runtime keeps running a task that can run, and time goes on.        *)
Fairness == WF_vars(Tick) /\ \A t \in Tasks : WF_vars(Step(t))

FairSpec == Spec /\ Fairness

-----------------------------------------------------------------------------
(* Properties.                                                             *)

(* What process() leaves in the table, the metrics and its own state stays *)
(* within their types: no sleep is longer than the interval.               *)
TypeOK ==
  /\ table \in Tables
  /\ metrics \in [total : 0..MaxRequests, errors : Nat, unrecognized : Nat,
                  count : [Opcodes -> Nat], err : [Opcodes -> Nat]]
  /\ pc \in [Tasks -> {"idle", "validate", "execute", "poll", "missed", "error"}]
  /\ \A t \in Tasks : req[t] \in RequestsOf[t] \union {NoRequest}
  /\ reply \in [Tasks -> [lease : Codes \union {""}, val : Values \union {Absent}]]
  /\ lease \in [Tasks -> Nat] /\ sleep \in [Tasks -> 0..PollInterval]
  /\ polls \in [Tasks -> Nat]
  /\ answers \in [Codes -> Nat]

Told == answers["000"] + answers["-01"] + answers["-02"] + answers["-04"]
          + answers["-92"] + answers["-98"]

Busy == {t \in Tasks : pc[t] # "idle"}

(* However the lock sections of concurrent requests interleave, the        *)
(* counters agree with what the clients were told: every request is        *)
(* counted once, and every answer that is not "000" is exactly one error.  *)
MetricsAgree ==
  /\ metrics.total = Told + Cardinality(Busy)
  /\ metrics.errors = Told - answers["000"]
  /\ metrics.unrecognized = answers["-98"]

(* A wait is bounded by its lease whatever the scheduler does: no more     *)
(* polls than fit into the lease, plus the last one.                       *)
PollsBounded ==
  \A t \in Tasks :
    pc[t] \in {"poll", "missed"} =>
      polls[t] <= (req[t].lease + PollInterval - 1) \div PollInterval + 1

(* Clients use compare_swap as a lock: one key, which every client only    *)
(* reads, or swaps between Free and a token of its own.                    *)
OwnTokens(lock, token) ==
  /\ \A t, u \in Tasks : token[t] = token[u] => t = u
  /\ \A t \in Tasks : token[t] # Free /\ token[t] # Absent
  /\ \A t \in Tasks : \A r \in RequestsOf[t] :
       /\ r.key = lock =>
            \/ r.op \notin {"INSERT", "REMOVE", "APPEND", "CMPSWP"}
            \/ r.op = "CMPSWP" /\ <<r.val, r.newval>> \in {<<Free, token[t]>>, <<token[t], Free>>}
       /\ r.op = "CMPSWP" /\ r.val = Free => r.key = lock

(* A client holds it from the answer "000" to its acquire until it sends   *)
(* something else.                                                         *)
Holds(t) ==
  /\ pc[t] = "idle"
  /\ req[t].op = "CMPSWP"
  /\ req[t].val = Free
  /\ reply[t].lease = "000"

(* Though success is judged by the value after the swap, which is the new  *)
(* one also when someone else has put it there, one client holds the lock. *)
CasExcludes == \A t, u \in Tasks : Holds(t) /\ Holds(u) => t = u

(* Every request is answered, a wait whose key never matches included.     *)
Answered == \A t \in Tasks : pc[t] # "idle" ~> pc[t] = "idle"
=============================================================================
