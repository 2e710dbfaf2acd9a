----------------------------- MODULE MCHTWorker -----------------------------
(* Instances of HTWorker for TLC: what the clients of each run may send.   *)
EXTENDS HTWorker, TLC

CONSTANTS t1, t2, k, lock, free, x, y

Request(op, key, val, newval, ticks) ==
  [op |-> op, key |-> key, val |-> <<val>>, newval |-> <<newval>>, lease |-> ticks]

FreeValue == <<free>>

TokenOf == (t1 :> x) @@ (t2 :> y)

(* Every opcode, an unknown one and the empty key; clients that wait for   *)
(* k while others write and remove it, with no time, with less than two    *)
(* polls' and with more; and a lock taken and released with compare_swap,  *)
(* by tokens of one's own.                                                 *)
AnyRequests ==
  [t \in Tasks |->
     {Request("LOOKUP", k, x, x, 0),  Request("REMOVE", k, x, x, 0),
      Request("INSERT", k, x, x, 0),  Request("APPEND", k, x, x, 0),
      Request("STCHGCB", k, x, x, 0), Request("STCHGCB", k, x, x, 3),
      Request("STCHGCB", k, x, x, 4),
      Request("OTHER", k, x, x, 0),   Request("INSERT", EmptyKey, x, x, 0),
      Request("OTHER", EmptyKey, x, x, 0),
      Request("CMPSWP", lock, free, TokenOf[t], 0),
      Request("CMPSWP", lock, TokenOf[t], free, 0)}]

ASSUME TokensAssumption == OwnTokens(lock, [t \in Tasks |-> <<TokenOf[t]>>])
=============================================================================
