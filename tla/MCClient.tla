------------------------------ MODULE MCClient ------------------------------
(* An instance of Client for TLC: two clients, one shared by two tasks,    *)
(* that read and write one key and append to another.                      *)
EXTENDS Client, TLC

CONSTANTS k, log, n1, n2, A, B, t1, t2, t3, x, y, z

Request(op, key, val, newval) ==
  [op |-> op, key |-> key, val |-> <<val>>, newval |-> <<newval>>]

OwnerOf == (t1 :> A) @@ (t2 :> A) @@ (t3 :> B)
SameList == [c \in Clients |-> <<n1, n2>>]

(* The keys are "k" and "log", hashed in 12 bits.                          *)
Hashes == (k :> 107) @@ (log :> 1572)
ASSUME HashesAssumption ==
  Hashes = (k :> GenHash(<<107>>, 12)) @@ (log :> GenHash(<<108, 111, 103>>, 12))

(* t1 writes and waits, t2 of the same client writes, t3 of the other      *)
(* swaps, removes, appends to the log and forgets a key.                   *)
AnyRequests ==
  (t1 :> {Request("INSERT", k, x, x), Request("STCHGCB", k, y, x)})
  @@ (t2 :> {Request("INSERT", k, z, x), Request("LOOKUP", k, x, x)})
  @@ (t3 :> {Request("CMPSWP", k, x, y), Request("REMOVE", k, x, x),
             Request("APPEND", log, y, x), Request("INSERT", EmptyKey, x, x)})
=============================================================================
