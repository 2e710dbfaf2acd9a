--------------------------- MODULE MCReplication ---------------------------
(* Instances of Replication for TLC.                                       *)
EXTENDS Replication

CONSTANTS self, n1, n2, k, a

Three == <<self, n1, n2>>
Hashes == [x \in Keys |-> 0]
=============================================================================
