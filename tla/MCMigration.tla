---------------------------- MODULE MCMigration ----------------------------
(* Instances of Migration for TLC.                                         *)
EXTENDS Migration, TLC

CONSTANTS self, n1, n2, k1, k2, a, b, m1, m2

Pair == <<self, n1>>
Three == <<self, n1, n2>>
Hashes == k1 :> 0 @@ k2 :> 1
Stored == k1 :> a @@ k2 :> b
=============================================================================
