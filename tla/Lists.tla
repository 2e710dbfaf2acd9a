------------------------------- MODULE Lists -------------------------------
(***************************************************************************)
(* What filtering makes of the Vec or the lines it runs over.              *)
(***************************************************************************)
EXTENDS Naturals, Sequences, FiniteSets

(* filter, retain, lines() with continue: the entries of a list at some of *)
(* its positions, in their order.  Not SelectSeq, which is recursive and   *)
(* so beyond the proofs.                                                   *)
Nth(positions, n) == CHOOSE i \in positions : Cardinality({j \in positions : j <= i}) = n

Filtered(list, positions) == [n \in 1..Cardinality(positions) |-> list[Nth(positions, n)]]
=============================================================================
