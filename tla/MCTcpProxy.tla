----------------------------- MODULE MCTcpProxy -----------------------------
(* Instances of TcpProxy for TLC.                                          *)
EXTENDS TcpProxy, TLC

CONSTANTS c1, c2

Symmetry == Permutations({c1, c2})
=============================================================================
