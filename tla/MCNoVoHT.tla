------------------------------ MODULE MCNoVoHT ------------------------------
(* Instances of NoVoHT for TLC.                                            *)
EXTENDS NoVoHT

CONSTANTS x, y, a, b, t1, t2

(* Two keys; a third that they make when they run together; a key and the  *)
(* one that begins with '~' and ends with it.                              *)
Apart == {<<x>>, <<y>>}
Glued == {<<x>>, <<y>>, <<x, y>>}
WithTilde == {<<x>>, <<Tilde, x>>}
=============================================================================
