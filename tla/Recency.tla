------------------------------ MODULE Recency ------------------------------
(***************************************************************************)
(* What an LRU cache promises, with no deque in sight: values, and which   *)
(* key was used more recently than which.  A full cache that needs room    *)
(* gives up the key than which every other was used more recently.         *)
(***************************************************************************)
EXTENDS Naturals, FiniteSets

CONSTANTS Keys, Vals, Absent, MaxSize

VARIABLES value,  \* the value of each key, or Absent
          newer,  \* <<k, j>>: k was used more recently than j
          result  \* what the last operation returned

vars == <<value, newer, result>>

Cached == {k \in Keys : value[k] # Absent}

Init ==
  /\ value = [k \in Keys |-> Absent]
  /\ newer = {}
  /\ result = Absent

Without(k) == {p \in newer : k \notin {p[1], p[2]}}
Newest(k) == Without(k) \union ({k} \X (Cached \ {k}))

Oldest == {k \in Cached : \A j \in Cached \ {k} : <<j, k>> \in newer}

(* There is room for k, or it was there already.                           *)
Put(k, v) ==
  /\ Cardinality(Cached \union {k}) <= MaxSize
  /\ value' = [value EXCEPT ![k] = v]
  /\ newer' = Newest(k)
  /\ result' = Absent

(* There is none: the oldest key makes room; its value may be returned.    *)
PutEvicting(k, v, old) ==
  /\ Cardinality(Cached \union {k}) > MaxSize
  /\ old \in Oldest
  /\ value' = [value EXCEPT ![k] = v, ![old] = Absent]
  /\ newer' = {p \in Newest(k) : old \notin {p[1], p[2]}}
  /\ result' \in {Absent, value[old]}

Fetch(k) ==
  /\ result' = value[k]
  /\ newer' = IF k \in Cached THEN Newest(k) ELSE newer
  /\ UNCHANGED value

Touch(k) ==
  /\ k \in Cached
  /\ newer' = Newest(k)
  /\ result' = Absent
  /\ UNCHANGED value

Remove(k) ==
  /\ result' = value[k]
  /\ value' = [value EXCEPT ![k] = Absent]
  /\ newer' = Without(k)

Clear == value' = [k \in Keys |-> Absent] /\ newer' = {} /\ result' = Absent

Next ==
  \/ \E k \in Keys, v \in Vals :
       Put(k, v) \/ \E old \in Keys : PutEvicting(k, v, old)
  \/ \E k \in Keys : Fetch(k) \/ Touch(k) \/ Remove(k)
  \/ Clear

Spec == Init /\ [][Next]_vars
=============================================================================
