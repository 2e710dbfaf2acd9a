----------------------------- MODULE DurableMap -----------------------------
(***************************************************************************)
(* What a persistent NoVoHT promises to its users, with no file in sight:  *)
(* a table whose updates become stable one at a time, and a crash that     *)
(* loses at most the update nobody has been told about yet.                *)
(***************************************************************************)
CONSTANTS Keys, Values, Absent

VARIABLES table,    \* what the operations of the process see
          stable,   \* what a restart would bring back
          up        \* is the process serving operations?

vars == <<table, stable, up>>

Empty == [k \in Keys |-> Absent]

(* The table and its stable copy stay within their types.                  *)
TypeOK ==
  /\ table  \in [Keys -> Values \union {Absent}]
  /\ stable \in [Keys -> Values \union {Absent}]
  /\ up \in BOOLEAN

Init ==
  /\ table  = Empty
  /\ stable = Empty
  /\ up = TRUE

(* One key changes; the previous update must have become stable first.     *)
Update(k, v) ==
  /\ up
  /\ table = stable
  /\ table' = [table EXCEPT ![k] = v]
  /\ UNCHANGED <<stable, up>>

(* The update in flight becomes stable; only now does its caller return.   *)
Settle ==
  /\ up
  /\ stable' = table
  /\ UNCHANGED <<table, up>>

(* The memory is gone; the update in flight survives whole or not at all.  *)
Crash ==
  /\ up
  /\ up' = FALSE
  /\ stable' \in {stable, table}
  /\ table' = Empty

Recover ==
  /\ ~up
  /\ up' = TRUE
  /\ table' = stable
  /\ UNCHANGED stable

Next ==
  \/ \E k \in Keys, v \in Values \union {Absent} : Update(k, v)
  \/ Settle
  \/ Crash
  \/ Recover

Spec == Init /\ [][Next]_vars
=============================================================================
