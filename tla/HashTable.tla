----------------------------- MODULE HashTable -----------------------------
(***************************************************************************)
(* The in-memory half of NoVoHT: what each operation does to the           *)
(* HashMap<String, String>, as functions of the table it finds.  A value   *)
(* is the non-empty sequence of the atoms that ':' separates in the        *)
(* string, so that append is concatenation; the atom Blank is the empty    *)
(* string, so "" is <<Blank>> and ":x" is <<Blank, x>>.                    *)
(***************************************************************************)
EXTENDS Naturals, Sequences

CONSTANTS Keys,     \* the keys of the table
          Atoms,    \* what values are made of
          Blank,    \* the empty string, which may or may not be in Atoms
          MaxLen,   \* bound on the atoms in a value
          Absent    \* "this key is not in the table"

Values == UNION {[1..n -> Atoms] : n \in 1..MaxLen}

ASSUME TableAssumption ==
  /\ MaxLen \in Nat \ {0}
  /\ Absent \notin Seq(Atoms)

Tables == [Keys -> Values \union {Absent}]

Empty == [k \in Keys |-> Absent]

Live(tbl) == {k \in Keys : tbl[k] # Absent}

(* get, contains.                                                          *)
Has(tbl, k) == tbl[k] # Absent

(* append: "old:value" on a key that exists, the bare value otherwise.     *)
Appended(tbl, k, v) == IF tbl[k] = Absent THEN v ELSE tbl[k] \o v

(* Mutant: swaps without comparing.                                        *)
SwappedAlways(tbl, k, expected, new) == new

(* compare_swap: the value of the key after the operation, which is also   *)
(* what it returns.  A key that does not exist is created with the new     *)
(* value whatever was expected.                                            *)
Swapped(tbl, k, expected, new) ==
  IF tbl[k] \in {expected, Absent} THEN new ELSE tbl[k]
=============================================================================
