------------------------------ MODULE Handler ------------------------------
(***************************************************************************)
(* zht-transport: what HTWorker::process answers to a request that meets   *)
(* no other one, as functions of the table it finds.                       *)
(***************************************************************************)
EXTENDS HashTable

CONSTANT EmptyKey \* the key ""

ASSUME HandlerAssumption == EmptyKey \notin Keys

Opcodes == {"LOOKUP", "REMOVE", "INSERT", "APPEND", "CMPSWP", "STCHGCB"}

(* What a request leaves at its key in the table it finds.                 *)
Effect(tbl, r) ==
  CASE r.op = "INSERT" -> r.val
    [] r.op = "REMOVE" -> Absent
    [] r.op = "APPEND" -> Appended(tbl, r.key, r.val)
    [] r.op = "CMPSWP" -> Swapped(tbl, r.key, r.val, r.newval)
    [] OTHER -> tbl[r.key]

(* Its response; only a LOOKUP and a CAS mismatch return a value.          *)
Response(tbl, r) ==
  LET mismatch == r.op = "CMPSWP" /\ Effect(tbl, r) # r.newval
  IN  [code |-> CASE r.op \in {"LOOKUP", "REMOVE"} /\ ~Has(tbl, r.key) -> "-92"
                  [] mismatch -> "-02"
                  [] OTHER -> "000",
       val |-> IF r.op = "LOOKUP" \/ mismatch THEN tbl[r.key] ELSE Absent]

(* process as a whole.  A STATE_CHANGE_CALLBACK that no one else can help  *)
(* polls the same value until its lease has expired.                       *)
Handle(tbl, r) ==
  LET Rejected(code) == [table |-> tbl, reply |-> [code |-> code, val |-> Absent]]
  IN  CASE r.key = EmptyKey -> Rejected("-01")
        [] r.key # EmptyKey /\ r.op \notin Opcodes -> Rejected("-98")
        [] r.key # EmptyKey /\ r.op = "STCHGCB" ->
             Rejected(IF tbl[r.key] = r.val THEN "000" ELSE "-04")
        [] OTHER -> [table |-> [tbl EXCEPT ![r.key] = Effect(tbl, r)],
                     reply |-> Response(tbl, r)]
=============================================================================
