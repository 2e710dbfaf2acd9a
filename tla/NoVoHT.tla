------------------------------- MODULE NoVoHT -------------------------------
(***************************************************************************)
(* zht-storage: the file-backed hash table.  Threads of one process share  *)
(* a table behind a parking_lot RwLock; a mutation holds the write lock    *)
(* while it changes the table and appends a line to the database file;     *)
(* flush holds the READ lock while it truncates the file and rewrites it;  *)
(* with_persistence replays the file into an empty table and then flushes. *)
(* The process may crash between any two writes to the file, and a write   *)
(* may fail, which the code only logs.                                     *)
(*                                                                         *)
(* The file is a sequence of lines; a line is the sequence of the writes   *)
(* that ended up on it: one, unless an earlier write failed before its     *)
(* newline and the next one was glued to what it had left.  writeln!       *)
(* hands an unbuffered File one piece of the format string at a time:      *)
(*    entry      key | TAB | value | TAB NEWLINE                           *)
(*    tombstone   ~  | key | TAB NEWLINE                                   *)
(* and a write records how many of its pieces reached the file.            *)
(***************************************************************************)
EXTENDS HashTable, FiniteSetsExt

Seqs == INSTANCE SequencesExt

CONSTANTS Threads,
          Nobody,        \* no thread holds the write lock
          Letters,       \* what keys are made of
          Tilde,         \* the letter '~', which a key may contain or not
          Junk,          \* the content of a value glued from two writes
          CrashInFlush,  \* may the process crash between truncate and rewrite?
          MaxLines,      \* bound on the lines appended to the file
          MaxCrashes,    \* bound on the crashes
          Faulty,        \* which of the operations on the file may fail
          MaxFaults      \* bound on the failures of each of them

Operations == {"write", "flush", "read"}

ASSUME NoVoHTAssumption ==
  /\ Nobody \notin Threads
  /\ \A k \in Keys : k \in Seq(Letters) /\ k # << >>
  /\ Junk \notin Atoms \union {Blank}
  /\ CrashInFlush \in BOOLEAN
  /\ Faulty \subseteq Operations
  /\ MaxLines \in Nat /\ MaxCrashes \in Nat /\ MaxFaults \in Nat

VARIABLES status,    \* "up", "opening" (inside with_persistence) or "down"
          table,     \* the HashMap
          file,      \* the database file
          writer,    \* the thread that holds the write lock
          pending,   \* the line that thread has still to write
          flush,     \* per thread: "no", "open" (read lock held), "run" (truncated)
          todo,      \* per thread: the keys its flush has still to write
          crashes,
          faults     \* how often each operation has failed

vars == <<status, table, file, writer, pending, flush, todo, crashes, faults>>

-----------------------------------------------------------------------------
(* The file format.                                                        *)

Line(k, v) == [key |-> k, val |-> v]

Pieces(w) == IF w.val = Absent THEN 3 ELSE 4

Write(w, n) == [key |-> w.key, val |-> w.val, n |-> n]

Full(w) == Write(w, Pieces(w))

Unterminated(f) ==
  Len(f) > 0 /\ LET l == f[Len(f)] IN l[Len(l)].n < Pieces(l[Len(l)])

(* The file opened with append(true) and n pieces of the line w written.   *)
AppendPieces(f, w, n) ==
  IF n = 0 THEN f
  ELSE IF Unterminated(f)
       THEN [f EXCEPT ![Len(f)] = Append(@, Write(w, n))]
       ELSE Append(f, <<Write(w, n)>>)

NoKey == << >>

Nothing == Line(NoKey, Absent)

(* What a write leaves of the first field of its line.                     *)
FieldPart(w) ==
  IF w.val # Absent THEN w.key
  ELSE IF w.n = 1 THEN <<Tilde>> ELSE <<Tilde>> \o w.key

(* The write whose TAB ends the first field, or the last one.              *)
FieldEnd(l) ==
  Min({i \in 1..Len(l) : l[i].n >= IF l[i].val = Absent THEN 3 ELSE 2} \union {Len(l)})

FirstField(l) == Seqs!FlattenSeq([i \in 1..FieldEnd(l) |-> FieldPart(l[i])])

(* What replaying a line does.  The first field is the key, whatever it    *)
(* was put together from; one that begins with '~' is the tombstone of the *)
(* rest of it.  Fields that other writes left behind the first are joined  *)
(* into the value.  trim() takes the trailing TABs off, so a line whose    *)
(* value is empty has no second field and is skipped as malformed.         *)
Effect(l) ==
  LET key == FirstField(l)
      w == l[Len(l)]
  IN  IF Head(key) = Tilde THEN Line(Tail(key), Absent)
      ELSE IF FieldEnd(l) < Len(l) THEN Line(key, <<Junk>>)
      ELSE IF w.val # Absent /\ w.n >= 3 /\ w.val # <<Blank>> THEN Line(key, w.val)
      ELSE Nothing

Effects(f) == [i \in 1..Len(f) |-> Effect(f[i])]

LinesOf(f, k) == {i \in 1..Len(f) : Effect(f[i]).key = k}

(* Mutant: the first line about a key decides.                             *)
RecoveredFirst(f) ==
  [k \in Keys |-> IF LinesOf(f, k) = {} THEN Absent
                  ELSE Effects(f)[Min(LinesOf(f, k))].val]

(* read_file_from_reader into an empty table: the last line about a key    *)
(* decides.                                                                *)
Recovered(f) ==
  [k \in Keys |-> IF LinesOf(f, k) = {} THEN Absent
                  ELSE Effects(f)[Max(LinesOf(f, k))].val]

-----------------------------------------------------------------------------
Init ==
  /\ status = "up"
  /\ table = Empty
  /\ file = << >>
  /\ writer = Nobody
  /\ pending = Nothing
  /\ flush = [t \in Threads |-> "no"]
  /\ todo = [t \in Threads |-> {}]
  /\ crashes = 0
  /\ faults = [o \in Operations |-> 0]

Fault(operation) ==
  /\ operation \in Faulty
  /\ faults[operation] < MaxFaults
  /\ faults' = [faults EXCEPT ![operation] = @ + 1]

(* Every mutation takes the write lock, changes one key and leaves one     *)
(* line to write before the lock is released.                              *)
Mutate(t, k, v) ==
  /\ status = "up"
  /\ writer = Nobody
  /\ \A u \in Threads : flush[u] = "no"
  /\ Len(file) < MaxLines
  /\ table' = [table EXCEPT ![k] = v]
  /\ writer' = t
  /\ pending' = Line(k, v)
  /\ UNCHANGED <<status, file, flush, todo, crashes, faults>>

Put(t, k, v) == Mutate(t, k, v)

(* Mutant: no tombstone is written.                                        *)
RemoveUnlogged(t, k) ==
  /\ status = "up" /\ writer = Nobody
  /\ \A u \in Threads : flush[u] = "no"
  /\ table[k] # Absent
  /\ table' = [table EXCEPT ![k] = Absent]
  /\ UNCHANGED <<status, file, writer, pending, flush, todo, crashes, faults>>

(* A key that is not there is an Err before anything is written.           *)
Remove(t, k) == table[k] # Absent /\ Mutate(t, k, Absent)

AppendTo(t, k, v) ==
  /\ Appended(table, k, v) \in Values
  /\ Mutate(t, k, Appended(table, k, v))

(* Writes a line even when nothing was swapped.                            *)
CompareSwap(t, k, expected, new) ==
  Mutate(t, k, Swapped(table, k, expected, new))

(* Mutants: written by a thread that does not hold the lock; without its   *)
(* newline.                                                                *)
WriteLineUnlocked(t) ==
  /\ file' = AppendPieces(file, pending, Pieces(pending))
  /\ writer' = Nobody
  /\ pending' = Nothing
  /\ UNCHANGED <<status, table, flush, todo, crashes, faults>>

WriteLineUnterminated(t) ==
  /\ writer = t
  /\ file' = AppendPieces(file, pending, Pieces(pending) - 1)
  /\ writer' = Nobody
  /\ pending' = Nothing
  /\ UNCHANGED <<status, table, flush, todo, crashes, faults>>

(* write_entry or write_removal, then the lock guard is dropped.           *)
WriteLine(t) ==
  /\ writer = t
  /\ file' = AppendPieces(file, pending, Pieces(pending))
  /\ writer' = Nobody
  /\ pending' = Nothing
  /\ UNCHANGED <<status, table, flush, todo, crashes, faults>>

(* The open or one of the writes fails: a warning, and Ok to the caller.   *)
WriteFails(t) ==
  /\ writer = t
  /\ \E n \in 0..Pieces(pending) - 1 : file' = AppendPieces(file, pending, n)
  /\ writer' = Nobody
  /\ pending' = Nothing
  /\ Fault("write")
  /\ UNCHANGED <<status, table, flush, todo, crashes>>

-----------------------------------------------------------------------------
(* flush() takes the read lock, so several threads may be inside it.  They *)
(* all iterate the same unchanged HashMap and write from offset 0, so two  *)
(* of them put the same bytes in the same place: writing an entry that is  *)
(* there already changes nothing.  Where a BufWriter cuts a line in two is *)
(* left out: replaying the first part of an entry restores the whole entry *)
(* or nothing, as not having written it would.                             *)

(* Mutant: the read lock is not taken.                                     *)
FlushBeginUnlocked(t) ==
  /\ status = "up"
  /\ flush[t] = "no"
  /\ flush' = [flush EXCEPT ![t] = "open"]
  /\ UNCHANGED <<status, table, file, writer, pending, todo, crashes, faults>>

FlushBegin(t) ==
  /\ status = "up"
  /\ writer = Nobody
  /\ flush[t] = "no"
  /\ flush' = [flush EXCEPT ![t] = "open"]
  /\ UNCHANGED <<status, table, file, writer, pending, todo, crashes, faults>>

Entry(k) == <<Full(Line(k, table[k]))>>

Written(k) == \E i \in 1..Len(file) : file[i] = Entry(k)

(* Mutants: entries that were in the file before are not written again;    *)
(* the file is not truncated.                                              *)
TruncateMissing(t) ==
  /\ flush[t] = "open"
  /\ file' = << >>
  /\ flush' = [flush EXCEPT ![t] = "run"]
  /\ todo' = [todo EXCEPT ![t] = {k \in Live(table) : ~Written(k)}]
  /\ UNCHANGED <<status, table, writer, pending, crashes, faults>>

TruncateKeeps(t) ==
  /\ flush[t] = "open"
  /\ flush' = [flush EXCEPT ![t] = "run"]
  /\ todo' = [todo EXCEPT ![t] = Live(table)]
  /\ UNCHANGED <<status, table, file, writer, pending, crashes, faults>>

Truncate(t) ==
  /\ flush[t] = "open"
  /\ file' = << >>
  /\ flush' = [flush EXCEPT ![t] = "run"]
  /\ todo' = [todo EXCEPT ![t] = Live(table)]
  /\ UNCHANGED <<status, table, writer, pending, crashes, faults>>

FlushEntry(t, k) ==
  /\ flush[t] = "run"
  /\ k \in todo[t]
  /\ file' = IF Written(k) THEN file ELSE Append(file, Entry(k))
  /\ todo' = [todo EXCEPT ![t] = @ \ {k}]
  /\ UNCHANGED <<status, table, writer, pending, flush, crashes, faults>>

(* Returns Ok; in with_persistence the constructor returns with it.        *)
FlushDone(t) ==
  /\ flush[t] = "run"
  /\ todo[t] = {}
  /\ flush' = [flush EXCEPT ![t] = "no"]
  /\ status' = "up"
  /\ UNCHANGED <<table, file, writer, pending, todo, crashes, faults>>

(* Returns Err: the open failed, or a write did after the truncation and   *)
(* left part of an entry.  (What another flush is about to write over is   *)
(* not left.)  A constructor that fails leaves no table behind.            *)
FlushFails(t) ==
  /\ flush[t] # "no"
  /\ \/ file' = file
     \/ /\ \A u \in Threads \ {t} : flush[u] = "no"
        /\ \E k \in todo[t], n \in 1..3 :
             file' = AppendPieces(file, Line(k, table[k]), n)
  /\ flush' = [flush EXCEPT ![t] = "no"]
  /\ todo' = [todo EXCEPT ![t] = {}]
  /\ status' = IF status = "opening" THEN "down" ELSE status
  /\ table' = IF status = "opening" THEN Empty ELSE table
  /\ Fault("flush")
  /\ UNCHANGED <<writer, pending, crashes>>

-----------------------------------------------------------------------------
Rewriting == \E t \in Threads : flush[t] = "run"

(* The process dies; a line it was writing may be there in part or whole.  *)
Crash ==
  /\ status # "down"
  /\ crashes < MaxCrashes
  /\ Rewriting => CrashInFlush
  /\ \E n \in 0..(IF writer = Nobody THEN 0 ELSE Pieces(pending)) :
       file' = AppendPieces(file, pending, n)
  /\ status' = "down"
  /\ table' = Empty
  /\ writer' = Nobody
  /\ pending' = Nothing
  /\ flush' = [t \in Threads |-> "no"]
  /\ todo' = [t \in Threads |-> {}]
  /\ crashes' = crashes + 1
  /\ UNCHANGED faults

(* with_persistence: replay the file, then flush.  A read error stops the  *)
(* replay where it is, with a warning, and the flush goes on.              *)
Load(t) ==
  /\ status = "down"
  /\ \/ table' = Recovered(file) /\ UNCHANGED faults
     \/ /\ \E n \in 0..Len(file) - 1 : table' = Recovered(SubSeq(file, 1, n))
        /\ Fault("read")
  /\ status' = "opening"
  /\ flush' = [flush EXCEPT ![t] = "open"]
  /\ UNCHANGED <<file, writer, pending, todo, crashes>>

Next ==
  \/ \E t \in Threads, k \in Keys :
       \/ Remove(t, k)
       \/ FlushEntry(t, k)
       \/ \E v \in [1..1 -> Atoms] : Put(t, k, v) \/ AppendTo(t, k, v)
       \/ \E e, v \in [1..1 -> Atoms] : CompareSwap(t, k, e, v)
  \/ \E t \in Threads :
       \/ WriteLine(t)  \/ WriteFails(t)
       \/ FlushBegin(t) \/ Truncate(t) \/ FlushDone(t) \/ FlushFails(t)
       \/ Load(t)
  \/ Crash

Spec == Init /\ [][Next]_vars

-----------------------------------------------------------------------------
(* Properties.                                                             *)

AllValues == Values \union {<<Junk>>}

(* What the operations and the replay put into the table, the file and the *)
(* fields of the lock and of flush stays within their types.               *)
TypeOK ==
  /\ status \in {"up", "opening", "down"}
  /\ table \in [Keys -> AllValues \union {Absent}]
  /\ file \in Seq(Seq([key : Keys, val : AllValues \union {Absent}, n : 1..4]))
  /\ writer \in Threads \union {Nobody}
  /\ pending \in [key : Keys \union {NoKey}, val : AllValues \union {Absent}]
  /\ flush \in [Threads -> {"no", "open", "run"}]
  /\ todo \in [Threads -> SUBSET Keys]
  /\ crashes \in 0..MaxCrashes
  /\ faults \in [Operations -> 0..MaxFaults]

(* Nobody rewrites the file while a mutation is half done: the lock keeps  *)
(* flush, which reads the table, away from a writer.                       *)
LockDiscipline ==
  writer # Nobody =>
    /\ status = "up"
    /\ \A t \in Threads : flush[t] = "no"

(* Whenever no write and no rewrite is in progress, a restart would bring  *)
(* back exactly the table the process is serving: what put, append,        *)
(* compare_swap and remove have answered for is on the disk.               *)
QuiescentDurable ==
  status = "up" /\ writer = Nobody /\ ~Rewriting => Recovered(file) = table

(* The same without the exception for a rewrite in progress: at no moment  *)
(* is an acknowledged value only in memory ("append-only durability").     *)
AlwaysRecoverable ==
  status = "up" /\ writer = Nobody => Recovered(file) = table

(* A write that fails is swallowed, and the line after it may be glued to  *)
(* what it left.  What a restart would then change stops at three keys: of *)
(* the lost line, of the glued one, and the key the two make together; as  *)
(* long as no flush has failed, which may leave the file without any key.  *)
DamageContained ==
  status = "up" /\ writer = Nobody /\ ~Rewriting /\ faults["flush"] = 0 =>
    Cardinality({k \in Keys : Recovered(file)[k] # table[k]}) <= 3 * faults["write"]

(* While flushes overlap, every entry is in the file or still to be        *)
(* written by one flush that will write all of the missing ones.           *)
FlushCovers ==
  Rewriting =>
    \E t \in Threads :
      /\ flush[t] = "run"
      /\ \A k \in Live(table) : k \in todo[t] \/ Written(k)

(* A flush that returns Ok leaves a file that restores the whole table,    *)
(* whatever earlier failed writes had left in it.                          *)
FlushRestores ==
  [][\A t \in Threads : FlushDone(t) => Recovered(file') = table]_vars

(* The promise of DurableMap.  While a flush rewrites the file its content *)
(* counts as the table's, which is right as long as no crash falls there.  *)
Promise == INSTANCE DurableMap WITH
  table  <- IF status = "up" THEN table ELSE Empty,
  stable <- IF Rewriting THEN table ELSE Recovered(file),
  up     <- status = "up"

Durable == Promise!Spec
=============================================================================
