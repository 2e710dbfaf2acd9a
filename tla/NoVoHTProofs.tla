---------------------------- MODULE NoVoHTProofs ----------------------------
(***************************************************************************)
(* Theorems about NoVoHT, for any keys, values, threads and bounds.        *)
(***************************************************************************)
EXTENDS NoVoHT, SequenceTheorems, FiniteSetTheorems, WellFoundedInduction, TLAPS

-----------------------------------------------------------------------------
(* Facts about the helpers.                                                *)

(* A non-empty set of positions of a file has a largest element.           *)
LEMMA MaxIsLargest ==
  ASSUME NEW n \in Nat, NEW S \in SUBSET (1..n), S # {}
  PROVE  Max(S) \in S /\ \A s \in S : s <= Max(S)
<1> DEFINE T == {n - s : s \in S}
<1>1. T \in SUBSET Nat /\ T # {}
  <2>1. \A s \in S : s \in 1..n
    OBVIOUS
  <2>2. \A s \in S : n - s \in Nat
    BY <2>1
  <2> QED
    BY <2>2
<1>2. PICK x \in T : \A y \in T : ~ (<<y, x>> \in OpToRel(<, Nat))
  <2> HIDE DEF T
  <2> QED
    BY <1>1, WFMin, NatLessThanWellFounded
<1>3. \A y \in T : x <= y
  <2> SUFFICES ASSUME NEW y \in T PROVE x <= y
    OBVIOUS
  <2>1. x \in Nat /\ y \in Nat
    BY <1>1
  <2>2. <<y, x>> \in OpToRel(<, Nat) <=> y < x
    BY <2>1 DEF OpToRel
  <2>3. ~(y < x)
    BY <1>2, <2>2, Zenon
  <2> QED
    BY <2>1, <2>3
<1>4. PICK m \in S : x = n - m
  OBVIOUS
<1>5. ASSUME NEW s \in S PROVE s <= m
  <2>1. n \in Nat /\ s \in Nat /\ m \in Nat
    <3> HIDE DEF T
    <3>1. s \in 1..n /\ m \in 1..n
      BY Zenon
    <3> QED
      BY <3>1
  <2>2. n - s \in T
    OBVIOUS
  <2>3. n - m <= n - s
    BY <1>3, <1>4, <2>2, Zenon
  <2> QED
    BY <2>1, <2>3
<1> QED
  BY <1>4, <1>5 DEF Max

Contents == AllValues \union {Absent}

Writes == [key : Keys, val : Contents, n : 1..4]

FileOK(f) ==
  /\ f \in Seq(Seq(Writes))
  /\ \A i \in 1..Len(f) : f[i] # << >>

(* What replaying a line stores is something a table can hold.             *)
LEMMA EffectType ==
  ASSUME NEW l \in Seq(Writes), l # << >>
  PROVE  Effect(l).val \in Contents
<1>1. Len(l) \in Nat \ {0}
  BY EmptySeq
<1>2. Absent \in Contents /\ <<Junk>> \in Contents
  BY DEF Contents, AllValues
<1>3. l[Len(l)].val \in Contents
  <2>1. Len(l) \in 1..Len(l)
    BY <1>1
  <2>2. l[Len(l)] \in Writes
    BY <2>1, ElementOfSeq
  <2> QED
    BY <2>2 DEF Writes
<1> QED
  BY <1>2, <1>3 DEF Effect, Nothing, Line

(* The last line about a key decides.                                      *)
LEMMA RecoveredIs ==
  ASSUME NEW f, FileOK(f), NEW k \in Keys
  PROVE  /\ LinesOf(f, k) = {} => Recovered(f)[k] = Absent
         /\ LinesOf(f, k) # {} =>
              /\ Max(LinesOf(f, k)) \in LinesOf(f, k)
              /\ Recovered(f)[k] = Effect(f[Max(LinesOf(f, k))]).val
<1>1. LinesOf(f, k) \in SUBSET (1..Len(f)) /\ Len(f) \in Nat
  BY DEF LinesOf, FileOK
<1>2. LinesOf(f, k) # {} => Max(LinesOf(f, k)) \in LinesOf(f, k)
  BY <1>1, MaxIsLargest
<1> QED
  BY <1>1, <1>2 DEF Recovered, Effects

(* Replaying a file gives a table.                                         *)
LEMMA RecoveredType ==
  ASSUME NEW f, FileOK(f)
  PROVE  Recovered(f) \in [Keys -> Contents]
<1> USE DEF FileOK
<1> SUFFICES ASSUME NEW k \in Keys, LinesOf(f, k) # {}
             PROVE  Effect(f[Max(LinesOf(f, k))]).val \in Contents
  <2> DEFINE value(k) == IF LinesOf(f, k) = {} THEN Absent ELSE Effects(f)[Max(LinesOf(f, k))].val
  <2>1. ASSUME NEW k \in Keys PROVE value(k) = Recovered(f)[k]
    BY DEF Recovered
  <2>2. ASSUME NEW k \in Keys PROVE value(k) \in Contents
    BY <2>1, RecoveredIs DEF Contents
  <2>3. Recovered(f) = [k \in Keys |-> value(k)]
    BY DEF Recovered
  <2> HIDE DEF value
  <2> QED
    BY <2>2, <2>3
<1>1. Max(LinesOf(f, k)) \in 1..Len(f)
  BY RecoveredIs DEF LinesOf
<1> QED
  BY <1>1, EffectType, ElementOfSeq

(* Appending a line keeps the file a file.                                 *)
LEMMA AppendLineType ==
  ASSUME NEW f, FileOK(f), NEW e \in Seq(Writes), e # << >>
  PROVE  FileOK(Append(f, e))
<1>1. Len(f) \in Nat
  BY DEF FileOK
<1>2. /\ Append(f, e) \in Seq(Seq(Writes))
      /\ Len(Append(f, e)) = Len(f) + 1
      /\ \A i \in 1..Len(f) : Append(f, e)[i] = f[i]
      /\ Append(f, e)[Len(f) + 1] = e
  BY AppendProperties DEF FileOK
<1>3. \A i \in 1..Len(f) + 1 : Append(f, e)[i] # << >>
  BY <1>1, <1>2 DEF FileOK
<1> QED
  BY <1>2, <1>3 DEF FileOK

(* So does appending pieces of a line, on the last line or on a new one.   *)
LEMMA AppendPiecesType ==
  ASSUME NEW f, FileOK(f),
         NEW w, NEW n \in 0..4, n > 0 => w.key \in Keys /\ w.val \in Contents
  PROVE  FileOK(AppendPieces(f, w, n))
<1> USE DEF FileOK
<1>1. CASE n = 0
  BY <1>1 DEF AppendPieces
<1>2. CASE n # 0 /\ Unterminated(f)
  <2>1. Len(f) \in 1..Len(f) /\ f[Len(f)] \in Seq(Writes)
    BY <1>2, ElementOfSeq DEF Unterminated
  <2>2. Write(w, n) \in Writes
    BY <1>2 DEF Write, Writes
  <2> DEFINE e == Append(f[Len(f)], Write(w, n))
  <2>3. e \in Seq(Writes) /\ e # << >>
    BY <2>1, <2>2, AppendProperties
  <2>4. AppendPieces(f, w, n) = [f EXCEPT ![Len(f)] = e]
    BY <1>2 DEF AppendPieces
  <2> HIDE DEF e
  <2> QED
    BY <2>1, <2>3, <2>4, ExceptSeq
<1>3. CASE n # 0 /\ ~Unterminated(f)
  <2> DEFINE e == <<Write(w, n)>>
  <2>1. e \in Seq(Writes) /\ e # << >>
    BY <1>3 DEF Write, Writes
  <2>2. AppendPieces(f, w, n) = Append(f, e)
    BY <1>3 DEF AppendPieces
  <2> QED
    BY <2>1, <2>2, AppendLineType
<1> QED
  BY <1>1, <1>2, <1>3

-----------------------------------------------------------------------------
(* Type correctness and the lock.                                          *)

(* TypeOK and LockDiscipline are inductive only together, and with what a  *)
(* writer leaves for WriteLine and with no line of the file being empty.   *)
TypeInv ==
  /\ TypeOK
  /\ LockDiscipline
  /\ writer # Nobody => pending.key \in Keys
  /\ \A i \in 1..Len(file) : file[i] # << >>

LEMMA PutValues ==
  /\ Values \subseteq AllValues
  /\ [1..1 -> Atoms] \subseteq Values
<1>1. 1 \in 1..MaxLen
  BY TableAssumption
<1> QED
  BY <1>1 DEF AllValues, Values

LEMMA TypeInit == Init => TypeInv
<1> SUFFICES ASSUME Init PROVE TypeInv
  OBVIOUS
<1> USE DEF Init
<1>1. file \in Seq(Seq(Writes)) /\ \A i \in 1..Len(file) : file[i] # << >>
  OBVIOUS
<1>2. table \in [Keys -> Contents]
  BY DEF Empty, Contents
<1>3. pending \in [key : Keys \union {NoKey}, val : Contents]
  BY DEF Nothing, Line, Contents
<1>4. crashes \in 0..MaxCrashes /\ faults \in [Operations -> 0..MaxFaults]
  BY NoVoHTAssumption
<1> QED
  BY <1>1, <1>2, <1>3, <1>4, NoVoHTAssumption DEF TypeInv, TypeOK, LockDiscipline, Writes, Contents

(* The mutations, which share everything but the value they store.         *)
LEMMA TypeMutate ==
  ASSUME TypeInv, NEW t \in Threads, NEW k \in Keys, NEW v \in Contents, Mutate(t, k, v)
  PROVE  TypeInv'
<1> USE DEF Mutate
<1>1. table' \in [Keys -> Contents]
  BY DEF TypeInv, TypeOK, Contents
<1>2. pending' \in [key : Keys \union {NoKey}, val : Contents] /\ pending'.key \in Keys
  BY DEF Line
<1> QED
  BY <1>1, <1>2 DEF TypeInv, TypeOK, LockDiscipline, Contents

LEMMA TypeStep == TypeInv /\ [Next]_vars => TypeInv'
<1> SUFFICES ASSUME TypeInv, [Next]_vars PROVE TypeInv'
  OBVIOUS
<1>a. FileOK(file) /\ table \in [Keys -> Contents]
  BY DEF TypeInv, TypeOK, Contents, Writes, FileOK
<1>b. ASSUME FileOK(file'), UNCHANGED <<status, table, writer, pending>>,
             \A t \in Threads : flush[t] = "no" => flush'[t] = "no",
             flush' \in [Threads -> {"no", "open", "run"}],
             todo' \in [Threads -> SUBSET Keys],
             UNCHANGED <<crashes, faults>>
      PROVE  TypeInv'
  BY <1>b DEF TypeInv, TypeOK, LockDiscipline, Contents, Writes, FileOK
<1>1. ASSUME NEW t \in Threads, NEW k \in Keys, Remove(t, k) PROVE TypeInv'
  BY <1>1, TypeMutate DEF Remove, Contents
<1>2. ASSUME NEW t \in Threads, NEW k \in Keys, NEW v \in [1..1 -> Atoms],
             Put(t, k, v) \/ AppendTo(t, k, v)
      PROVE  TypeInv'
  BY <1>2, TypeMutate, PutValues DEF Put, AppendTo, Contents
<1>3. ASSUME NEW t \in Threads, NEW k \in Keys,
             NEW e \in [1..1 -> Atoms], NEW v \in [1..1 -> Atoms],
             CompareSwap(t, k, e, v)
      PROVE  TypeInv'
  <2>1. Swapped(table, k, e, v) \in Contents
    BY <1>a, PutValues DEF Swapped, Contents
  <2> QED
    BY <1>3, <2>1, TypeMutate DEF CompareSwap
<1>4. ASSUME NEW t \in Threads, NEW k \in Keys, FlushEntry(t, k) PROVE TypeInv'
  <2>1. Entry(k) \in Seq(Writes) /\ Entry(k) # << >>
    BY <1>a DEF Entry, Full, Write, Line, Pieces, Writes
  <2>2. FileOK(Append(file, Entry(k)))
    BY <1>a, <2>1, AppendLineType
  <2>3. FileOK(file')
    BY <1>4, <1>a, <2>2 DEF FlushEntry
  <2> QED
    BY <1>4, <1>b, <2>3 DEF FlushEntry, TypeInv, TypeOK
<1>5. ASSUME NEW t \in Threads, WriteLine(t) \/ WriteFails(t) PROVE TypeInv'
  <2>1. pending.key \in Keys /\ pending.val \in Contents
    BY <1>5, NoVoHTAssumption DEF WriteLine, WriteFails, TypeInv, TypeOK, Contents
  <2>2. PICK n \in 0..4 : file' = AppendPieces(file, pending, n)
    BY <1>5 DEF WriteLine, WriteFails, Pieces
  <2>3. FileOK(file')
    BY <1>a, <2>1, <2>2, AppendPiecesType
  <2>4. pending' \in [key : Keys \union {NoKey}, val : Contents]
    BY <1>5 DEF WriteLine, WriteFails, Nothing, Line, Contents
  <2>5. faults' \in [Operations -> 0..MaxFaults] /\ UNCHANGED <<status, table, flush, todo, crashes>> /\ writer' = Nobody
    <3>1. MaxFaults \in Nat /\ faults \in [Operations -> 0..MaxFaults]
      BY NoVoHTAssumption DEF TypeInv, TypeOK
    <3> QED
      BY <1>5, <3>1 DEF WriteLine, WriteFails, Fault
  <2> QED
    BY <2>3, <2>4, <2>5 DEF TypeInv, TypeOK, LockDiscipline, Contents, Writes, FileOK
<1>6. ASSUME NEW t \in Threads, FlushBegin(t) PROVE TypeInv'
  BY <1>6 DEF FlushBegin, TypeInv, TypeOK, LockDiscipline
<1>7. ASSUME NEW t \in Threads, Truncate(t) PROVE TypeInv'
  <2>1. FileOK(file')
    BY <1>7 DEF Truncate, FileOK
  <2>2. todo' \in [Threads -> SUBSET Keys]
    BY <1>7 DEF Truncate, Live, TypeInv, TypeOK
  <2> QED
    BY <1>7, <1>b, <2>1, <2>2 DEF Truncate, TypeInv, TypeOK
<1>8. ASSUME NEW t \in Threads, FlushDone(t) PROVE TypeInv'
  BY <1>8 DEF FlushDone, TypeInv, TypeOK, LockDiscipline
<1>9. ASSUME NEW t \in Threads, FlushFails(t) PROVE TypeInv'
  <2>1. FileOK(file')
    <3>1. CASE file' = file
      BY <1>a, <3>1
    <3>2. CASE \E k \in todo[t], n \in 1..3 : file' = AppendPieces(file, Line(k, table[k]), n)
      <4>1. PICK k \in Keys, n \in 1..3 : file' = AppendPieces(file, Line(k, table[k]), n)
        BY <3>2 DEF TypeInv, TypeOK
      <4> QED
        BY <1>a, <4>1, AppendPiecesType DEF Line
    <3> QED
      BY <1>9, <3>1, <3>2 DEF FlushFails
  <2>2. writer = Nobody
    BY <1>9 DEF FlushFails, TypeInv, LockDiscipline
  <2>3. table' \in [Keys -> Contents] /\ status' \in {"up", "opening", "down"}
    BY <1>9, <1>a DEF FlushFails, Empty, Contents, TypeInv, TypeOK
  <2>4. flush' \in [Threads -> {"no", "open", "run"}] /\ todo' \in [Threads -> SUBSET Keys]
    BY <1>9 DEF FlushFails, TypeInv, TypeOK
  <2>5. faults' \in [Operations -> 0..MaxFaults] /\ UNCHANGED <<writer, pending, crashes>>
    BY <1>9, NoVoHTAssumption DEF FlushFails, Fault, TypeInv, TypeOK
  <2> QED
    BY <2>1, <2>2, <2>3, <2>4, <2>5 DEF TypeInv, TypeOK, LockDiscipline, Contents, Writes, FileOK
<1>10. ASSUME NEW t \in Threads, Load(t) PROVE TypeInv'
  <2>1. table' \in [Keys -> Contents]
    <3>1. CASE table' = Recovered(file)
      BY <1>a, <3>1, RecoveredType
    <3>2. CASE \E n \in 0..Len(file) - 1 : table' = Recovered(SubSeq(file, 1, n))
      <4>1. PICK n \in 0..Len(file) - 1 : table' = Recovered(SubSeq(file, 1, n))
        BY <3>2
      <4>2. Len(file) \in Nat /\ \A i \in 1..n : file[i] \in Seq(Writes) /\ file[i] # << >>
        BY <1>a, ElementOfSeq DEF FileOK
      <4>3. FileOK(SubSeq(file, 1, n))
        BY <4>2, SubSeqProperties DEF FileOK
      <4> QED
        BY <4>1, <4>3, RecoveredType
    <3> QED
      BY <1>10, <3>1, <3>2 DEF Load
  <2>2. writer = Nobody
    BY <1>10 DEF Load, TypeInv, LockDiscipline
  <2>3. faults' \in [Operations -> 0..MaxFaults]
    <3>1. MaxFaults \in Nat /\ faults \in [Operations -> 0..MaxFaults]
      BY NoVoHTAssumption DEF TypeInv, TypeOK
    <3> QED
      BY <1>10, <3>1 DEF Load, Fault
  <2> QED
    BY <1>10, <2>1, <2>2, <2>3 DEF Load, TypeInv, TypeOK, LockDiscipline, Contents
<1>11. ASSUME Crash PROVE TypeInv'
  <2>1. PICK n \in 0..(IF writer = Nobody THEN 0 ELSE Pieces(pending)) :
          file' = AppendPieces(file, pending, n)
    BY <1>11 DEF Crash
  <2>2. n \in 0..4 /\ (n > 0 => writer # Nobody)
    BY <2>1 DEF Pieces
  <2>3. FileOK(file')
    BY <1>a, <2>1, <2>2, AppendPiecesType DEF TypeInv, TypeOK, Contents
  <2>4. table' \in [Keys -> Contents]
    BY <1>11 DEF Crash, Empty, Contents
  <2>5. pending' \in [key : Keys \union {NoKey}, val : Contents]
    BY <1>11 DEF Crash, Nothing, Line, Contents
  <2>6. crashes' \in 0..MaxCrashes
    BY <1>11, NoVoHTAssumption DEF Crash, TypeInv, TypeOK
  <2> QED
    BY <1>11, <2>3, <2>4, <2>5, <2>6
    DEF Crash, TypeInv, TypeOK, LockDiscipline, Contents, Writes, FileOK
<1>12. ASSUME UNCHANGED vars PROVE TypeInv'
  BY <1>12 DEF TypeInv, TypeOK, LockDiscipline, vars
<1> QED
  BY <1>1, <1>2, <1>3, <1>4, <1>5, <1>6, <1>7, <1>8, <1>9, <1>10, <1>11, <1>12 DEF Next

(* Every variable keeps its type whatever fails and whenever it crashes.   *)
THEOREM TypeCorrect == Spec => []TypeOK
<1>1. TypeInv => TypeOK
  BY DEF TypeInv
<1> QED
  BY <1>1, TypeInit, TypeStep, PTL DEF Spec

(* Mutual exclusion of a mutation and of every rewrite of the file.        *)
THEOREM LockCorrect == Spec => []LockDiscipline
<1>1. TypeInv => LockDiscipline
  BY DEF TypeInv
<1> QED
  BY <1>1, TypeInit, TypeStep, PTL DEF Spec

-----------------------------------------------------------------------------
(* Flushes.  Where no key begins with '~' and no value is empty, which     *)
(* MCNoVoHT_format shows to be needed, a rewritten file restores the table.*)

Plain == (\A k \in Keys : Head(k) # Tilde) /\ Blank \notin Atoms

LEMMA NoKeyIsNone == NoKey \notin Keys
BY NoVoHTAssumption DEF NoKey

LEMMA ValueFacts ==
  ASSUME Plain
  PROVE  /\ Absent \notin Values
         /\ <<Blank>> \notin AllValues
<1>1. ASSUME NEW v \in Values PROVE v \in Seq(Atoms) /\ v # <<Blank>>
  <2>1. PICK n \in 1..MaxLen : v \in [1..n -> Atoms]
    BY DEF Values
  <2>2. n \in Nat /\ 1 \in 1..n
    BY <2>1, TableAssumption
  <2>3. v[1] \in Atoms
    BY <2>1, <2>2
  <2>4. v # <<Blank>>
    BY <2>3 DEF Plain
  <2> QED
    BY <2>1, <2>2, <2>4
<1>2. <<Junk>>[1] # <<Blank>>[1]
  BY NoVoHTAssumption
<1> QED
  BY <1>1, <1>2, TableAssumption DEF AllValues

LEMMA FlattenOne ==
  ASSUME NEW pieces, Len(pieces) = 1
  PROVE  Seqs!FlattenSeq(pieces) = pieces[1]
<1> DEFINE flat == [i \in 1..1 |-> pieces[i]]
           Appends(f) == f = [i \in 1..Len(pieces) |->
                               IF i = 1 THEN pieces[i] ELSE f[i - 1] \o pieces[i]]
           flatten == CHOOSE f : Appends(f)
<1>1. Appends(flat)
  OBVIOUS
<1>2. Appends(flatten)
  <2> HIDE DEF Appends
  <2> QED
    BY <1>1
<1> HIDE DEF flatten
<1>3. flatten[1] = pieces[1]
  BY <1>2
<1>4. Seqs!FlattenSeq(pieces) = flatten[Len(pieces)]
  BY DEF Seqs!FlattenSeq, flatten
<1> QED
  BY <1>3, <1>4

LEMMA HeadTailGlued ==
  ASSUME NEW k \in Seq(Letters)
  PROVE  Head(<<Tilde>> \o k) = Tilde /\ Tail(<<Tilde>> \o k) = k
OBVIOUS

(* A line of one write counts once its key, and its value, are in it.      *)
LEMMA EffectOfSingle ==
  ASSUME Plain, NEW l \in Seq(Writes), Len(l) = 1
  PROVE  Effect(l) = IF l[1].n >= (IF l[1].val = Absent THEN 2 ELSE 3)
                     THEN Line(l[1].key, l[1].val) ELSE Nothing
<1>1. l[1] \in Writes
  BY ElementOfSeq
<1>2. FieldEnd(l) = 1
  <2> DEFINE S == {i \in 1..Len(l) : l[i].n >= IF l[i].val = Absent THEN 3 ELSE 2} \union {Len(l)}
  <2>1. S = {1}
    OBVIOUS
  <2> HIDE DEF S
  <2>2. Min(S) = 1
    BY <2>1 DEF Min
  <2> QED
    BY <2>2 DEF FieldEnd, S
<1> DEFINE key == FieldPart(l[1])
<1>3. FirstField(l) = key
  <2> DEFINE pieces == [i \in 1..1 |-> FieldPart(l[i])]
  <2>1. Len(pieces) = 1 /\ pieces[1] = key
    OBVIOUS
  <2>2. Seqs!FlattenSeq(pieces) = pieces[1]
    BY <2>1, FlattenOne
  <2> QED
    BY <1>2, <2>1, <2>2 DEF FirstField
<1>4. l[1].key \in Seq(Letters) /\ l[1].key # << >> /\ Head(l[1].key) # Tilde
  BY <1>1, NoVoHTAssumption DEF Writes, Plain
<1>5. CASE l[1].val = Absent
  <2>1. CASE l[1].n = 1
    BY <1>1, <1>3, <1>5, <2>1 DEF Effect, FieldPart, Nothing, NoKey, Line
  <2>2. CASE l[1].n # 1
    <3>1. Head(<<Tilde>> \o l[1].key) = Tilde /\ Tail(<<Tilde>> \o l[1].key) = l[1].key
      BY <1>4, HeadTailGlued
    <3>2. l[1].n >= 2
      BY <1>1, <2>2 DEF Writes
    <3> QED
      BY <1>3, <1>5, <2>2, <3>1, <3>2 DEF Effect, FieldPart
  <2> QED
    BY <2>1, <2>2
<1>6. CASE l[1].val # Absent
  <2>1. FirstField(l) = l[1].key /\ l[1].val # <<Blank>>
    BY <1>1, <1>3, <1>6, ValueFacts DEF FieldPart, Writes, Contents
  <2> QED
    BY <1>1, <1>2, <1>4, <1>6, <2>1 DEF Effect, Writes
<1> QED
  BY <1>5, <1>6

(* A line appended to a file decides for its key and for no other.         *)
LEMMA RecoveredAppend ==
  ASSUME NEW f, FileOK(f), NEW l \in Seq(Writes), l # << >>, NEW k \in Keys
  PROVE  Recovered(Append(f, l))[k] =
           IF Effect(l).key = k THEN Effect(l).val ELSE Recovered(f)[k]
<1> DEFINE g == Append(f, l)
<1>1. Len(f) \in Nat
  BY DEF FileOK
<1>2. /\ Len(g) = Len(f) + 1
      /\ \A i \in 1..Len(f) : g[i] = f[i]
      /\ g[Len(f) + 1] = l
  BY AppendProperties DEF FileOK
<1>7. FileOK(g)
  BY AppendLineType
<1> HIDE DEF g
<1>3. LinesOf(g, k) = LinesOf(f, k) \union (IF Effect(l).key = k THEN {Len(f) + 1} ELSE {})
  BY <1>1, <1>2 DEF LinesOf
<1>4. LinesOf(f, k) \in SUBSET (1..Len(f)) /\ LinesOf(g, k) \in SUBSET (1..Len(f) + 1)
  BY <1>1, <1>2 DEF LinesOf
<1>5. CASE Effect(l).key = k
  <2>1. Max(LinesOf(g, k)) = Len(f) + 1
    <3>1. Len(f) + 1 \in LinesOf(g, k)
      BY <1>3, <1>5
    <3>2. Max(LinesOf(g, k)) \in 1..Len(f) + 1 /\ Len(f) + 1 <= Max(LinesOf(g, k))
      <4>1. Len(f) + 1 \in Nat /\ LinesOf(g, k) # {}
        BY <1>1, <3>1
      <4> QED
        BY <1>4, <3>1, <4>1, MaxIsLargest
    <3> QED
      BY <1>1, <3>2
  <2>2. LinesOf(g, k) # {}
    BY <1>3, <1>5
  <2>3. Recovered(g)[k] = Effect(g[Max(LinesOf(g, k))]).val
    BY <1>7, <2>2, RecoveredIs
  <2> QED
    BY <1>2, <1>5, <2>1, <2>3 DEF g
<1>6. CASE Effect(l).key # k
  <2>1. LinesOf(g, k) = LinesOf(f, k)
    BY <1>3, <1>6
  <2>2. LinesOf(f, k) # {} => Max(LinesOf(f, k)) \in 1..Len(f)
    BY <1>1, <1>4, MaxIsLargest
  <2>3. CASE LinesOf(f, k) = {}
    BY <1>2, <1>6, <1>7, <2>1, <2>3, RecoveredIs DEF g
  <2>4. CASE LinesOf(f, k) # {}
    <3>1. /\ Recovered(g)[k] = Effect(g[Max(LinesOf(f, k))]).val
          /\ Recovered(f)[k] = Effect(f[Max(LinesOf(f, k))]).val
      BY <1>7, <2>1, <2>4, RecoveredIs
    <3> QED
      BY <1>2, <1>6, <2>2, <2>4, <3>1 DEF g
  <2> QED
    BY <2>3, <2>4
<1> QED
  BY <1>5, <1>6 DEF g

(* While the file is rewritten it holds entries of the table only; what is *)
(* missing, by FlushCovers, one thread has still to write.                 *)
RewriteInv ==
  /\ Rewriting => \A i \in 1..Len(file) : \E k \in Live(table) : file[i] = Entry(k)
  /\ \A t \in Threads : flush[t] = "run" => todo[t] \subseteq Live(table)
  /\ FlushCovers

LEMMA RewriteTruncate ==
  ASSUME TypeInv, RewriteInv, NEW t \in Threads, Truncate(t)
  PROVE  RewriteInv'
<1>1. flush'[t] = "run" /\ file' = << >> /\ table' = table
  BY DEF Truncate, TypeInv, TypeOK
<1>2. \A u \in Threads : flush'[u] = "run" => todo'[u] \subseteq Live(table)
  BY DEF Truncate, RewriteInv, TypeInv, TypeOK
<1>3. todo'[t] = Live(table)
  BY DEF Truncate, TypeInv, TypeOK
<1>4. FlushCovers'
  BY <1>1, <1>3 DEF FlushCovers, Live
<1> QED
  BY <1>1, <1>2, <1>4 DEF RewriteInv, Live

LEMMA EntryType ==
  ASSUME TypeInv, NEW k \in Keys
  PROVE  Entry(k) \in Seq(Writes) /\ Entry(k) # << >>
<1>1. table[k] \in Contents
  BY DEF TypeInv, TypeOK, Contents
<1> QED
  BY <1>1 DEF Entry, Full, Write, Line, Pieces, Writes

LEMMA RewriteFlushEntry ==
  ASSUME TypeInv, RewriteInv, NEW t \in Threads, NEW k \in Keys, FlushEntry(t, k)
  PROVE  RewriteInv'
<1>1. table' = table /\ flush' = flush /\ Rewriting /\ Rewriting' /\ k \in Live(table)
  BY DEF FlushEntry, Rewriting, RewriteInv
<1> DEFINE g == Append(file, Entry(k))
<1>2. /\ Len(file) \in Nat
      /\ Len(g) = Len(file) + 1
      /\ \A i \in 1..Len(file) : g[i] = file[i]
      /\ g[Len(file) + 1] = Entry(k)
  <2>1. file \in Seq(Seq(Writes))
    BY DEF TypeInv, TypeOK, Writes, Contents
  <2> QED
    BY <2>1, EntryType, AppendProperties
<1> HIDE DEF g
<1>3. file' = IF Written(k) THEN file ELSE g
  BY DEF FlushEntry, g
<1>4. Written(k)'
  BY <1>1, <1>2, <1>3 DEF Written, Entry
<1>5. \A j : Written(j) => Written(j)'
  BY <1>1, <1>2, <1>3 DEF Written, Entry
<1>6. \A i \in 1..Len(file') : \E j \in Live(table) : file'[i] = Entry(j)
  BY <1>1, <1>2, <1>3 DEF RewriteInv
<1>7. \A u \in Threads : flush[u] = "run" => todo'[u] \subseteq Live(table)
  BY DEF FlushEntry, RewriteInv, TypeInv, TypeOK
<1>8. \A u \in Threads : \A j \in todo[u] : j = k \/ j \in todo'[u]
  BY DEF FlushEntry, TypeInv, TypeOK
<1>9. FlushCovers'
  BY <1>1, <1>4, <1>5, <1>8 DEF FlushCovers, Live, RewriteInv
<1> QED
  BY <1>1, <1>6, <1>7, <1>9 DEF RewriteInv, Live, Entry

LEMMA RewriteFlushDone ==
  ASSUME TypeInv, RewriteInv, NEW t \in Threads, FlushDone(t)
  PROVE  RewriteInv'
<1>1. /\ UNCHANGED <<table, file, todo>>
      /\ Rewriting /\ \A u \in Threads : flush'[u] = IF u = t THEN "no" ELSE flush[u]
  BY DEF FlushDone, Rewriting, TypeInv, TypeOK
<1>2. /\ Rewriting' => \A i \in 1..Len(file) : \E k \in Live(table) : file[i] = Entry(k)
      /\ \A u \in Threads : flush'[u] = "run" => todo[u] \subseteq Live(table)
  BY <1>1 DEF RewriteInv
<1>3. FlushCovers'
  <2> SUFFICES ASSUME Rewriting' PROVE FlushCovers'
    BY DEF FlushCovers
  <2>1. PICK u \in Threads :
          flush[u] = "run" /\ \A k \in Live(table) : k \in todo[u] \/ Written(k)
    BY <1>1 DEF RewriteInv, FlushCovers
  <2>2. PICK w \in Threads : flush'[w] = "run"
    BY DEF Rewriting
  <2>3. CASE u = t
    <3>1. \A k \in Live(table) : Written(k)
      BY <2>1, <2>3 DEF FlushDone
    <3> QED
      BY <1>1, <2>2, <3>1 DEF FlushCovers, Live, Written, Entry
  <2>4. CASE u # t
    BY <1>1, <2>1, <2>4 DEF FlushCovers, Live, Written, Entry
  <2> QED
    BY <2>3, <2>4
<1> QED
  BY <1>1, <1>2, <1>3 DEF RewriteInv, Live, Entry

(* A file that holds the entries of a table, and nothing else, restores it.*)
LEMMA EntriesRestore ==
  ASSUME Plain, TypeInv,
         \A i \in 1..Len(file) : \E k \in Live(table) : file[i] = Entry(k),
         \A k \in Live(table) : Written(k)
  PROVE  Recovered(file) = table
<1>1. ASSUME NEW i \in 1..Len(file), NEW k \in Live(table), file[i] = Entry(k)
      PROVE  Effect(file[i]) = Line(k, table[k])
  <2>1. k \in Keys /\ table[k] # Absent
    BY DEF Live
  <2>2. Entry(k) \in Seq(Writes)
    BY <2>1, EntryType
  <2>3. Len(Entry(k)) = 1 /\ Entry(k)[1].key = k /\ Entry(k)[1].val = table[k] /\ Entry(k)[1].n = 4
    BY <2>1 DEF Entry, Full, Write, Line, Pieces
  <2> HIDE DEF Entry
  <2> QED
    BY <1>1, <2>1, <2>2, <2>3, EffectOfSingle
<1>2. FileOK(file)
  BY DEF TypeInv, TypeOK, FileOK, Writes, Contents
<1>3. ASSUME NEW k \in Keys PROVE Recovered(file)[k] = table[k]
  <2>1. LinesOf(file, k) \in SUBSET (1..Len(file)) /\ Len(file) \in Nat
    BY <1>2 DEF LinesOf, FileOK
  <2>2. \A i \in LinesOf(file, k) : k \in Live(table) /\ Effect(file[i]) = Line(k, table[k])
    <3> SUFFICES ASSUME NEW i \in LinesOf(file, k)
                 PROVE  k \in Live(table) /\ Effect(file[i]) = Line(k, table[k])
      OBVIOUS
    <3>1. i \in 1..Len(file) /\ Effect(file[i]).key = k
      BY DEF LinesOf
    <3>2. PICK j \in Live(table) : file[i] = Entry(j)
      BY <3>1
    <3>3. Effect(file[i]) = Line(j, table[j])
      BY <1>1, <3>1, <3>2
    <3>4. j = k
      BY <3>1, <3>3 DEF Line
    <3> QED
      BY <3>3, <3>4
  <2>3. CASE LinesOf(file, k) = {}
    <3>1. ASSUME k \in Live(table) PROVE FALSE
      <4>1. PICK i \in 1..Len(file) : file[i] = Entry(k)
        BY <3>1 DEF Written
      <4>2. Effect(file[i]) = Line(k, table[k])
        BY <1>1, <3>1, <4>1
      <4>3. Effect(file[i]).key = k
        BY <4>2 DEF Line
      <4> QED
        BY <2>3, <4>3 DEF LinesOf
    <3> QED
      BY <1>2, <2>3, <3>1, RecoveredIs DEF Live
  <2>4. CASE LinesOf(file, k) # {}
    <3>1. Max(LinesOf(file, k)) \in LinesOf(file, k)
      BY <2>1, <2>4, MaxIsLargest
    <3> QED
      BY <1>2, <2>2, <2>4, <3>1, RecoveredIs DEF Line
  <2> QED
    BY <2>3, <2>4
<1>4. Recovered(file) \in [Keys -> Contents] /\ table \in [Keys -> Contents]
  BY <1>2, RecoveredType DEF TypeInv, TypeOK, Contents
<1> QED
  BY <1>3, <1>4

(* The last of the flushes that are rewriting leaves the whole table.      *)
LEMMA FlushDoneFacts ==
  ASSUME Plain, TypeInv, RewriteInv, NEW t \in Threads, FlushDone(t), ~Rewriting'
  PROVE  /\ Recovered(file) = table
         /\ \A i \in 1..Len(file) : \E k \in Live(table) : file[i] = Entry(k)
<1>1. Rewriting /\ \A u \in Threads : flush[u] = "run" => u = t
  BY DEF FlushDone, Rewriting, TypeInv, TypeOK
<1>2. \A k \in Live(table) : Written(k)
  BY <1>1 DEF FlushDone, RewriteInv, FlushCovers
<1> QED
  BY <1>1, <1>2, EntriesRestore DEF RewriteInv

-----------------------------------------------------------------------------
(* Durability.  Where no operation on the file fails, no key begins with   *)
(* '~', no value is empty and no crash falls into a rewrite, the file is   *)
(* as good as the table, and NoVoHT implements DurableMap.                 *)


(* MCNoVoHT_format shows what is lost without the first condition, and     *)
(* MCNoVoHT_promises what without the second and the third.                *)
Reliable ==
  /\ Plain
  /\ Faulty = {}
  /\ ~CrashInFlush

Storable == Values \union {Absent}

(* Each line comes from one write, whole or torn.                          *)
Single(f) ==
  /\ FileOK(f)
  /\ \A i \in 1..Len(f) : Len(f[i]) = 1 /\ f[i][1].val \in Storable

(* And none of them is torn.                                               *)
Complete(f) ==
  /\ Single(f)
  /\ \A i \in 1..Len(f) : f[i][1].n = Pieces(f[i][1])

-----------------------------------------------------------------------------
(* Facts about the file.                                                   *)

LEMMA StorableContents ==
  /\ Storable \subseteq Contents
  /\ Reliable => Plain
BY DEF Storable, Contents, AllValues, Reliable

(* Replaying lines of one write stores values only.                        *)
LEMMA RecoveredStorable ==
  ASSUME Reliable, NEW f, Single(f)
  PROVE  Recovered(f) \in [Keys -> Storable]
<1> SUFFICES ASSUME NEW k \in Keys, LinesOf(f, k) # {}
             PROVE  Effect(f[Max(LinesOf(f, k))]).val \in Storable
  <2>1. Recovered(f) \in [Keys -> Contents] /\ FileOK(f)
    BY RecoveredType DEF Single
  <2>2. ASSUME NEW k \in Keys PROVE Recovered(f)[k] \in Storable
    BY <2>1, RecoveredIs DEF Storable
  <2> QED
    BY <2>1, <2>2
<1>1. LinesOf(f, k) \in SUBSET (1..Len(f)) /\ Len(f) \in Nat
  BY DEF LinesOf, Single, FileOK
<1>2. Max(LinesOf(f, k)) \in 1..Len(f)
  BY <1>1, MaxIsLargest
<1>3. PICK i \in 1..Len(f) : i = Max(LinesOf(f, k))
  BY <1>2
<1>4. f[i] \in Seq(Writes) /\ Len(f[i]) = 1 /\ f[i][1].val \in Storable
  BY ElementOfSeq DEF Single, FileOK
<1>5. Effect(f[i]).val \in Storable
  BY <1>4, EffectOfSingle, StorableContents DEF Line, Nothing, Storable
<1> QED
  BY <1>3, <1>5

(* Writing on a file without a torn line starts a line.                    *)
LEMMA AppendToComplete ==
  ASSUME NEW f, Complete(f), NEW w, NEW n \in 1..4
  PROVE  AppendPieces(f, w, n) = Append(f, <<Write(w, n)>>)
<1>1. Len(f) > 0 => Len(f) \in 1..Len(f)
  BY DEF Complete, Single, FileOK
<1>2. ~Unterminated(f)
  BY <1>1 DEF Unterminated, Complete, Single, Pieces, Storable
<1> QED
  BY <1>2 DEF AppendPieces

LEMMA AppendSingle ==
  ASSUME Reliable, NEW f, Single(f),
         NEW k \in Keys, NEW v \in Storable, NEW n \in 1..4
  PROVE  /\ Single(Append(f, <<Write(Line(k, v), n)>>))
         /\ Complete(f) /\ n = Pieces(Line(k, v)) =>
              Complete(Append(f, <<Write(Line(k, v), n)>>))
         /\ \A j \in Keys :
              Recovered(Append(f, <<Write(Line(k, v), n)>>))[j] =
                IF j = k /\ n >= (IF v = Absent THEN 2 ELSE 3) THEN v ELSE Recovered(f)[j]
<1> DEFINE l == <<Write(Line(k, v), n)>>
           g == Append(f, l)
<1>1. l \in Seq(Writes) /\ Len(l) = 1 /\ l # << >>
      /\ l[1].key = k /\ l[1].val = v /\ l[1].n = n
  BY StorableContents DEF Write, Line, Writes
<1>2. FileOK(f) /\ Len(f) \in Nat
  BY DEF Single, FileOK
<1>3. FileOK(g)
  BY <1>1, <1>2, AppendLineType
<1> HIDE DEF l
<1>4. /\ Len(g) = Len(f) + 1
      /\ \A i \in 1..Len(f) : g[i] = f[i]
      /\ g[Len(f) + 1] = l
  BY <1>1, <1>2, AppendProperties DEF FileOK
<1>5. Effect(l) = IF n >= (IF v = Absent THEN 2 ELSE 3) THEN Line(k, v) ELSE Nothing
  BY <1>1, EffectOfSingle, StorableContents
<1>6. \A j \in Keys : Recovered(g)[j] =
        IF j = k /\ n >= (IF v = Absent THEN 2 ELSE 3) THEN v ELSE Recovered(f)[j]
  <2> SUFFICES ASSUME NEW j \in Keys
               PROVE  Recovered(g)[j] = IF j = k /\ n >= (IF v = Absent THEN 2 ELSE 3)
                                        THEN v ELSE Recovered(f)[j]
    OBVIOUS
  <2>1. Recovered(g)[j] = IF Effect(l).key = j THEN Effect(l).val ELSE Recovered(f)[j]
    BY <1>1, <1>2, RecoveredAppend
  <2>2. j # NoKey
    BY NoKeyIsNone
  <2> QED
    BY <1>5, <2>1, <2>2 DEF Line, Nothing
<1> HIDE DEF g
<1>7. Single(g)
  BY <1>1, <1>2, <1>3, <1>4 DEF Single
<1>8. Complete(f) /\ n = Pieces(Line(k, v)) => Complete(g)
  <2> SUFFICES ASSUME Complete(f), n = Pieces(Line(k, v)) PROVE Complete(g)
    OBVIOUS
  <2>1. \A i \in 1..Len(f) + 1 : g[i][1].n = Pieces(g[i][1])
    BY <1>1, <1>2, <1>4 DEF Complete, Pieces, Line
  <2> QED
    BY <1>4, <1>7, <2>1 DEF Complete
<1> QED
  BY <1>6, <1>7, <1>8 DEF g, l

-----------------------------------------------------------------------------
(* The inductive invariant.                                                *)

(* The file is whole while the process serves or rewrites it: a torn line  *)
(* is there only from a crash to the rewrite of the next start.            *)
FileInv ==
  /\ Single(file)
  /\ status = "up" \/ Rewriting => Complete(file)

(* A process that is down holds nothing.                                   *)
DownInv ==
  status = "down" =>
    table = Empty /\ writer = Nobody /\ \A t \in Threads : flush[t] = "no"

(* While a mutation is half done the file lacks its line and nothing else. *)
WriterInv ==
  writer # Nobody =>
    /\ pending = Line(pending.key, table[pending.key])
    /\ \A k \in Keys : k # pending.key => Recovered(file)[k] = table[k]

(* Otherwise the file restores the table.                                  *)
QuietInv ==
  status # "down" /\ writer = Nobody /\ ~Rewriting => Recovered(file) = table

DurableInv ==
  /\ TypeInv
  /\ table \in [Keys -> Storable]
  /\ FileInv
  /\ DownInv
  /\ WriterInv
  /\ RewriteInv
  /\ QuietInv

LEMMA DurableInit == Init => DurableInv
<1> SUFFICES ASSUME Init PROVE DurableInv
  OBVIOUS
<1>1. TypeInv
  BY TypeInit
<1>2. FileOK(file) /\ file = << >>
  BY DEF Init, FileOK
<1>3. FileInv
  BY <1>2 DEF FileInv, Complete, Single
<1>4. Recovered(file) = table
  BY <1>2 DEF Init, Recovered, LinesOf, Empty
<1>5. table \in [Keys -> Storable]
  BY DEF Init, Empty, Storable
<1>6. DownInv /\ WriterInv /\ RewriteInv
  BY DEF Init, DownInv, WriterInv, RewriteInv, FlushCovers, Rewriting
<1> QED
  BY <1>1, <1>3, <1>4, <1>5, <1>6 DEF DurableInv, QuietInv

(* A mutation begins with a file that restores the table.                  *)
LEMMA MutateFacts ==
  ASSUME DurableInv, NEW t \in Threads, NEW k, NEW v, Mutate(t, k, v)
  PROVE  /\ status = "up" /\ ~Rewriting /\ ~Rewriting'
         /\ Recovered(file) = table
  BY DEF DurableInv, QuietInv, Mutate, Rewriting

LEMMA DurableMutate ==
  ASSUME Reliable, DurableInv, NEW t \in Threads, NEW k \in Keys, NEW v \in Storable,
         Mutate(t, k, v)
  PROVE  DurableInv'
<1>1. TypeInv'
  BY TypeMutate, StorableContents DEF DurableInv
<1>2. table' \in [Keys -> Storable]
  BY DEF Mutate, DurableInv
<1>3. FileInv'
  BY MutateFacts DEF Mutate, DurableInv, FileInv
<1>4. WriterInv'
  BY MutateFacts DEF Mutate, DurableInv, WriterInv, Line
<1>5. DownInv' /\ QuietInv'
  BY MutateFacts, NoVoHTAssumption DEF Mutate, DownInv, QuietInv
<1>6. RewriteInv'
  BY MutateFacts DEF Mutate, RewriteInv, FlushCovers, Rewriting
<1> QED
  BY <1>1, <1>2, <1>3, <1>4, <1>5, <1>6 DEF DurableInv

(* The line of a mutation makes the file restore the table again.          *)
LEMMA WriteLineFacts ==
  ASSUME Reliable, DurableInv, NEW t \in Threads, WriteLine(t)
  PROVE  /\ status = "up" /\ ~Rewriting
         /\ Complete(file')
         /\ Recovered(file') = table
<1>1. status = "up" /\ writer # Nobody /\ \A u \in Threads : flush[u] = "no"
  BY NoVoHTAssumption DEF WriteLine, DurableInv, TypeInv, LockDiscipline
<1>2. Complete(file) /\ Single(file)
  BY <1>1 DEF DurableInv, FileInv
<1> DEFINE k == pending.key
           v == table[k]
           n == Pieces(pending)
<1>3. k \in Keys /\ v \in Storable /\ pending = Line(k, v) /\ n \in 3..4
  BY <1>1 DEF DurableInv, TypeInv, WriterInv, Pieces
<1>4. n >= (IF v = Absent THEN 2 ELSE 3)
  BY <1>3 DEF Pieces
<1>5. \A j \in Keys : j # k => Recovered(file)[j] = table[j]
  BY <1>1 DEF DurableInv, WriterInv
<1> HIDE DEF k, v, n
<1>6. file' = Append(file, <<Write(Line(k, v), n)>>)
  BY <1>2, <1>3, AppendToComplete DEF WriteLine, n
<1>7. n = Pieces(Line(k, v))
  BY <1>3 DEF n
<1>8. /\ Complete(file')
      /\ \A j \in Keys : Recovered(file')[j] =
           IF j = k /\ n >= (IF v = Absent THEN 2 ELSE 3) THEN v ELSE Recovered(file)[j]
  <2>1. n \in 1..4
    BY <1>3
  <2> DEFINE g == Append(file, <<Write(Line(k, v), n)>>)
  <2>2. /\ Complete(file) /\ n = Pieces(Line(k, v)) => Complete(g)
        /\ \A j \in Keys : Recovered(g)[j] =
             IF j = k /\ n >= (IF v = Absent THEN 2 ELSE 3) THEN v ELSE Recovered(file)[j]
    BY <1>2, <1>3, <2>1, AppendSingle
  <2>3. file' = g
    BY <1>6
  <2> HIDE DEF g
  <2> QED
    BY <1>2, <1>7, <2>2, <2>3
<1>9. \A j \in Keys : Recovered(file')[j] = table[j]
  BY <1>4, <1>5, <1>8 DEF v
<1>10. Recovered(file') = table
  <2>1. Recovered(file') \in [Keys -> Storable]
    BY <1>8, RecoveredStorable DEF Complete
  <2> QED
    BY <1>9, <2>1 DEF DurableInv
<1> QED
  BY <1>1, <1>8, <1>10 DEF Rewriting

LEMMA DurableWriteLine ==
  ASSUME Reliable, DurableInv, NEW t \in Threads, WriteLine(t), TypeInv'
  PROVE  DurableInv'
<1> USE DEF WriteLine
<1>1. ~Rewriting' /\ status' = "up"
  BY WriteLineFacts DEF Rewriting
<1>2. FileInv'
  BY WriteLineFacts DEF FileInv, Complete
<1>3. DownInv' /\ WriterInv' /\ QuietInv'
  BY <1>1, WriteLineFacts DEF DownInv, WriterInv, QuietInv
<1>4. RewriteInv'
  BY <1>1 DEF RewriteInv, FlushCovers, Rewriting
<1> QED
  BY <1>2, <1>3, <1>4 DEF DurableInv

(* A rewrite that has begun starts from nothing.                           *)
LEMMA DurableTruncate ==
  ASSUME DurableInv, NEW t \in Threads, Truncate(t), TypeInv'
  PROVE  DurableInv'
<1>1. Rewriting' /\ file' = << >> /\ UNCHANGED <<status, table, writer, pending>>
  BY DEF Truncate, DurableInv, TypeInv, TypeOK, Rewriting
<1>2. writer = Nobody /\ status # "down"
  BY DEF Truncate, DurableInv, TypeInv, LockDiscipline, DownInv
<1>3. FileInv'
  BY <1>1 DEF FileInv, Complete, Single, FileOK
<1>4. DownInv' /\ WriterInv' /\ QuietInv'
  BY <1>1, <1>2 DEF DownInv, WriterInv, QuietInv
<1> QED
  BY <1>1, <1>3, <1>4, RewriteTruncate DEF DurableInv

LEMMA DurableFlushEntry ==
  ASSUME Reliable, DurableInv, NEW t \in Threads, NEW k \in Keys, FlushEntry(t, k), TypeInv'
  PROVE  DurableInv'
<1>1. /\ UNCHANGED <<status, table, writer, pending, flush>>
      /\ Rewriting /\ Rewriting'
      /\ k \in Live(table)
  BY DEF FlushEntry, Rewriting, DurableInv, RewriteInv
<1>2. writer = Nobody /\ status # "down"
  BY <1>1 DEF FlushEntry, DurableInv, TypeInv, LockDiscipline, DownInv
<1>3. Complete(file) /\ FileOK(file) /\ Len(file) \in Nat
  BY <1>1 DEF DurableInv, FileInv, Complete, Single, FileOK
<1> DEFINE g == Append(file, Entry(k))
<1>4. k \in Keys /\ table[k] \in Storable
  BY DEF DurableInv
<1>5. Complete(g)
  <2> DEFINE n == Pieces(Line(k, table[k]))
  <2>1. n \in 1..4
    BY DEF Pieces
  <2> HIDE DEF n
  <2>2. Single(file)
    BY <1>3 DEF Complete
  <2>3. n = Pieces(Line(k, table[k])) =>
          Complete(Append(file, <<Write(Line(k, table[k]), n)>>))
    BY <1>3, <1>4, <2>1, <2>2, AppendSingle
  <2> QED
    BY <2>3 DEF n, Entry, Full
<1>6. /\ Len(g) = Len(file) + 1
      /\ \A i \in 1..Len(file) : g[i] = file[i]
      /\ g[Len(file) + 1] = Entry(k)
  <2>1. Entry(k) \in Seq(Writes)
    BY EntryType DEF DurableInv
  <2> QED
    BY <1>3, <2>1, AppendProperties DEF FileOK
<1> HIDE DEF g
<1>7. file' = IF Written(k) THEN file ELSE g
  BY DEF FlushEntry, g
<1>8. FileInv'
  BY <1>1, <1>3, <1>5, <1>7 DEF FileInv, Complete
<1>9. DownInv' /\ WriterInv' /\ QuietInv'
  BY <1>1, <1>2 DEF DownInv, WriterInv, QuietInv
<1> QED
  BY <1>1, <1>8, <1>9, RewriteFlushEntry DEF DurableInv

LEMMA DurableFlushDone ==
  ASSUME Reliable, DurableInv, NEW t \in Threads, FlushDone(t), TypeInv'
  PROVE  DurableInv'
<1>1. /\ status' = "up" /\ UNCHANGED <<table, file, writer, pending, todo>>
      /\ Rewriting /\ \A u \in Threads : flush'[u] = IF u = t THEN "no" ELSE flush[u]
  BY DEF FlushDone, Rewriting, DurableInv, TypeInv, TypeOK
<1>2. writer = Nobody
  BY DEF FlushDone, DurableInv, TypeInv, LockDiscipline
<1>3. FileInv' /\ DownInv' /\ WriterInv'
  BY <1>1, <1>2 DEF FileInv, DownInv, WriterInv, DurableInv
<1>4. QuietInv'
  BY <1>1, FlushDoneFacts DEF QuietInv, Reliable, DurableInv
<1> QED
  BY <1>1, <1>3, <1>4, RewriteFlushDone DEF DurableInv

(* A crash tears or keeps the line of the mutation it interrupts.          *)
LEMMA CrashFacts ==
  ASSUME Reliable, DurableInv, Crash
  PROVE  /\ ~Rewriting /\ ~Rewriting'
         /\ Single(file')
         /\ writer = Nobody => file' = file
         /\ writer # Nobody => Recovered(file') \in {Recovered(file), table}
<1>1. ~Rewriting /\ ~Rewriting' /\ Single(file)
  BY DEF Crash, Reliable, Rewriting, DurableInv, FileInv
<1>2. PICK n \in 0..(IF writer = Nobody THEN 0 ELSE Pieces(pending)) :
        file' = AppendPieces(file, pending, n)
  BY DEF Crash
<1>3. CASE n = 0
  BY <1>1, <1>2, <1>3 DEF AppendPieces
<1>4. CASE n # 0
  <2>1. writer # Nobody /\ n \in 1..4
    BY <1>2, <1>4 DEF Pieces
  <2>2. Complete(file)
    BY <2>1 DEF DurableInv, TypeInv, LockDiscipline, FileInv
  <2> DEFINE k == pending.key
             v == table[k]
             g == Append(file, <<Write(Line(k, v), n)>>)
  <2>3. k \in Keys /\ v \in Storable /\ pending = Line(k, v)
    BY <2>1 DEF DurableInv, TypeInv, WriterInv
  <2>4. \A j \in Keys : j # k => Recovered(file)[j] = table[j]
    BY <2>1 DEF DurableInv, WriterInv
  <2> HIDE DEF k
  <2>5. file' = g
    BY <1>2, <2>1, <2>2, <2>3, AppendToComplete
  <2>6. /\ Single(g)
        /\ \A j \in Keys : Recovered(g)[j] =
             IF j = k /\ n >= (IF v = Absent THEN 2 ELSE 3) THEN v ELSE Recovered(file)[j]
    <3> HIDE DEF v
    <3> QED
      BY <1>1, <2>1, <2>3, AppendSingle
  <2> HIDE DEF g
  <2>7. /\ Recovered(g) \in [Keys -> Storable]
        /\ Recovered(file) \in [Keys -> Storable]
        /\ table \in [Keys -> Storable]
    BY <1>1, <2>6, RecoveredStorable DEF DurableInv
  <2>8. Recovered(g) \in {Recovered(file), table}
    <3>1. CASE n >= (IF v = Absent THEN 2 ELSE 3)
      <4>1. \A j \in Keys : Recovered(g)[j] = table[j]
        BY <2>4, <2>6, <3>1
      <4> QED
        BY <2>7, <4>1
    <3>2. CASE ~(n >= (IF v = Absent THEN 2 ELSE 3))
      <4>1. \A j \in Keys : Recovered(g)[j] = Recovered(file)[j]
        BY <2>6, <3>2
      <4> QED
        BY <2>7, <4>1
    <3> QED
      BY <3>1, <3>2
  <2> QED
    BY <1>1, <2>1, <2>5, <2>6, <2>8
<1> QED
  BY <1>3, <1>4

LEMMA DurableCrash ==
  ASSUME Reliable, DurableInv, Crash, TypeInv'
  PROVE  DurableInv'
<1>1. /\ status' = "down" /\ table' = Empty /\ writer' = Nobody
      /\ \A t \in Threads : flush'[t] = "no"
  BY DEF Crash
<1>2. table' \in [Keys -> Storable]
  BY <1>1 DEF Empty, Storable
<1>3. FileInv' /\ DownInv' /\ WriterInv' /\ QuietInv'
  BY <1>1, CrashFacts DEF FileInv, DownInv, WriterInv, QuietInv
<1>4. RewriteInv'
  BY <1>1 DEF RewriteInv, FlushCovers, Rewriting
<1> QED
  BY <1>2, <1>3, <1>4 DEF DurableInv

LEMMA DurableLoad ==
  ASSUME Reliable, DurableInv, NEW t \in Threads, Load(t), TypeInv'
  PROVE  DurableInv'
<1>1. /\ status = "down" /\ status' = "opening" /\ UNCHANGED <<file, writer>>
      /\ table' = Recovered(file)
      /\ writer = Nobody
      /\ \A u \in Threads : flush'[u] # "run"
  BY DEF Load, Fault, Reliable, DurableInv, DownInv, TypeInv, TypeOK
<1>2. table' \in [Keys -> Storable]
  BY <1>1, RecoveredStorable DEF DurableInv, FileInv
<1>3. FileInv' /\ DownInv' /\ WriterInv' /\ QuietInv'
  BY <1>1 DEF FileInv, DownInv, WriterInv, QuietInv, Rewriting, DurableInv
<1>4. RewriteInv'
  BY <1>1 DEF RewriteInv, FlushCovers, Rewriting
<1> QED
  BY <1>2, <1>3, <1>4 DEF DurableInv

(* Every operation that changes the table is a Mutate with a storable value*)
LEMMA Mutations ==
  ASSUME Reliable, DurableInv, NEW t \in Threads, NEW k \in Keys,
         \/ Remove(t, k)
         \/ \E v \in [1..1 -> Atoms] : Put(t, k, v) \/ AppendTo(t, k, v)
         \/ \E e, v \in [1..1 -> Atoms] : CompareSwap(t, k, e, v)
  PROVE  \E v \in Storable : Mutate(t, k, v)
<1>1. \A v \in [1..1 -> Atoms] : v \in Storable
  BY PutValues, TableAssumption DEF Storable, Values
<1>2. CASE Remove(t, k)
  BY <1>2 DEF Remove, Storable
<1>3. CASE \E v \in [1..1 -> Atoms] : Put(t, k, v) \/ AppendTo(t, k, v)
  BY <1>1, <1>3 DEF Put, AppendTo, Storable
<1>4. CASE \E e, v \in [1..1 -> Atoms] : CompareSwap(t, k, e, v)
  <2>1. PICK e \in [1..1 -> Atoms], v \in [1..1 -> Atoms] : CompareSwap(t, k, e, v)
    BY <1>4
  <2>2. Swapped(table, k, e, v) \in Storable
    BY <1>1 DEF Swapped, DurableInv
  <2> QED
    BY <2>1, <2>2 DEF CompareSwap
<1> QED
  BY <1>2, <1>3, <1>4

(* The steps of the specification, the mutations taken together and the    *)
(* failures, which need a Faulty operation, left out.                      *)
LEMMA ReliableSteps ==
  ASSUME Reliable, DurableInv, [Next]_vars
  PROVE  \/ \E t \in Threads, k \in Keys, v \in Storable : Mutate(t, k, v)
         \/ \E t \in Threads, k \in Keys : FlushEntry(t, k)
         \/ \E t \in Threads :
              WriteLine(t) \/ FlushBegin(t) \/ Truncate(t) \/ FlushDone(t) \/ Load(t)
         \/ Crash
         \/ UNCHANGED vars
<1>1. \A t \in Threads : ~WriteFails(t) /\ ~FlushFails(t)
  BY DEF WriteFails, FlushFails, Fault, Reliable
<1> QED
  BY <1>1, Mutations DEF Next

LEMMA DurableStep ==
  ASSUME Reliable
  PROVE  DurableInv /\ [Next]_vars => DurableInv'
<1> SUFFICES ASSUME DurableInv, [Next]_vars PROVE DurableInv'
  OBVIOUS
<1>1. TypeInv'
  BY TypeStep DEF DurableInv
<1>2. ASSUME NEW t \in Threads, FlushBegin(t) PROVE DurableInv'
  <2>1. /\ UNCHANGED <<status, table, file, writer, pending, todo>>
        /\ \A u \in Threads : flush'[u] = "run" <=> flush[u] = "run"
        /\ status = "up"
    BY <1>2 DEF FlushBegin, DurableInv, TypeInv, TypeOK
  <2>2. Rewriting' <=> Rewriting
    BY <2>1 DEF Rewriting
  <2>3. FlushCovers'
    BY <2>1, <2>2 DEF FlushCovers, Live, Written, Entry, DurableInv, RewriteInv
  <2>4. RewriteInv'
    BY <2>1, <2>2, <2>3 DEF RewriteInv, Live, Entry, DurableInv
  <2>5. FileInv' /\ DownInv' /\ WriterInv' /\ QuietInv'
    BY <2>1, <2>2 DEF FileInv, DownInv, WriterInv, QuietInv, DurableInv
  <2> QED
    BY <1>1, <2>1, <2>4, <2>5 DEF DurableInv
<1>3. CASE UNCHANGED vars
  BY <1>1, <1>3 DEF vars, DurableInv, FileInv, DownInv, WriterInv, RewriteInv, QuietInv,
                    FlushCovers, Rewriting, Live, Written, Entry
<1> QED
  BY <1>1, <1>2, <1>3, ReliableSteps, DurableMutate, DurableWriteLine, DurableTruncate,
     DurableFlushEntry, DurableFlushDone, DurableLoad, DurableCrash

LEMMA DurableInvariant ==
  ASSUME Reliable
  PROVE  Spec => []DurableInv
<1>1. DurableInv /\ [Next]_vars => DurableInv'
  BY DurableStep
<1> QED
  BY <1>1, DurableInit, PTL DEF Spec

-----------------------------------------------------------------------------
(* Theorems.                                                               *)

(* When put, append, compare_swap or remove has returned, and no flush is  *)
(* rewriting the file, with_persistence would restore exactly the table.   *)
THEOREM DurabilityHolds ==
  ASSUME Reliable
  PROVE  Spec => []QuiescentDurable
<1>1. DurableInv => QuiescentDurable
  BY DEF DurableInv, QuietInv, QuiescentDurable
<1> QED
  BY <1>1, DurableInvariant, PTL

(* However flushes overlap, one of them will write what is missing.        *)
THEOREM OverlappingFlushesCover ==
  ASSUME Reliable
  PROVE  Spec => []FlushCovers
<1>1. DurableInv => FlushCovers
  BY DEF DurableInv, RewriteInv
<1> QED
  BY <1>1, DurableInvariant, PTL

-----------------------------------------------------------------------------
(* Refinement: the three variables of DurableMap, as Promise reads them.   *)

TableBar == IF status = "up" THEN table ELSE Empty
StableBar == IF Rewriting THEN table ELSE Recovered(file)
UpBar == status = "up"

BarStutter == UNCHANGED <<TableBar, StableBar, UpBar>>

LEMMA PromiseInit == Init => Promise!Init
<1> SUFFICES ASSUME Init PROVE Promise!Init
  OBVIOUS
<1>1. ~Rewriting /\ Recovered(file) = Empty
  BY DEF Init, Rewriting, Recovered, LinesOf, Empty
<1> QED
  BY <1>1 DEF Init, Promise!Init, Promise!Empty, Empty

LEMMA PromiseStep ==
  ASSUME Reliable, DurableInv, DurableInv', [Next]_vars
  PROVE  [Promise!Next]_(Promise!vars)
<1> SUFFICES Promise!Next \/ BarStutter
  BY DEF BarStutter, TableBar, StableBar, UpBar, Promise!vars
<1> USE DEF BarStutter, TableBar, StableBar, UpBar
<1>1. ASSUME NEW t \in Threads, NEW k \in Keys, NEW v \in Storable, Mutate(t, k, v)
      PROVE  Promise!Next
  <2>1. /\ status = "up" /\ status' = "up" /\ ~Rewriting /\ ~Rewriting'
        /\ Recovered(file) = table /\ file' = file
        /\ table' = [table EXCEPT ![k] = v]
    BY <1>1, MutateFacts DEF Mutate
  <2>2. Promise!Update(k, v)
    BY <2>1 DEF Promise!Update
  <2> QED
    BY <2>2 DEF Promise!Next, Storable
<1>2. ASSUME NEW t \in Threads, WriteLine(t) PROVE Promise!Next
  <2>1. /\ status = "up" /\ status' = "up" /\ ~Rewriting /\ ~Rewriting'
        /\ Recovered(file') = table /\ table' = table
    BY <1>2, WriteLineFacts DEF WriteLine, Rewriting
  <2> QED
    BY <2>1 DEF Promise!Next, Promise!Settle
<1>3. ASSUME NEW t \in Threads, FlushBegin(t) PROVE BarStutter
  <2>1. Rewriting' <=> Rewriting
    BY <1>3 DEF FlushBegin, Rewriting, DurableInv, TypeInv, TypeOK
  <2> QED
    BY <1>3, <2>1 DEF FlushBegin
<1>4. ASSUME NEW t \in Threads, Truncate(t) PROVE BarStutter
  <2>1. Rewriting' /\ UNCHANGED <<status, table>>
    BY <1>4 DEF Truncate, Rewriting, DurableInv, TypeInv, TypeOK
  <2>2. ~Rewriting => Recovered(file) = table
    BY <1>4 DEF Truncate, DurableInv, QuietInv, TypeInv, LockDiscipline, DownInv
  <2> QED
    BY <2>1, <2>2
<1>5. ASSUME NEW t \in Threads, NEW k \in Keys, FlushEntry(t, k) PROVE BarStutter
  BY <1>5 DEF FlushEntry, Rewriting
<1>6. ASSUME NEW t \in Threads, FlushDone(t) PROVE Promise!Next \/ BarStutter
  <2>1. /\ Rewriting /\ status' = "up" /\ UNCHANGED <<table, file>>
        /\ ~Rewriting' => Recovered(file) = table
    BY <1>6, FlushDoneFacts DEF FlushDone, Rewriting, Reliable, DurableInv
  <2>2. CASE status = "up"
    BY <2>1, <2>2
  <2>3. CASE status # "up"
    BY <2>1, <2>3 DEF Promise!Next, Promise!Recover
  <2> QED
    BY <2>2, <2>3
<1>7. ASSUME NEW t \in Threads, Load(t) PROVE BarStutter
  <2>1. ~Rewriting /\ ~Rewriting'
    BY <1>7 DEF Load, Rewriting, DurableInv, DownInv, TypeInv, TypeOK
  <2> QED
    BY <1>7, <2>1 DEF Load
<1>8. ASSUME Crash PROVE Promise!Next \/ BarStutter
  <2>1. status' = "down" /\ ~Rewriting /\ ~Rewriting'
    BY <1>8, CrashFacts DEF Crash
  <2>2. CASE status = "up"
    <3>1. Recovered(file') \in {Recovered(file), table}
      BY <1>8, CrashFacts
    <3> QED
      BY <2>1, <2>2, <3>1 DEF Promise!Next, Promise!Crash, Promise!Empty, Empty
  <2>3. CASE status # "up"
    <3>1. file' = file
      BY <1>8, <2>3, CrashFacts DEF DurableInv, TypeInv, LockDiscipline
    <3> QED
      BY <2>1, <2>3, <3>1
  <2> QED
    BY <2>2, <2>3
<1>9. CASE UNCHANGED vars
  BY <1>9 DEF vars, Rewriting
<1> QED
  BY <1>1, <1>2, <1>3, <1>4, <1>5, <1>6, <1>7, <1>8, <1>9, ReliableSteps

(* NoVoHT keeps the promise of DurableMap: updates take effect one at a    *)
(* time, and a crash loses at most the one nobody has been told about.     *)
THEOREM ImplementsDurableMap ==
  ASSUME Reliable
  PROVE  Spec => Durable
<1>1. DurableInv /\ DurableInv' /\ [Next]_vars => [Promise!Next]_(Promise!vars)
  BY PromiseStep
<1> QED
  BY <1>1, PromiseInit, DurableInvariant, PTL DEF Spec, Durable, Promise!Spec

-----------------------------------------------------------------------------
(* Damage.  Whatever fails and whenever it crashes, the keys that the file *)
(* does not restore can be counted by the writes that failed.              *)

(* The file without its torn line, if there is one.                        *)
Settled(f) == IF Unterminated(f) THEN SubSeq(f, 1, Len(f) - 1) ELSE f

LEMMA SettledFacts ==
  ASSUME NEW f, FileOK(f)
  PROVE  /\ FileOK(Settled(f))
         /\ Unterminated(f) =>
              /\ f[Len(f)] \in Seq(Writes) /\ f[Len(f)] # << >>
              /\ f = Append(Settled(f), f[Len(f)])
              /\ \A l \in Seq(Writes) : [f EXCEPT ![Len(f)] = l] = Append(Settled(f), l)
<1>1. f \in Seq(Seq(Writes)) /\ Len(f) \in Nat
  BY DEF FileOK
<1>2. CASE ~Unterminated(f)
  BY <1>2 DEF Settled
<1>3. CASE Unterminated(f)
  <2> DEFINE s == SubSeq(f, 1, Len(f) - 1)
  <2>1. Len(f) \in Nat \ {0} /\ Len(f) \in 1..Len(f) /\ Settled(f) = s
    BY <1>1, <1>3 DEF Unterminated, Settled
  <2>2. f[Len(f)] \in Seq(Writes) /\ f[Len(f)] # << >>
    BY <1>1, <2>1, ElementOfSeq DEF FileOK
  <2> DEFINE n == Len(f) - 1
  <2>3. n \in Nat /\ n + 1 = Len(f) /\ Len(f) \in 1..Len(f)
    BY <2>1
  <2> HIDE DEF n
  <2>4. s = SubSeq(f, 1, n) /\ \A i \in 1..n : f[i] \in Seq(Writes) /\ f[i] # << >>
    BY <1>1, <2>3, ElementOfSeq DEF FileOK, n
  <2> HIDE DEF s
  <2>5. s \in Seq(Seq(Writes)) /\ Len(s) = n /\ \A i \in 1..n : s[i] = f[i]
    BY <2>3, <2>4, SubSeqProperties
  <2>6. FileOK(s)
    BY <2>4, <2>5 DEF FileOK
  <2>7. ASSUME NEW l \in Seq(Writes), NEW g \in Seq(Seq(Writes)), Len(g) = Len(f),
               \A i \in 1..Len(f) : g[i] = IF i = Len(f) THEN l ELSE f[i]
        PROVE  g = Append(s, l)
    <3>1. /\ Append(s, l) \in Seq(Seq(Writes)) /\ Len(Append(s, l)) = n + 1
          /\ \A i \in 1..n : Append(s, l)[i] = s[i]
          /\ Append(s, l)[n + 1] = l
      BY <2>5, AppendProperties
    <3> DEFINE h == Append(s, l)
    <3> HIDE DEF h
    <3>2. ASSUME NEW i \in 1..n + 1 PROVE g[i] = h[i]
      <4>1. CASE i = n + 1
        BY <2>3, <2>7, <3>1, <4>1 DEF h
      <4>2. CASE i # n + 1
        <5>1. i \in 1..n /\ i \in 1..Len(f) /\ i # Len(f)
          BY <2>3, <4>2
        <5> QED
          BY <2>5, <2>7, <3>1, <5>1 DEF h
      <4> QED
        BY <4>1, <4>2
    <3> QED
      BY <2>3, <2>7, <3>1, <3>2, SeqEqual DEF h
  <2>8. ASSUME NEW l \in Seq(Writes) PROVE [f EXCEPT ![Len(f)] = l] = Append(s, l)
    <3> DEFINE g == [f EXCEPT ![Len(f)] = l]
    <3>1. /\ g \in Seq(Seq(Writes)) /\ Len(g) = Len(f)
          /\ \A i \in 1..Len(f) : g[i] = IF i = Len(f) THEN l ELSE f[i]
      BY <1>1, <2>3, ExceptSeq
    <3> HIDE DEF g
    <3>2. g = Append(s, l)
      BY <2>7, <3>1
    <3> QED
      BY <3>2 DEF g
  <2>9. f = Append(s, f[Len(f)])
    BY <1>1, <2>2, <2>7
  <2> QED
    BY <2>1, <2>2, <2>6, <2>8, <2>9
<1> QED
  BY <1>2, <1>3

(* What writing some pieces of a line does to a file.  A torn line leaves  *)
(* the rest of the file as it was.  A whole one changes its own key, and   *)
(* where it is glued to a torn line one key more.                          *)
LEMMA PiecesFacts ==
  ASSUME Plain, NEW f, FileOK(f),
         NEW w, w.key \in Keys, w.val \in Contents, NEW n \in 1..4, n <= Pieces(w)
  PROVE  LET g == AppendPieces(f, w, n)
         IN  /\ Unterminated(g) <=> n < Pieces(w)
             /\ n < Pieces(w) => Settled(g) = Settled(f)
             /\ n = Pieces(w) /\ ~Unterminated(f) =>
                  \A k \in Keys : Recovered(g)[k] = IF k = w.key THEN w.val ELSE Recovered(f)[k]
             /\ \E e \in Keys : \A k \in Keys :
                  n = Pieces(w) /\ k # e => Recovered(g)[k] = Recovered(Settled(f))[k]
<1> DEFINE x == Write(w, n)
           g == AppendPieces(f, w, n)
           s == Settled(f)
<1>1. x \in Writes /\ x.key = w.key /\ x.val = w.val /\ x.n = n /\ Pieces(x) = Pieces(w)
  BY DEF Write, Writes, Pieces
<1> HIDE DEF x
<1>2. FileOK(s) /\ s \in Seq(Seq(Writes)) /\ Len(s) \in Nat
  BY SettledFacts DEF FileOK
<1>3. PICK l \in Seq(Writes) : /\ l # << >> /\ g = Append(s, l) /\ l[Len(l)] = x
                               /\ ~Unterminated(f) => l = <<x>> /\ s = f
  <2> HIDE DEF g, s
  <2>1. CASE Unterminated(f)
    <3>1. f[Len(f)] \in Seq(Writes)
      BY <2>1, SettledFacts
    <3> DEFINE l == Append(f[Len(f)], x)
    <3>2. l \in Seq(Writes) /\ l # << >> /\ l[Len(l)] = x
      BY <1>1, <3>1, AppendProperties
    <3>3. g = [f EXCEPT ![Len(f)] = l]
      BY <2>1 DEF AppendPieces, g, x
    <3> HIDE DEF l
    <3>4. g = Append(s, l)
      BY <2>1, <3>2, <3>3, SettledFacts DEF s
    <3> QED
      BY <2>1, <3>2, <3>4
  <2>2. CASE ~Unterminated(f)
    <3>1. <<x>> \in Seq(Writes) /\ <<x>> # << >> /\ <<x>>[Len(<<x>>)] = x
      BY <1>1
    <3>2. g = Append(s, <<x>>) /\ s = f
      BY <2>2 DEF AppendPieces, g, s, x, Settled
    <3> QED
      BY <3>1, <3>2
  <2> QED
    BY <2>1, <2>2
<1> HIDE DEF g, s
<1>4. Len(g) = Len(s) + 1 /\ g[Len(g)] = l /\ g \in Seq(Seq(Writes))
  BY <1>2, <1>3, AppendProperties
<1>5. Unterminated(g) <=> n < Pieces(w)
  <2>1. Len(g) > 0 /\ g[Len(g)][Len(g[Len(g)])] = x
    BY <1>2, <1>3, <1>4
  <2>2. Unterminated(g) <=> x.n < Pieces(x)
    BY <2>1, Zenon DEF Unterminated
  <2> QED
    BY <1>1, <2>2
<1>6. n < Pieces(w) => Settled(g) = s
  <2> SUFFICES ASSUME n < Pieces(w) PROVE Settled(g) = s
    OBVIOUS
  <2>1. Settled(g) = SubSeq(Append(s, l), 1, Len(s))
    BY <1>2, <1>3, <1>4, <1>5 DEF Settled
  <2> QED
    BY <1>2, <1>3, <2>1
<1>7. \A k \in Keys : Recovered(g)[k] = IF Effect(l).key = k THEN Effect(l).val ELSE Recovered(s)[k]
  BY <1>2, <1>3, RecoveredAppend
<1>8. n = Pieces(w) /\ ~Unterminated(f) => Effect(l) = Line(w.key, w.val) /\ s = f
  <2> SUFFICES ASSUME n = Pieces(w), ~Unterminated(f) PROVE Effect(l) = Line(w.key, w.val) /\ s = f
    OBVIOUS
  <2>1. Len(l) = 1 /\ l[1] = x
    BY <1>3
  <2> QED
    BY <1>1, <1>3, <2>1, EffectOfSingle DEF Pieces
<1>9. \E e \in Keys : \A k \in Keys : k # e => Recovered(g)[k] = Recovered(s)[k]
  <2>1. CASE Effect(l).key \in Keys
    BY <1>7, <2>1
  <2>2. CASE Effect(l).key \notin Keys
    BY <1>7, <2>2
  <2> QED
    BY <2>1, <2>2
<1> QED
  BY <1>5, <1>6, <1>7, <1>8, <1>9 DEF g, s, Line

-----------------------------------------------------------------------------
(* A set of keys holds the damage of the file without its torn line.  A    *)
(* failed write pays for its own key, and for what it leaves to be glued:  *)
(* the key of the next line and the key the two make together.             *)
Contained(D, f, tb, key, n) ==
  /\ D \subseteq Keys /\ IsFiniteSet(D)
  /\ Cardinality(D) + (IF Unterminated(f) THEN 2 ELSE 0) <= 3 * n
  /\ \A k \in Keys \ D : k # key => Recovered(Settled(f))[k] = tb[k]

(* The key of a mutation that is half done is on its way to the file.      *)
Holds(D) ==
  Contained(D, file, table, IF writer = Nobody THEN NoKey ELSE pending.key, faults["write"])

(* Flushes that overlap cover the table as long as none of them fails; one *)
(* by itself does whatever fails.                                          *)
Covered == faults["flush"] = 0 \/ \A t, u \in Threads : t = u

DamageInv ==
  /\ TypeInv
  /\ status = "down" => \A t \in Threads : flush[t] = "no"
  /\ status # "up" => \A t, u \in Threads : flush[t] # "no" /\ flush[u] # "no" => t = u
  /\ writer # Nobody => pending = Line(pending.key, table[pending.key])
  /\ Covered => RewriteInv
  /\ faults["flush"] = 0 /\ status = "up" /\ ~Rewriting => \E D : Holds(D)

LEMMA FaultType == TypeInv => /\ faults["write"] \in Nat /\ faults["flush"] \in Nat
                              /\ DOMAIN faults = Operations
BY NoVoHTAssumption DEF TypeInv, TypeOK, Operations

(* A file that restores the table and whose last line is whole.            *)
LEMMA HoldsNothing ==
  ASSUME TypeInv, Recovered(file) = table, ~Unterminated(file)
  PROVE  Holds({})
BY FS_EmptySet, FaultType DEF Holds, Contained, Settled

LEMMA DamageInit == Init => DamageInv
<1> SUFFICES ASSUME Init PROVE DamageInv
  OBVIOUS
<1>1. TypeInv
  BY TypeInit
<1>2. RewriteInv
  BY DEF Init, RewriteInv, FlushCovers, Rewriting
<1>3. Recovered(file) = table /\ ~Unterminated(file)
  BY DEF Init, Recovered, LinesOf, Empty, Unterminated
<1>4. Holds({})
  BY <1>1, <1>3, HoldsNothing
<1>5. writer = Nobody /\ status = "up"
  BY DEF Init
<1> QED
  BY <1>1, <1>2, <1>4, <1>5 DEF DamageInv

(* The writes on the file: a whole line on a whole file adds no damage,    *)
(* any other adds its key.                                                 *)
LEMMA DamageWrite ==
  ASSUME Plain, DamageInv, NEW D, Holds(D), writer # Nobody, writer' = Nobody,
         NEW n \in 0..Pieces(pending), file' = AppendPieces(file, pending, n),
         UNCHANGED table,
         \/ n = Pieces(pending) /\ UNCHANGED faults
         \/ faults'["write"] = faults["write"] + 1
  PROVE  \E E : Holds(E)'
<1> DEFINE w == pending
           m == faults["write"]
           f == file
<1>1. /\ FileOK(f) /\ w.key \in Keys /\ w.val \in Contents
      /\ w.val = table[w.key] /\ m \in Nat /\ Pieces(w) \in {3, 4}
  BY FaultType, NoVoHTAssumption
  DEF DamageInv, TypeInv, TypeOK, Contents, Writes, FileOK, Line, Pieces
<1>2. Contained(D, f, table, w.key, m)
  BY DEF Holds
<1>3. ASSUME NEW F, Contained(F, file', table, NoKey, faults'["write"]) PROVE Holds(F)'
  BY <1>3 DEF Holds
<1>4. faults'["write"] \in {m, m + 1} /\ (n # Pieces(w) => faults'["write"] = m + 1)
  OBVIOUS
<1> HIDE DEF w, m, f
<1> DEFINE E == D \union {w.key}
<1>5. D \subseteq Keys /\ IsFiniteSet(D) /\ D \subseteq E /\ E \subseteq Keys
  BY <1>1, <1>2 DEF Contained
<1>6. /\ IsFiniteSet(E) /\ Cardinality(D) \in Nat /\ Cardinality(E) \in Nat
      /\ Cardinality(E) <= Cardinality(D) + 1
  BY <1>5, FS_AddElement, FS_CardinalityType
<1>7. CASE n = 0
  <2>1. file' = f
    BY <1>7 DEF AppendPieces, f
  <2>2. faults'["write"] = m + 1
    BY <1>1, <1>4, <1>7
  <2>3. Contained(E, f, table, NoKey, m + 1)
    BY <1>1, <1>2, <1>5, <1>6 DEF Contained
  <2> QED
    BY <1>3, <2>1, <2>2, <2>3
<1>8. CASE n # 0
  <2> DEFINE g == AppendPieces(f, w, n)
  <2>1. n \in 1..4 /\ n <= Pieces(w) /\ file' = g
    BY <1>1, <1>8 DEF w, f
  <2>2. /\ Unterminated(g) <=> n < Pieces(w)
        /\ n < Pieces(w) => Settled(g) = Settled(f)
        /\ n = Pieces(w) /\ ~Unterminated(f) =>
             \A k \in Keys : Recovered(g)[k] = IF k = w.key THEN w.val ELSE Recovered(f)[k]
        /\ \E e \in Keys : \A k \in Keys :
             n = Pieces(w) /\ k # e => Recovered(g)[k] = Recovered(Settled(f))[k]
    BY <1>1, <2>1, PiecesFacts
  <2> HIDE DEF g
  <2>3. CASE n < Pieces(w)
    <3>1. \A k \in Keys \ E : Recovered(Settled(g))[k] = table[k]
      BY <1>2, <2>2, <2>3 DEF Contained
    <3>2. Contained(E, g, table, NoKey, faults'["write"])
      BY <1>1, <1>2, <1>4, <1>5, <1>6, <2>2, <2>3, <3>1 DEF Contained
    <3> QED
      BY <1>3, <2>1, <3>2
  <2>4. CASE n = Pieces(w) /\ ~Unterminated(f)
    <3>1. ~Unterminated(g) /\ Settled(g) = g /\ Settled(f) = f
      BY <1>1, <2>2, <2>4 DEF Settled
    <3>2. \A k \in Keys \ D : Recovered(g)[k] = table[k]
      BY <1>1, <1>2, <2>2, <2>4, <3>1 DEF Contained
    <3>3. Contained(D, g, table, NoKey, faults'["write"])
      BY <1>1, <1>2, <1>4, <1>6, <2>4, <3>1, <3>2 DEF Contained
    <3> QED
      BY <1>3, <2>1, <3>3
  <2>5. CASE n = Pieces(w) /\ Unterminated(f)
    <3>1. ~Unterminated(g) /\ Settled(g) = g
      BY <1>1, <2>2, <2>5 DEF Settled
    <3>2. PICK e \in Keys : \A k \in Keys : k # e => Recovered(g)[k] = Recovered(Settled(f))[k]
      BY <2>2, <2>5
    <3> DEFINE F == E \union {e}
    <3>3. /\ F \subseteq Keys /\ IsFiniteSet(F) /\ Cardinality(F) \in Nat
          /\ Cardinality(F) <= Cardinality(D) + 2
      <4>1. IsFiniteSet(F) /\ Cardinality(F) \in {Cardinality(E), Cardinality(E) + 1}
        BY <1>6, FS_AddElement
      <4> QED
        BY <1>5, <1>6, <4>1
    <3>4. \A k \in Keys \ F : Recovered(g)[k] = table[k]
      BY <1>2, <3>2 DEF Contained
    <3> HIDE DEF F
    <3>5. Contained(F, g, table, NoKey, faults'["write"])
      BY <1>1, <1>2, <1>4, <1>6, <2>5, <3>1, <3>3, <3>4 DEF Contained
    <3> QED
      BY <1>3, <2>1, <3>5
  <2> QED
    BY <1>1, <2>1, <2>3, <2>4, <2>5
<1> QED
  BY <1>7, <1>8

LEMMA DamageMutate ==
  ASSUME DamageInv, TypeInv',
         NEW t \in Threads, NEW k \in Keys, NEW v \in Contents, Mutate(t, k, v)
  PROVE  DamageInv'
<1>1. /\ UNCHANGED <<status, file, flush, todo, crashes, faults>>
      /\ status = "up" /\ ~Rewriting /\ ~Rewriting' /\ writer = Nobody
      /\ pending' = Line(k, table'[k]) /\ pending'.key = k /\ writer' # Nobody
      /\ \A j \in Keys : j # k => table'[j] = table[j]
  BY NoVoHTAssumption DEF Mutate, Rewriting, DamageInv, TypeInv, TypeOK, Line
<1>2. RewriteInv'
  BY <1>1 DEF RewriteInv, FlushCovers, Rewriting, Mutate
<1>3. ASSUME NEW D, Holds(D) PROVE Holds(D)'
  <2>1. Contained(D, file, table, NoKey, faults["write"])
    BY <1>1, <1>3 DEF Holds
  <2>2. \A j \in Keys \ D : j # NoKey
    BY NoKeyIsNone
  <2>3. Contained(D, file, table', k, faults["write"])
    BY <1>1, <2>1, <2>2 DEF Contained
  <2> QED
    BY <1>1, <2>3 DEF Holds
<1> QED
  BY <1>1, <1>2, <1>3 DEF DamageInv, Covered

LEMMA DamageStep == Plain /\ DamageInv /\ [Next]_vars => DamageInv'
<1> SUFFICES ASSUME Plain, DamageInv, [Next]_vars PROVE DamageInv'
  OBVIOUS
<1>a. TypeInv /\ TypeInv'
  BY TypeStep DEF DamageInv
<1>b. ASSUME UNCHANGED <<status, table, file, writer, pending, faults>>,
             \A u \in Threads : flush[u] = "no" => flush'[u] = "no",
             status = "up" \/ \A u \in Threads : flush'[u] = flush[u],
             Rewriting <=> Rewriting', Covered => RewriteInv'
      PROVE  DamageInv'
  BY <1>a, <1>b DEF DamageInv, Covered, Holds
<1>1. ASSUME NEW t \in Threads, NEW k \in Keys, Remove(t, k) PROVE DamageInv'
  BY <1>1, <1>a, DamageMutate DEF Remove, Contents
<1>2. ASSUME NEW t \in Threads, NEW k \in Keys, NEW v \in [1..1 -> Atoms],
             Put(t, k, v) \/ AppendTo(t, k, v)
      PROVE  DamageInv'
  BY <1>2, <1>a, DamageMutate, PutValues DEF Put, AppendTo, Contents
<1>3. ASSUME NEW t \in Threads, NEW k \in Keys,
             NEW e \in [1..1 -> Atoms], NEW v \in [1..1 -> Atoms],
             CompareSwap(t, k, e, v)
      PROVE  DamageInv'
  <2>1. Swapped(table, k, e, v) \in Contents
    BY <1>a, PutValues DEF Swapped, Contents, TypeInv, TypeOK
  <2> QED
    BY <1>3, <1>a, <2>1, DamageMutate DEF CompareSwap
<1>4. ASSUME NEW t \in Threads, NEW k \in Keys, FlushEntry(t, k) PROVE DamageInv'
  <2>1. Rewriting /\ Rewriting'
    BY <1>4 DEF FlushEntry, Rewriting
  <2>2. RewriteInv => RewriteInv'
    BY <1>4, <1>a, RewriteFlushEntry
  <2> QED
    BY <1>4, <1>a, <2>1, <2>2 DEF FlushEntry, DamageInv, Covered
<1>5. ASSUME NEW t \in Threads, WriteLine(t) \/ WriteFails(t) PROVE DamageInv'
  <2>1. /\ UNCHANGED <<status, table, flush, todo>> /\ writer = t /\ writer' = Nobody
        /\ status = "up" /\ ~Rewriting /\ ~Rewriting' /\ writer # Nobody
    BY <1>5, <1>a, NoVoHTAssumption DEF WriteLine, WriteFails, TypeInv, LockDiscipline, Rewriting
  <2>2. RewriteInv' /\ faults'["flush"] = faults["flush"]
    BY <1>5, <1>a, <2>1 DEF WriteLine, WriteFails, Fault, RewriteInv, FlushCovers, Rewriting,
                            TypeInv, TypeOK, LockDiscipline, Operations
  <2>3. PICK n \in 0..Pieces(pending) :
          /\ file' = AppendPieces(file, pending, n)
          /\ \/ n = Pieces(pending) /\ UNCHANGED faults
             \/ faults'["write"] = faults["write"] + 1
    <3>1. CASE WriteLine(t)
      BY <3>1 DEF WriteLine, Pieces
    <3>2. CASE WriteFails(t)
      <4>1. PICK n \in 0..Pieces(pending) - 1 : file' = AppendPieces(file, pending, n)
        BY <3>2 DEF WriteFails
      <4>2. faults'["write"] = faults["write"] + 1
        BY <3>2, FaultType, <1>a DEF WriteFails, Fault, Operations
      <4> QED
        BY <4>1, <4>2 DEF Pieces
    <3> QED
      BY <1>5, <3>1, <3>2
  <2>4. ASSUME NEW D, Holds(D) PROVE \E E : Holds(E)'
    BY <2>1, <2>3, <2>4, DamageWrite
  <2> QED
    BY <1>a, <2>1, <2>2, <2>4 DEF DamageInv
<1>6. ASSUME NEW t \in Threads, FlushBegin(t) PROVE DamageInv'
  <2>1. /\ UNCHANGED <<status, table, file, writer, pending, todo, faults>>
        /\ status = "up" /\ \A u \in Threads : flush'[u] = "run" <=> flush[u] = "run"
    BY <1>6, <1>a DEF FlushBegin, TypeInv, TypeOK
  <2>2. RewriteInv => RewriteInv'
    BY <2>1 DEF RewriteInv, FlushCovers, Rewriting, Live, Entry, Written
  <2> QED
    BY <1>a, <2>1, <2>2 DEF DamageInv, Covered, Rewriting, Holds
<1>7. ASSUME NEW t \in Threads, Truncate(t) PROVE DamageInv'
  <2>1. /\ UNCHANGED <<status, table, writer, pending, faults>> /\ Rewriting'
        /\ flush[t] # "no" /\ \A u \in Threads : flush[u] = "no" => flush'[u] = "no"
    BY <1>7, <1>a DEF Truncate, Rewriting, TypeInv, TypeOK
  <2>2. RewriteInv => RewriteInv'
    BY <1>7, <1>a, RewriteTruncate
  <2> QED
    BY <1>a, <2>1, <2>2 DEF DamageInv, Covered
<1>8. ASSUME NEW t \in Threads, FlushDone(t) PROVE DamageInv'
  <2>1. /\ UNCHANGED <<table, file, writer, pending, faults>> /\ status' = "up"
    BY <1>8 DEF FlushDone
  <2>2. RewriteInv => RewriteInv'
    BY <1>8, <1>a, RewriteFlushDone
  <2>3. writer = Nobody
    BY <1>8, <1>a DEF FlushDone, TypeInv, LockDiscipline
  <2>4. RewriteInv /\ ~Rewriting' => Holds({})'
    <3> SUFFICES ASSUME RewriteInv, ~Rewriting' PROVE Holds({})'
      OBVIOUS
    <3>1. /\ Recovered(file) = table
          /\ \A i \in 1..Len(file) : \E k \in Live(table) : file[i] = Entry(k)
      BY <1>8, <1>a, FlushDoneFacts
    <3>2. ~Unterminated(file)
      <4> SUFFICES ASSUME Len(file) > 0 PROVE ~Unterminated(file)
        BY DEF Unterminated
      <4>1. PICK k : file[Len(file)] = Entry(k)
        <5>1. Len(file) \in 1..Len(file)
          BY <1>a DEF TypeInv, TypeOK
        <5> QED
          BY <3>1, <5>1
      <4> DEFINE w == Line(k, table[k])
      <4>2. file[Len(file)] = <<Full(w)>> /\ Full(w).val = w.val /\ Full(w).n = Pieces(w)
        BY <4>1 DEF Entry, Full, Write
      <4> HIDE DEF w
      <4> QED
        BY <4>2 DEF Unterminated, Pieces
    <3>3. Holds({})
      BY <1>a, <3>1, <3>2, HoldsNothing
    <3> QED
      BY <2>1, <3>3 DEF Holds
  <2> QED
    BY <1>a, <2>1, <2>2, <2>3, <2>4 DEF DamageInv, Covered
<1>9. ASSUME NEW t \in Threads, FlushFails(t) PROVE DamageInv'
  <2>1. /\ writer = Nobody /\ UNCHANGED <<writer, pending>> /\ flush[t] # "no"
        /\ \A u \in Threads : flush'[u] = IF u = t THEN "no" ELSE flush[u]
        /\ faults'["flush"] # 0
        /\ status' = IF status = "opening" THEN "down" ELSE status
    BY <1>9, <1>a, FaultType DEF FlushFails, Fault, TypeInv, TypeOK, LockDiscipline
  <2>2. Covered' => RewriteInv'
    <3> SUFFICES ASSUME \A u, v \in Threads : u = v PROVE RewriteInv'
      BY <2>1 DEF Covered
    <3> QED
      BY <2>1 DEF RewriteInv, FlushCovers, Rewriting
  <2> QED
    BY <1>a, <2>1, <2>2 DEF DamageInv, TypeInv, TypeOK
<1>10. ASSUME NEW t \in Threads, Load(t) PROVE DamageInv'
  <2>1. /\ status' = "opening" /\ writer' = writer /\ ~Rewriting' /\ writer = Nobody
        /\ \A u \in Threads : flush'[u] = IF u = t THEN "open" ELSE "no"
    BY <1>10, <1>a DEF Load, Rewriting, DamageInv, TypeInv, TypeOK, LockDiscipline
  <2>2. RewriteInv'
    BY <2>1 DEF RewriteInv, FlushCovers, Rewriting
  <2> QED
    BY <1>a, <2>1, <2>2 DEF DamageInv
<1>11. ASSUME Crash PROVE DamageInv'
  <2>1. /\ status' = "down" /\ writer' = Nobody /\ ~Rewriting'
        /\ \A u \in Threads : flush'[u] = "no"
    BY <1>11 DEF Crash, Rewriting
  <2>2. RewriteInv'
    BY <2>1 DEF RewriteInv, FlushCovers, Rewriting
  <2> QED
    BY <1>a, <2>1, <2>2 DEF DamageInv
<1>12. ASSUME UNCHANGED vars PROVE DamageInv'
  <2>1. RewriteInv => RewriteInv'
    BY <1>12 DEF vars, RewriteInv, FlushCovers, Rewriting, Live, Entry, Written
  <2> QED
    BY <1>12, <1>b, <2>1 DEF vars, Rewriting, DamageInv
<1> QED
  BY <1>1, <1>2, <1>3, <1>4, <1>5, <1>6, <1>7, <1>8, <1>9, <1>10, <1>11, <1>12 DEF Next

(* The file restores every key but three for each write that failed: the   *)
(* one whose line is lost, the one glued to what was left of it, and the   *)
(* one the two make together.  This is whatever crashes, wherever a read   *)
(* stops short and however many flushes overlap, as long as none fails.    *)
THEOREM DamageContainedHolds ==
  ASSUME Plain
  PROVE  Spec => []DamageContained
<1>1. DamageInv => DamageContained
  <2> SUFFICES ASSUME DamageInv, status = "up", writer = Nobody, ~Rewriting, faults["flush"] = 0
               PROVE  Cardinality({k \in Keys : Recovered(file)[k] # table[k]}) <= 3 * faults["write"]
    BY DEF DamageContained
  <2>1. PICK D : Contained(D, file, table, NoKey, faults["write"])
    BY DEF DamageInv, Holds
  <2> DEFINE S == {k \in Keys : Recovered(file)[k] # table[k]}
  <2>2. FileOK(file)
    BY DEF DamageInv, TypeInv, TypeOK, FileOK, Writes, Contents
  <2>3. PICK e : \A k \in Keys : \/ k = e /\ Unterminated(file)
                                \/ Recovered(file)[k] = Recovered(Settled(file))[k]
    <3>1. CASE ~Unterminated(file)
      BY <3>1 DEF Settled
    <3>2. CASE Unterminated(file)
      <4> DEFINE l == file[Len(file)]
      <4>1. FileOK(Settled(file)) /\ l \in Seq(Writes) /\ l # << >> /\ file = Append(Settled(file), l)
        BY <2>2, <3>2, SettledFacts
      <4> HIDE DEF l
      <4>2. \A k \in Keys : Recovered(Append(Settled(file), l))[k] =
              IF Effect(l).key = k THEN Effect(l).val ELSE Recovered(Settled(file))[k]
        BY <4>1, RecoveredAppend
      <4> QED
        BY <3>2, <4>1, <4>2
    <3> QED
      BY <3>1, <3>2
  <2> DEFINE E == IF Unterminated(file) THEN D \union {e} ELSE D
  <2>4. S \subseteq E
    BY <2>1, <2>3, NoKeyIsNone DEF Contained
  <2>5. /\ IsFiniteSet(E) /\ Cardinality(E) \in Nat /\ Cardinality(D) \in Nat
        /\ Cardinality(E) <= Cardinality(D) + (IF Unterminated(file) THEN 1 ELSE 0)
    BY <2>1, FS_AddElement, FS_CardinalityType DEF Contained
  <2> HIDE DEF E
  <2>6. Cardinality(S) <= Cardinality(E) /\ Cardinality(S) \in Nat
    BY <2>4, <2>5, FS_Subset, FS_CardinalityType
  <2>7. faults["write"] \in Nat
    BY FaultType DEF DamageInv
  <2> QED
    BY <2>1, <2>5, <2>6, <2>7 DEF Contained
<1>2. DamageInv /\ [Next]_vars => DamageInv'
  BY DamageStep
<1> QED
  BY <1>1, <1>2, DamageInit, PTL DEF Spec

(* Where no two flushes overlap (one thread), a flush that returns Ok      *)
(* leaves a file that restores the table, after any failures and crashes.  *)
(* With several threads the hypothesis is needed: a flush that fails after *)
(* truncating the file takes the entries of the others with it.            *)
THEOREM FlushRestoresHolds ==
  ASSUME Plain, \A t, u \in Threads : t = u
  PROVE  Spec => FlushRestores
<1>1. DamageInv /\ [Next]_vars => [\A t \in Threads : FlushDone(t) => Recovered(file') = table]_vars
  <2> SUFFICES ASSUME DamageInv, NEW t \in Threads, FlushDone(t)
               PROVE  Recovered(file') = table
    OBVIOUS
  <2>1. file' = file /\ ~Rewriting'
    BY DEF FlushDone, Rewriting, DamageInv, TypeInv, TypeOK
  <2>2. TypeInv /\ RewriteInv
    BY DEF DamageInv, Covered
  <2>3. Recovered(file) = table
    BY <2>1, <2>2, FlushDoneFacts
  <2> QED
    BY <2>1, <2>3
<1>2. DamageInv /\ [Next]_vars => DamageInv'
  BY DamageStep
<1> QED
  BY <1>1, <1>2, DamageInit, PTL DEF Spec, FlushRestores

=============================================================================
