---------------------------- MODULE MCTransport ----------------------------
(* Instances of Transport for TLC.                                         *)
EXTENDS Transport, TLC

CONSTANTS k, x, y, c1, c2

Request(op, val) == [op |-> op, key |-> k, val |-> val, newval |-> val]
Insert == Request("INSERT", <<x>>)
Lookup == Request("LOOKUP", <<x>>)
TooLong == Request("INSERT", <<y>>)
LongInsert == Request("INSERT", <<x, y>>)
LongAppend == Request("APPEND", <<y, y>>)

(* Each caller has a short request and one that takes chunks.              *)
MixedRequests == (c1 :> {Insert, LongInsert}) @@ (c2 :> {Lookup, TooLong, LongAppend})

Sizes == (Insert :> 1) @@ (Lookup :> 1) @@ (TooLong :> 3) @@ (LongInsert :> 4) @@ (LongAppend :> 4)
OwnThreads == (c1 :> 1) @@ (c2 :> 2)
Noise == <<0>>
OneThread == (c1 :> 1) @@ (c2 :> 1)

(* In whatever order its chunks come, a message is put together again.     *)
Orders(n) == {o \in [1..n -> 1..n] : \A i, j \in 1..n : o[i] = o[j] => i = j}
Feed(chunks) ==
  LET RECURSIVE Fed(_)
      Fed(n) == IF n = 0 THEN << >> ELSE Received(Fed(n - 1), chunks[n])
  IN  Inserted(Fed(Len(chunks) - 1), chunks[Len(chunks)])

ASSUME AnyOrder ==
  \A n \in 0..6, size \in 1..4 :
    LET data == [i \in 1..n |-> i]
        chunks == ChunkMessage(1, data, size)
    IN  \A o \in Orders(Len(chunks)) :
          LET entry == Feed([i \in 1..Len(chunks) |-> chunks[o[i]]])
          IN  IsComplete(entry) /\ Reassembled(entry) = data
=============================================================================
