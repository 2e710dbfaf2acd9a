------------------------------ MODULE Chunking ------------------------------
(***************************************************************************)
(* zht-transport, chunking.rs: messages cut into chunks, and put together  *)
(* again from chunks that come in any order.  A message is the sequence of *)
(* its bytes; sequence numbers start at 0, as in the source.  The file is  *)
(* not compiled at this commit.                                            *)
(***************************************************************************)
EXTENDS Naturals, Sequences, FiniteSetsExt, SequencesExt

CONSTANTS Base,       \* the base of the numbers in a header: 10
          SizeLimit,  \* the first payload size too long for its 4 digits: Base^4
          CountLimit, \* the first number of chunks too long for its 7 digits: Base^7
          DigitByte,  \* a digit, read as a byte of a payload
          Garbled     \* what is read of a chunk whose header is out of place

ASSUME ChunkingAssumption ==
  /\ Base \in Nat \ {0, 1}
  /\ {SizeLimit, CountLimit} \subseteq Nat \ {0, 1}

(* chunk_message: an empty message is one empty chunk.  seq and total are  *)
(* what was written; ParsedPayload says what a digit too many does.        *)
ChunkMessage(id, data, size) ==
  LET total == IF data = << >> THEN 1 ELSE (Len(data) + size - 1) \div size
  IN  [i \in 1..total |->
         [id |-> id, seq |-> i - 1, total |-> total,
          payload |-> SubSeq(data, (i - 1) * size + 1, Min({i * size, Len(data)}))]]

(* parse_chunk: the payload that the size field says.  A size of one digit *)
(* too many moves its last digit into the payload, and counts without it.  *)
(* One of total, or of seq, which is less, moves the fields behind it too: *)
(* what is then read, of other places as well, is left open.               *)
ParsedPayload(chunk) ==
  LET n == Len(chunk.payload)
  IN  CASE chunk.total >= CountLimit -> Garbled
        [] chunk.total < CountLimit /\ n < SizeLimit -> chunk.payload
        [] OTHER -> <<DigitByte>> \o SubSeq(chunk.payload, 1, n \div Base - 1)

(* Mutant: one reassembler, whatever the id.                               *)
InsertedAnywhere(inflight, chunk) ==
  LET entry == IF inflight # << >> THEN inflight[CHOOSE id \in DOMAIN inflight : TRUE]
               ELSE [total |-> chunk.total, chunks |-> << >>]
  IN  [entry EXCEPT !.chunks =
         [s \in DOMAIN entry.chunks \union {chunk.seq} |->
            IF s = chunk.seq THEN ParsedPayload(chunk) ELSE entry.chunks[s]]]

(* ChunkReceiver::receive: the reassembler of the id, a new one if there   *)
(* is none, with the chunk in it.  The total is that of the first chunk.   *)
Inserted(inflight, chunk) ==
  LET entry == IF chunk.id \in DOMAIN inflight THEN inflight[chunk.id]
               ELSE [total |-> chunk.total, chunks |-> << >>]
  IN  [entry EXCEPT !.chunks =
         [s \in DOMAIN entry.chunks \union {chunk.seq} |->
            IF s = chunk.seq THEN ParsedPayload(chunk) ELSE entry.chunks[s]]]

IsComplete(entry) == Cardinality(DOMAIN entry.chunks) = entry.total

(* reassemble panics on a chunk that is not there, for all it has enough.  *)
LacksChunk(entry) == DOMAIN entry.chunks # 0..(entry.total - 1)

Reassembled(entry) ==
  FlattenSeq([i \in 1..entry.total |-> entry.chunks[i - 1]])

(* The payloads of the chunks, one after the other.                        *)
Joined(chunks) == FlattenSeq([i \in 1..Len(chunks) |-> ParsedPayload(chunks[i])])

(* Mutant: a complete reassembler stays.                                   *)
ReceivedKept(inflight, chunk) ==
  [i \in DOMAIN inflight \union {chunk.id} |->
     IF i = chunk.id THEN Inserted(inflight, chunk) ELSE inflight[i]]

(* The reassemblers after a chunk: a complete one is taken out.            *)
Received(inflight, chunk) ==
  LET entry == Inserted(inflight, chunk)
      others == [i \in DOMAIN inflight \ {chunk.id} |-> inflight[i]]
  IN  IF IsComplete(entry) THEN others
      ELSE [i \in DOMAIN others \union {chunk.id} |->
              IF i = chunk.id THEN entry ELSE others[i]]
=============================================================================
