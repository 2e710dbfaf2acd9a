------------------------------- MODULE Config -------------------------------
(***************************************************************************)
(* zht-config with the ConfEntry, HostEntity and HashUtil of zht-common:   *)
(* what servers and clients make of zht.conf and neighbor.conf.            *)
(*                                                                         *)
(* A file is a sequence of lines and a line the sequence of its tokens     *)
(* between white space.  A token is [word, number]: its text, and what it  *)
(* reads as, or NaN.  A line whose first character is '#' has "#" as the   *)
(* word of its first token.                                                *)
(***************************************************************************)
EXTENDS Integers, Lists, SequencesExt

CONSTANTS U16, U32 \* the largest port and the largest of the other numbers

ASSUME ConfigAssumption == U16 \in Nat /\ U32 \in Nat /\ U16 <= U32

Token == [word : STRING, number : Int]
NaN == -1
Word(w) == [word |-> w, number |-> NaN]
Number(n) == [word |-> "", number |-> n]

(* Empty lines and comments are passed over, in both files.                *)
Skipped(line) == line = << >> \/ Head(line).word = "#"
Entries(lines) == Filtered(lines, {i \in 1..Len(lines) : ~Skipped(lines[i])})

-----------------------------------------------------------------------------
(* zht.conf: the rest of the line is the value, and the last entry of a    *)
(* name wins.                                                              *)
Parameters(lines) ==
  LET entries == Entries(lines)
      Of(name) == {i \in 1..Len(entries) : entries[i][1].word = name}
      names == {entries[i][1].word : i \in 1..Len(entries)}
  IN  [name \in names |-> Tail(entries[CHOOSE i \in Of(name) : \A j \in Of(name) : j <= i])]

(* A value that does not parse, or is out of range, counts as not given.   *)
GetParsed(parameters, name, max, default) ==
  IF /\ name \in DOMAIN parameters
     /\ Len(parameters[name]) = 1
     /\ parameters[name][1].number \in 0..max
  THEN parameters[name][1].number
  ELSE default

(* protocol, port, num_replicas, .., in the order of the source.           *)
Settings(parameters) ==
  LET Get(name, default) == GetParsed(parameters, name, U32, default)
  IN  [protocol |-> IF "PROTOCOL" \in DOMAIN parameters
                    THEN parameters["PROTOCOL"] ELSE <<Word("TCP")>>,
       port |-> GetParsed(parameters, "PORT", U16, 50000),
       msg_maxsize |-> Get("MSG_MAXSIZE", 1024),
       sccb_poll_interval |-> Get("SCCB_POLL_INTERVAL", 100),
       instant_swap |-> Get("INSTANT_SWAP", 0) = 1,
       max_zht |-> Get("MAX_ZHT", 512),
       num_replicas |-> Get("NUM_REPLICAS", 0),
       replication_type |-> Get("REPLICATION_TYPE", 0),
       zht_capacity |-> Get("ZHT_CAPACITY", 4),
       htdata_path |-> IF "HTDATA_PATH" \in DOMAIN parameters
                       THEN parameters["HTDATA_PATH"] ELSE <<Word("data/")>>,
       migslp_time |-> Get("MIGSLP_TIME", 1000000)]

Protocols == {<<Word(p)>> : p \in {"TCP", "UDP", "MPI"}}

-----------------------------------------------------------------------------
(* neighbor.conf: HOST PORT, and whatever follows is ignored.              *)
Node(host, port) == [host |-> host, port |-> port]

BadNeighbor(line) == Len(line) < 2 \/ line[2].number \notin 0..U16
Names(line, node) == Len(line) >= 2 /\ Node(line[1].word, line[2].number) = node

(* Mutant: a line that cannot be read is skipped.                          *)
NeighborsSkipping(lines) ==
  LET entries == Entries(lines)
      good == Filtered(entries, {i \in 1..Len(entries) : ~BadNeighbor(entries[i])})
  IN  [ok |-> TRUE,
       nodes |-> [i \in 1..Len(good) |-> Node(good[i][1].word, good[i][2].number)]]

(* One line that cannot be read fails the whole load.                      *)
Neighbors(lines) ==
  LET entries == Entries(lines)
  IN  IF \E i \in 1..Len(entries) : BadNeighbor(entries[i])
      THEN [ok |-> FALSE, nodes |-> << >>]
      ELSE [ok |-> TRUE,
            nodes |-> [i \in 1..Len(entries) |->
                         Node(entries[i][1].word, entries[i][2].number)]]

(* AppConfig::load: Missing stands for a file that is not there.           *)
Missing == <<"missing">>

Load(zht, neighbors) ==
  LET loaded == IF neighbors = Missing THEN [ok |-> FALSE, nodes |-> << >>]
                                       ELSE Neighbors(neighbors)
  IN  [ok |-> zht # Missing /\ loaded.ok,
       settings |-> Settings(IF zht = Missing THEN << >> ELSE Parameters(zht)),
       nodes |-> loaded.nodes]

-----------------------------------------------------------------------------
(* gen_hash in words of w bits, where hash << 6, << 16 and the sums wrap;  *)
(* a zero byte ends the key.                                               *)
GenHash(bytes, w) ==
  LET ends == {i \in 1..Len(bytes) : bytes[i] = 0}
      read == IF ends = {} THEN bytes
              ELSE SubSeq(bytes, 1, (CHOOSE i \in ends : \A j \in ends : i <= j) - 1)
      Shift(hash, n) == (hash * (2^n % 2^w)) % 2^w
      Mix(hash, c) == (c + Shift(hash, 6) + Shift(hash, 16) - hash) % 2^w
  IN  FoldLeft(Mix, 0, read)

(* resolve_node: an error where there is no node.                          *)
ResolveNode(nodes, hash) == nodes[(hash % Len(nodes)) + 1]
=============================================================================
