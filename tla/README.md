# A verification project for zht

zht is a distributed hash table in Rust. This directory holds TLA+ modules
translated from its source, TLC configurations that check them on small
instances, and proofs for TLAPS. File and line numbers below are relative to
`src/crates/`.

## 1. The system

| Component | Code | State | Operations |
|---|---|---|---|
| NoVoHT, the storage engine | `zht-storage/src/lib.rs` | a `HashMap` behind an `RwLock`; a database file | `put`, `get`, `remove`, `append`, `compare_swap`, `flush`, `with_persistence` |
| HTWorker, the request processor | `zht-transport/src/lib.rs` 541-872 | a NoVoHT; metrics behind a `Mutex` | `process` for six opcodes |
| TcpProxy and the connection handler | `zht-transport/src/lib.rs` 63-540, 1027-1066 | one async `Mutex` over a map of connections | `sendrecv`, `send_only`, `sendrecv_with_timeout`, `close_connection`, `close_all`, `health_check`, `batch` |
| MembershipManager | `zht-server/src/lib.rs` 93-260 | a `Vec` of members with state and heartbeat | `mark_*`, `add_member`, `remove_member`, `check_health` |
| ReplicationManager, ReplicatedHTWorker | `zht-server/src/lib.rs` 273-408, 827-904 | none of its own; background tasks | `replicate_*`, `process_with_replication` |
| MigrationManager | `zht-server/src/lib.rs` 428-681 | the flag `migrating`; shares the store, the members and the proxy | `check_and_migrate`, `receive_migrated_keys`, `calculate_migration_plan` |
| ZHTServer | `zht-server/src/lib.rs` 718-1198, `main.rs` | the above, gauges, a cancellation token | `start`, `shutdown`, `status`, the health checker task |
| ZHTClient | `zht-client/src/lib.rs` | a proxy and a configuration | `insert`, `lookup`, `remove`, `append`, `compare_swap`, `state_change_callback` |
| LruCache | `zht-cache/src/lib.rs` | a `HashMap` and a `VecDeque` behind an `RwLock` | `insert`, `fetch`, `remove`, `touch`, `clear` |
| Configuration | `zht-config/src/lib.rs`, `ConfEntry`, `HostEntity`, `HashUtil` of `zht-common` | none after loading | `from_file`, `get`, `resolve_node`, defaults |
| UDP transport | `zht-transport/src/udp.rs`, `chunking.rs`, `worker.rs` | a socket behind a `Mutex`; chunks of unfinished messages | `sendrecv`, `send_only`, the server loop, `chunk_message`, `ChunkReassembler` |
| TCP pool and server | `tcp.rs`, `framing.rs`, `metrics.rs` | connections with their number of uses; a gauge | `get_or_create`, `sendrecv`, `send_only`, `close_*`; accept loop and handlers |
| Factory, enums, shutdown signal | `factory.rs`, `traits.rs`, `shutdown.rs` | a std `Mutex` around a UDP proxy; a flag and a broadcast channel | `create_*`, `shutdown`, `recv` |
| Wire messages, helpers | `zht-proto`, the rest of `zht-common` | none | encoding, clocks, error texts |

The UDP transport, the TCP pool and server, the factory and the shutdown signal
are not compiled at this commit: `lib.rs` of the crate declares none of these
files as a module. They are modelled as they stand, with each other.

**Interaction.** A client routes a key to `hash(key) % n` and calls `sendrecv`
of its TcpProxy. The server runs one task per connection, which reads a message,
calls `HTWorker::process` and writes the reply, one after the other. The tasks
share the worker's NoVoHT and metrics. Replication and migration are clients of
other servers through a TcpProxy of their own. Which nodes there are, and which of them
a key belongs to, both sides read from `zht.conf` and `neighbor.conf`.

**What is hard here.**

- NoVoHT: `flush` rewrites the file in place and holds only the read lock; a
  line is written in several system calls; a failing write is only logged; the
  file format has corner cases. *Correct* means: a restart restores the table.
- HTWorker: a request's metrics are updated in several lock sections; success
  of a swap is judged from the value it returns; a wait polls under a lease.
  *Correct* means: counters agree with answers, a lock made of COMPARE_SWAP
  excludes, every wait ends.
- TcpProxy: a pooled connection carries replies without identifiers, calls are
  dropped by timeouts, broken connections are retried. *Correct* means: a call
  gets its own reply, and a retry executes at most once more.
- Migration: a snapshot is sent across awaits and then the keys are removed by
  name, while members and store change. *Correct* means: a value is never
  removed before its target has it, and a migration ends.
- Replication: one background task per write, unordered; `send_only` never reads
  the answers. *Correct* means: a replica that missed nothing agrees with this
  node, and executes no write twice.
- Server: a final flush while handlers still write, gauges and a status put
  together from loads at different times, two separate stores
  (`zht-server/src/lib.rs` 992-995). *Correct* means: it ends when it is told to,
  and its numbers can be trusted.
- Client: a retry may execute a request again, or long after it was answered;
  calls of one client exclude each other, waits included. *Correct* means: what a
  call returns was so while it lasted, and every call returns.
- LruCache: map and deque are updated apart. *Correct* means: they agree, and the
  least recently used key goes first.
- Configuration: comments, defaults, words that are no number, ports out of range.
  *Correct* means: a server that starts knows every node its files name.
- UDP: datagrams get lost, doubled and reordered; a late answer meets the next
  call; one Mutex is held over an await. *Correct* means: chunks of different
  messages are not mixed, nothing is kept for ever, every call returns.
- TCP pool: the lock is released between making a connection and using it, and the
  gauge is counted apart from the pool. *Correct* means: only a removal can take a
  connection from under a call, and the gauge is the number of connections.
- Shutdown: loops poll a flag between time-outs, others wait for a message.
  *Correct* means: both kinds of listeners end, with silent clients too.

## 2. The modules

| Module | Models | How it corresponds to the code |
|---|---|---|
| `HashTable` | the in-memory half of NoVoHT | operators on a function from keys to values; a value is a sequence of atoms joined by `:`, so `append` is concatenation |
| `NoVoHT` | storage with file, lock, crashes, failing I/O | `table` is the map, `file` the sequence of lines with the number of pieces of each write that arrived; `writer` holds the write lock, `flush[t]` the read lock; `Mutate` + `WriteLine` is one mutation, `FlushBegin`, `Truncate`, `FlushEntry`, `FlushDone` is `flush`, `Load` and a flush are `with_persistence` |
| `DurableMap` | what NoVoHT promises | a table, a stable copy, and a crash that loses at most the update in flight |
| `NoVoHTProofs`, `TcpProxyProofs`, `MigrationProofs`, `ReplicationProofs`, `HTWorkerProofs`, `ServerProofs`, `ClientProofs`, `TransportProofs` | - | theorems about the module of that name; `ServerProofs` has those about `LruCache` as well, a crate the server depends on |
| `HTWorker` | `process` under concurrent handlers | each lock section is a step; `pc` says where a task is; ticks are the clock of STATE_CHANGE_CALLBACK |
| `TcpProxy` | one address: pool, connection, handler | `queue` is the Mutex in the order tokio grants it; `sent` and `replies` are the streams of the pooled connection, `peer` what the server's end has become, `stray` what handlers of dropped connections still hold |
| `Membership` | the member list | one operator per method, `stale` for an old heartbeat; owner by modulus |
| `Migration` | `check_and_migrate` by several tasks | extends `Membership`; the connection to each target as in `TcpProxy`; `written` is a history of the last value of each key |
| `Replication` | `ReplicatedHTWorker`, `ReplicationManager`, `send_only`, the replicas | extends `Membership`; a `stage` and a list `todo` per write, `queue` is the Mutex of the pool, `sent` and `unread` the buffers of each connection; `excused` records why a replica may differ |
| `Server` | `ZHTServer` and `main` from the configuration files to the exit | extends `Membership`, `Config`; `main` is the start, the accept loop and what follows it, `conn[c]` a handler, `metrics` the atomics, each loaded in a step of its own by `status` |
| `Client` | `ZHTClient`, shared by tasks, over the nodes' tables | extends `Handler`, `Config`, whose `ResolveNode` it routes by; `mutex[c]` is the Mutex of a client's proxy, `strays` the requests of broken connections a node has read; `seen[t]` collects the values of the key during a call, which ends with it |
| `Lists` | `filter`, `retain`, `continue` in a loop | the entries of a list at some positions, in their order (`Filtered`), for `Membership` and `Config` |
| `Handler` | `process` of a request that meets no other | functions of the table: the effect and the answer; `Client` and `Udp` use it where a node's concurrency is not the subject |
| `Config` | both configuration files | functions of sequences of lines of words: what is skipped, what is an error, defaults, widths of numbers, `gen_hash`, `ResolveNode` |
| `Chunking` | `chunking.rs` | `ChunkMessage`, `ParsedPayload`, `Inserted`, `Reassembled` |
| `Shutdown` | `shutdown.rs` | `triggered` is the flag, `messages` the channel; `waiter` says where each `recv` is |
| `Udp` | `udp.rs`, `worker.rs` | extends `Chunking`, `Handler`, `Shutdown`; `at[c]` is where a call is, `net` the datagrams under way, `inflight` the server's unfinished messages |
| `TcpPool` | the client half of `tcp.rs`, its gauge | `lock` is the Mutex, `pool` the uses of each connection, `"gap"` the place between the two locks |
| `TcpServer` | the server half of `tcp.rs`, `framing.rs` | extends `Shutdown`; a frame is two parts, `handler[p]` reads them |
| `Transport` | `factory.rs`, `traits.rs` | composes `Udp`, `TcpPool`, `TcpServer`: `made` is what the factory returned, `guard` the enum's std Mutex |
| `LruCache` | the cache | `map` and `order` as in the code, one action per method; `K`, `V` are the type parameters |
| `Recency` | what an LRU cache promises | values and a relation "used more recently than" |
| `MC*` | - | instances for TLC |

Definitions whose comment begins with *Mutant* are plausible bugs. They are used
by no specification; each stands for one replacement under which a run reports
the property named in `PROJECT.json`.

Abstractions. Keys are non-empty sequences of letters, none of them TAB, newline or
white space, so that keys run together in the file are keys; `~` is a letter. Values
have no surrounding white space (the format loses it). What `BufWriter` cuts in a rewrite
is left out (argued in `NoVoHT`). In `TcpProxy` a message is one write; logging
and per-connection statistics are left out. In `Migration` the keys and members
are read in one step with the flag, and a call holds the Mutex only while it
waits for its reply, which is where two calls could meet. Local writes come from
users of the store (`receive_migrated_keys`, or code that shares the `Arc`). A
timeout that cuts a message in the middle of its write is not distinguished from
one before it. In `Client` the lease of a wait may expire at any poll that misses (its timing is in
`HTWorker`), and the connections are those of `TcpProxy` reduced to attempts that
break before or after the node has read the request. In `Server` the file is its
content, since `NoVoHT` has the inside of a flush, and bytes are counted as messages.
In `Config` a token is a word or a number. In `Udp` a request that arrives whole is
processed in one step, as the server's loop does nothing else meanwhile (a
STATE_CHANGE_CALLBACK blocks that loop until its lease expires), and the size of a
message is a constant of the request. In `TcpPool` what goes over a connection
succeeds or fails.

## 3. The runs

| Run | Specification and bounds | Shows |
|---|---|---|
| `durable` | 2 threads, 2 keys, 2 atoms, 3 lines, 2 crashes, no faults | `QuiescentDurable`, `LockDiscipline`, `FlushCovers`; `NoVoHT` implements `DurableMap` |
| `faults` | 1 thread, 3 keys of which the third is the first two run together, 3 lines, 1 crash anywhere, one failure each of write, flush and read | `DamageContained` (all three keys can be damaged by one write), `FlushRestores` |
| `worker` | 2 tasks, 3 requests out of 12, 2 keys; leases of 0, 3 and 4 ticks at an interval of 2 | `MetricsAgree`, `PollsBounded`, `CasExcludes`, `Answered` |
| `reply` | 2 callers of `sendrecv`, `send_only`, `sendrecv_with_timeout` and `health_check`, 2 calls each, 1 retry, 2 failures, symmetric callers | `MutexDiscipline`, `OwnReply`, `NoReplyLeftOver`, `ExecutedPerAttempt`, `OkWasExecuted` |
| `moves` | 2 migrations, 2 targets, 2 keys, 1 membership change, 1 timeout | `NothingLost`, `RemovesOnlyMigrated` |
| `ends` | the same with a local write, a broken connection and 4 timeouts | `MigrationEnds`, `FlagNotStuck` |
| `replicas` | 2 writes out of APPEND, REMOVE, CMPSWP, 2 other nodes, 2 replicas per key, connections that hold 1 message each way, 1 retry, 2 events (broken connections, unreachable nodes, membership changes) | `AppliedAsListed`, `Converges`, `TasksEnd` |
| `server` | 2 connections, 2 requests, 3 members, 1 missed heartbeat, 1 error of `set_nodelay` or `accept`; one good pair of files and six with one fault each | `ActiveWithinErrors`, `StatusOrdered`, `StartsAsConfigured`, `ShutdownEnds`, `StaleDetected` |
| `client` | 3 tasks on 2 clients, 3 calls, 2 broken attempts, 2 calls of `init` or `teardown` | `Witnessed`, `AppendsAccounted`, `CallsReturn` |
| `transport` | the protocols `TCP`, `udp` and `MPI`; UDP: 2 callers, 2 calls, messages of 1 to 4 bytes in chunks of 2, 2 identifiers, 1 doubled datagram; pool: 2 tasks, 2 addresses, 3 calls, 2 uses per connection; server: 2 clients of 1 frame; 1 shutdown, 1 waiter | `OwnDatagram`, `Reassembles`, `NoLeak`, `GaugeAgrees`, `OnlyRemovalPanics`, `UdpReturns`, `ShutdownReaches` |
| `lru` | 4 keys, 2 values, a cache of 3, any number of operations | `Agree`; `LruCache` implements `Recency` (`EvictsLeastRecentlyUsed`) |

The bounds are named constants in the guards. They let every case happen that the
properties are about: two overlapping flushes and a restart into a third; a torn
line followed by a glued one; two tasks between all lock sections of each other;
both attempts of a call failing; a second migration that starts between the check
and the set of the flag; a write of one client while another one's retry and its
stray first attempt are both under way; a status between two loads of which a
request is counted. INSERT is left out of `replicas`: it takes the path of APPEND,
and executing it twice could not be seen. Its `Buffer` is 1: when a node has left, two
writes go to the other twice each, more than its connection takes whose answers nobody
reads, so that the run reaches the exception that `TasksEnd` names (`Clogged`).
In `transport` numbers have base 2 and
four or seven digits, so that a payload too long for the size field of a header would be one
of 16 bytes, and too many chunks for `total` and `seq` would be 128, which no message
reaches; identifiers repeat, so that two messages may have the same; `MaxOps`
is 2 for the 10000 of the code, so that connections are recycled; the callers run on
threads of their own. `MCTransport` also compares chunking and reassembly
with the message for every order of up to six chunks (`AnyOrder`). Of the two other nodes in
`server` one has the host of this one and another port: both decide whether a line
of `neighbor.conf` names this node. A run needs two actors for each race, and one retry
(`MAX_RECONNECT_ATTEMPTS` is 1 in the code, `zht-transport/src/lib.rs` 195).

### Where the code does something else than it says

One run expects a violation; `PROJECT.json` quotes what it contradicts.

- `wiring`: the worker serves a store of its own, not the one the server loads,
  flushes and migrates.

More counterexamples of the same kind can be had from configurations that
`PROJECT.json` does not list; TLC reports each of their properties as violated
(with `-continue` where there are several):

- `MCNoVoHT_promises`: a put whose write failed returns Ok, and a restart does not
  bring it back (`QuiescentDurable`); a flush returns Ok over a file that a second one has just
  emptied, since flush takes the read lock although its documentation
  (`zht-storage/src/lib.rs` 43-44) says write lock (`FlushRestores`); and during a
  rewrite acknowledged entries are only in memory (`AlwaysRecoverable`).
- `MCNoVoHT_format`: a key that begins with `~` is replayed as a removal, an empty
  value is skipped as malformed; either is enough.
- `MCTcpProxy_promises`: a timed-out call, or a `send_only`, leaves its reply for
  the next caller (`ReplyMatches`); "early eof" is not recognised as a broken
  connection (`EofIsRetried`); and one server that does not answer keeps a caller,
  and the Mutex, for ever (`Returns`).
- `MCMigration_promises`: a migration removes a value that was put after its
  snapshot, and a key that its target refused (`RemovesOnlyMigrated`); no key is ever
  this node's own, so all are moved (`KeepsOwnKeys`); of two migrations that
  overlap, the first to end clears the flag of the second (`FlagTruthful`).
- `MCMigration_lost`: a stale reply and a broken connection lose a key.
- `MCClient_promises`: a `compare_swap` that succeeded returns the empty string, where
  `zht-client/src/lib.rs` 201 and 235 say the current value (`SwapReturnsCurrent`).
- `MCReplication_promises`: `send_only` is to be "fire-and-forget"
  (`zht-transport/src/lib.rs` 373-375), but the server answers it and nobody reads the
  answers; once they fill a connection the task that writes to it keeps the Mutex for
  ever, and with it every other task (`TasksAlwaysEnd`).
- `MCServer_promises`: a handler that an error of `set_nodelay` ends
  (`zht-server/src/lib.rs` 1166) is counted as active for ever (`CurrentlyActive`,
  documented at 693-694 and 721-722); with the files the repository ships a node is its own
  neighbour, since it is called `0.0.0.0` and its line says `localhost`
  (`SelfExcluded`, `zht-server/src/main.rs` 126).
- `MCTransport_promises`: a removal between the pool's two locks panics a call
  (`NoPanic`); after a failed recycle, or a `close_all` that was overtaken, the gauge of
  "active connections currently in the pool" (`metrics.rs` 35) is wrong for ever
  (`PoolCounted`); after a timeout in the middle of a frame a handler reads a body
  as a length (`InStep`); after a timeout of a UDP call the next one gets its answer
  (`OwnAnswer`), and, with a third call, the one after that the answer of the second,
  to which nothing had happened (`NoCascade`); a `recv` that subscribes after the message was
  sent, and checked the flag before, waits for ever (`Informed`); a handler whose client
  does not read its answer outlives the shutdown (`ServerStops`, `tcp.rs` 218).

Some more that reading shows: with as many replicas as members the list of replicas
wraps round, and a member that it names twice appends twice; a COMPARE_SWAP that did
not swap is answered with success if the current value happens to be the new one,
which is why `CasExcludes` supposes tokens of one's own (`OwnTokens`); the configuration
accepts `UDP` but the server always listens on TCP; a `PORT` out of range is
silently the default; the server never answers a UDP request that came in chunks;
two callers on one thread of a runtime block each other at the enum's std Mutex
(`ThreadOf <- OneThread` violates `UdpReturns`); and the "consistent point-in-time
snapshot" of `metrics.rs` 171 is a number of separate relaxed loads.

## 4. Fairness

Safety runs assume none. The others:

- `HTWorker`: weak fairness of each task and of the clock: tokio runs a task that
  can run. A waiting task is never blocked for good, so weak fairness is enough.
- `Migration`: weak fairness of "the next step or the timeout" of each task. The
  5 s timeout of every call is in the code (`zht-server/src/lib.rs` 574), so
  nothing is assumed about other nodes.
- `Server`: weak fairness of the accept loop's end, of the steps of `main` after it
  and of the ticker. `select!` picks a ready branch at random, so a cancelled token
  is taken in the end. Nothing is assumed of clients, handlers or connections.
- `Replication`: weak fairness of each task and of the handler of an open
  connection, as long as its answers fit into the buffer: when they no longer do
  nothing is assumed to make room, since nothing reads them.
- `Transport`: weak fairness of the steps of each call and of the timeout it may
  take instead, of the loops of both servers, which look at the flag after every
  timeout, of the reads of the handlers, which have a timeout, and of what wakes a
  waiter. The std Mutex goes to one of those that wait for it, the socket's in order.
  Nothing is assumed of the network or of clients, not even that they read what they are
  sent: the answer of a handler has no timeout (`tcp.rs` 218), so that a handler may stay
  with it for ever, the one exception that `ShutdownReaches` makes.
- `Client`: strong fairness of taking the Mutex, which tokio grants in order; weak
  fairness of what a call does next and of the node that has its request, a wait's
  lease included. Connections may break but need not.

## 5. The proofs

For all values of the constants, the bounds included.

**NoVoHT** (`NoVoHTProofs`)

- `TypeCorrect`, `LockCorrect`: `TypeOK` and `LockDiscipline` of
  `NoVoHT`, faults and crashes included. The inductive invariant `TypeInv` adds to
  them that a pending line belongs to a writer and that no line of the file is
  empty, which the replay's indexing needs.
- `DurabilityHolds`, `OverlappingFlushesCover`, `ImplementsDurableMap`: `QuiescentDurable`, `FlushCovers` and the refinement of
  `DurableMap`, under the assumption `Reliable`: no file operation fails, no key
  begins with `~`, no value is empty, no crash falls between truncation and
  rewrite. `MCNoVoHT_promises` shows that the first and the last of these are needed,
  and `MCNoVoHT_format` the two between.

The argument: `QuiescentDurable` is not inductive, because it says nothing while a
line is pending or a rewrite runs. `DurableInv` describes each phase: outside a
rewrite the file restores the table, but for the key whose line is pending, where
it restores the old value (`WriterInv`); while rewrites overlap, the file holds
only whole entries of the table, and one flush in progress still has all the
missing ones to do (`RewriteInv`); when the process is down every line stems from
one write, whole or torn, and the table is empty (`DownInv`). Two lemmas carry it:
a line appended decides for its key and no other (`RecoveredAppend`), and a file of
entries of the table that covers it restores it (`EntriesRestore`). The refinement
maps `stable` to what the file restores, or to the table during a rewrite.
TLC also checked `TypeInv` and `DurableInv` as invariants on the `durable` instance.

- `DamageContainedHolds`, `FlushRestoresHolds`: `DamageContained` and `FlushRestores`
  with failing writes, under `Plain` alone: no key begins with `~` and no value is
  empty. `DamageInv` says that while no flush has failed a set of keys holds all the
  damage of the file without its torn line (`Contained`): three keys at most for each
  write that failed, two of them reserved as long as the file ends in a torn line, for
  the key of the line that will be glued to it and the key the two make together. `FlushRestoresHolds` supposes one thread as well: with two the property
  is false, as `MCNoVoHT_promises` shows, since one flush empties the file of another.

**TcpProxy** (`TcpProxyProofs`, no assumption but the types of the constants)

- `MutexDisciplineHolds`, `OwnReplyHolds`, `NoReplyLeftOverHolds` and
  `OkWasExecutedHolds`. The inductive invariant `ProxyInv` says that the queue of the
  Mutex holds exactly the callers under way, once each (`QueueInv`), that only its
  head is past connecting (`HolderInv`), and that a connection no call has spoilt
  carries either nothing, or the request of the one call that waits, or its reply
  (`CleanInv`): that is what makes the next reply one's own, and `OwnReply` says
  nothing of it. `AnsweredInv` adds that only executed requests are answered.
- `TypeCorrect`: `TypeOK`, from `ProxyInv`; in it, no call goes past its last attempt.
- `ExecutedPerAttemptHolds`. What was executed and what still can be are counted
  together: for each call its executions plus its requests in the connection and
  with handlers of dropped ones are no more than the attempts it has begun
  (`BudgetInv`), and a request is in one place only (`DistinctInv`).

**Client** (`ClientProofs`, no assumption but the types of the constants)

- `WitnessedHolds`, an action property: what a call returns was so while it lasted (the
  empty string that a successful swap returns is stated as that, see `MCClient_promises`).
  `WitnessInv`: a call under way has seen the present value of its key, whoever
  writes it (a retry, a stray request, another client); and an answer under way is
  one that the values seen explain.
- `AppendsAccountedHolds`. What is in a value and what may still get into it are
  counted together (`KeyInv`): the length of the value, the stray and the sent requests
  and the first attempts that may be retried make no more than two per APPEND begun;
  the APPENDs that returned Ok and those whose answer is on its way are no more than
  the length, and as many while no connection broke. An APPEND adds one atom there,
  and the length of a value is the number of places in it, over all nodes.
- `OneRequestPerClient`: of the callers that share a client one at a time has a request
  at a node, and it holds the Mutex, whatever retries and failures end calls
  (`MutexInv`). It supposes that no caller is named "nobody", the mark of a free Mutex.

**Migration** (`MigrationProofs`)

- `FlagNotStuckHolds`, in general: the flag is set only while some task is at work.
- `NothingLostHolds`, `RemovesOnlyMigratedHolds`, under the assumption `Undisturbed`,
  that of the run `moves`: nobody else writes to the store, connections do not break,
  targets refuse nothing. `MCMigration_promises` and `MCMigration_lost` show what
  happens otherwise. The invariant `MoveInv`: every value anywhere is the one its key
  had to begin with (`ValueInv`); of the group that a task is moving, every key is
  still to be sent, or held by the target or on its way there, or no longer here
  (`GroupInv`). Tasks may overlap and time out, and members change.

**Replication** (`ReplicationProofs`, no assumption but the types of the constants)

- `TypeCorrect`: the member list included, whose `filter` and `retain` are written
  with positions (`Filtered`) because the provers cannot reason about `SelectSeq`.
- `AppliedAsListedHolds`. A conservation law (`CopiesInv`): what a replica has executed
  of a write, what its connection carries of it and what the write's task has still to
  send make no more than the places it has in the list; a retry takes a copy out of
  its connection before it puts one into the next.
- `ConvergesHolds`. `ReplicationInv` says, of a replica and key that nothing excuses, that
  it agrees with this node when no task or connection owes it a write of the key, and
  that any write it is still owed brings it to agree when it is executed (`AgreesInv`).
  What a membership change excuses is stated by the lists of replicas before and after
  it (`ExcusesInv`).

**HTWorker** (`HTWorkerProofs`)

- `PollsBoundedHolds`, in general, for every interval and lease: the intervals slept
  before the last poll and what is left of the lease make no more than the lease, as
  long as anything of it is left (`PollInv`).
- `CasExcludesHolds`, for any number of clients that swap a lock between `Free` and
  tokens of their own (`OwnTokens`, which TLC evaluates for the run `worker`): while a
  client holds the lock the table holds its token (`LockInv`), which no other
  client's swap matches, nor would be answered as if it had.
- `MetricsAgreeHolds`, in general: `MetricsInv` adds to the property the phase it does
  not mention: a task between its two lock sections has a known operation that failed
  with "-02", "-04" or "-92", so that the second section counts as an error, under the
  operation that was counted, exactly what is then answered.

**Server and LruCache** (`ServerProofs`, no assumption but the types of the constants)

- `ActiveWithinErrorsHolds`, `StatusOrderedHolds`: the gauge is the cardinality of the
  open connections plus that of those whose `set_nodelay` failed, of which there are no
  more than errors (`FailedInv`); and the messages received are the operations done plus those in
  process, so that operations loaded first are never more than messages loaded later.
- `StartsAsConfiguredHolds`. Filtering by positions enumerates them: each once, in order,
  none left out (`NthEnumerates`). Twice applied, to the lines of `neighbor.conf` and to
  the nodes they name without this one, it says of any files that the members of a
  server that runs are at increasing lines, have their host and port, and that no
  line but those of this node is left out; `FiledInv` says that nothing the health
  checker or a heartbeat does changes which nodes they are.
- `TypeCorrect`: `TypeOK`; no gauge or counter falls below zero. It needs that a
  handler about to process has a request (`TypedInv`).
- `AgreeHolds`, `CacheTypeCorrect`, `EvictsLeastRecentlyUsedHolds` for the cache of any
  keys and size. `CacheInv`: the deque holds the keys of the map, once each, no more than
  `MaxSize`. Each operation on the deque is said by what it does to the relation "stands
  in front of" (`Removing`, `Popping`, `Pushing`): taking a key out takes its pairs out,
  putting it in front adds it before all others. So every step is one of `Recency`, and
  the key at the back, which an insertion evicts, is the oldest (`Inserting`).

**Transport** (`TransportProofs`)

- `FactoryPoolHolds`, and `OnlyRemovalPanicsHolds` for the pool alone: who uses a
  connection holds the Mutex, and who is in the gap finds its connection in the pool
  unless a removal has come in between (`PoolInv`).
- `GaugeAgreesHolds`. Between the steps of a recycle, a removal or a `close_all` the gauge
  is wrong by a known amount: until a recycle fails or a `close_all` is overtaken, it is the
  open connections plus what each removal and `close_all` has still to count out, less the
  connection that is being replaced, modulo the width of the counter (`GaugeInv`).
- `OwnDatagramHolds`. `DatagramInv`: only the holder of the Mutex is past taking it; the
  calls under way have different numbers; and a frame or answer whose call is not astray
  is the only one of its number, and its caller waits for it. Astray are the calls that
  timed out, sent only or were doubled (`loose`), and those that took the answer of another
  (`displaced`), of which there is none before the first loose one. So what a waiting
  caller receives is its own or astray.
- `NoLeakHolds`. `LeakInv` follows every chunk of a message whose id was given once
  and that was neither cut off nor doubled: each is in one place, still to be sent, in
  the network or in the reassembler, or none is anywhere, the message having been put
  together (`Once`, `AllOrNone`). An entry that is not complete lacks a chunk, and
  that one is still to come.
- `ReassemblesHolds`. The same invariant says what each chunk holds and to which place
  it goes, so that in any order, and with any copies, the entry of an id given once is
  filled by the chunks of its message; and a complete one has them all, which is why
  only a repeated id makes the receiver panic.
- `ChunksJoinBack`: the chunks that `chunk_message` makes of a message, one after the
  other, are the message, for every length and chunk size that the header has digits for: four for
  the size of a piece, seven for the number of them. `FlattenSeq` is a recursive function: two that
  obey its equation agree, since there is no least place at which they would not
  (`FlattenedBy`), and the prefixes of the message obey it. `ReassemblesHolds` rests on it.

The theorems about datagrams suppose of the requests that none looks like a chunk (has a
payload), which `UdpAssumption` states and the two types of the code ensure, and that a
chunk is smaller than the size field can say (512 bytes against four digits) and a message
has fewer chunks than seven digits say (5 GB of them). TLC checked
`DatagramInv`, `LeakInv`, `AssembledInv` and `GaugeInv` on the instance of `transport`.

Only model-checked: what needs fairness, since TLAPS has no rules for it here
(`Answered`, `MigrationEnds`, `TasksEnd`, `ShutdownEnds`, `StaleDetected`, `CallsReturn`,
`UdpReturns`, `ShutdownReaches`). Every invariant and every other property of the passing runs
is stated by a theorem. `TypeOK` is proved for `NoVoHT`, `TcpProxy`, `Replication`, `Server` and
`LruCache`. That of `HTWorker` and of `Client` bounds the length of values, which only the requests of
an instance do; their invariants have the types the proofs need. `Config`'s hash and some
helpers are folds, whose value for every input is out of reach of these provers.

## 6. Not modelled, and the plan

Not modelled:

- `calculate_migration_plan`, which changes nothing and which only tests call;
  `batch_sendrecv`, a loop of `sendrecv`; `ConnectionStats`, which nothing reads.
- The counters of `TransportMetrics` other than the gauge of connections.
- Clocks, random identifiers, texts of errors, logging, the parsing of arguments,
  and generated protobuf code: no property depends on them.

Left for later: a proof of the types of `Migration` and of `TcpPool` as a whole; replicas that
restart with an empty store; several addresses behind one Mutex in `TcpProxy`.
