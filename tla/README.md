# TLA+ models of annotated Redis (3.0 line)

TLA+ specifications of the parts of this Redis source tree in which interleaving, failure
and recovery make correctness hard to see and hard to test, with the TLC runs that check
them on small instances and TLAPS proofs of the properties that hold for every instance.
Everything is translated from the C code (there is no separate design document; the
"documentation" that findings quote are the comments of the source). `PROJECT.json` is the
index: components, runs, mutants, the map from definitions to source lines, findings,
hazards and theorems.

    tlc -workers 2 -config MCDict.cfg MCDict        # any run of PROJECT.json
    tlapm DictProofs.tla                            # any *Proofs module

The models fall into three groups: how data survives (`ReplBacklog`, `Replication`, `Aof`,
`Dict`), how several processes agree (`Sentinel`, `Cluster`, `Reshard`), and what one server
does with commands and values (`Keyspace`, `Server`, and the value modules under `Values`).

## 1. The system

A Redis server is one process with one thread that executes commands. Around that thread
are: child processes that hold a snapshot of memory (RDB saving, AOF rewriting), two
background threads for slow system calls (`bio.c`), peers that speak over TCP (slaves,
masters, Sentinels, cluster nodes), and a disk. Atomicity is that of one event handler;
what is concurrent is the order of handlers, the children, the threads, the peers and the
disk.

| Component (files) | State | Operations | Interacts with | What makes it hard | What makes it correct |
|---|---|---|---|---|---|
| Event loop (`ae.c`) | file and time events | poll, dispatch, `beforeSleep` | everything | readable and writable handlers of one descriptor run back to back | nothing is lost between poll and dispatch |
| Clients (`networking.c`) | query and output buffers, flags | accept, read, reply, free | command table, replication | a client freed by a handler that still uses it; output limits | replies in order, no use after free |
| Command dispatch (`redis.c`) | command table, stats, `also_propagate` | `processCommand`, `call`, `serverCron` | all | one command runs others (EXEC, Lua) | each write is propagated once, in order |
| Keyspace, expiry (`db.c`, `redis.c`) | dict and expires dict per database | lookup, set, delete, expire | replication (DEL on expiry) | time passes between check and use | an expired key is never seen; slaves follow the master |
| Hash table (`dict.c`) | two tables, `rehashidx`, iterators | add, delete, find, rehash, resize, iterate, scan | keyspace, all collection types | all operations run in the middle of a rehashing; SCAN keeps no state | lookups exact; iteration complete |
| Replication (`replication.c`) | slaves' states and buffers, backlog, offsets, cached master | SYNC/PSYNC, feed, cron, SLAVEOF | RDB children, clients, network | snapshot + buffer + stream must join; links die at any time | slave = prefix of the master |
| RDB (`rdb.c`, `rio.c`) | child pid and type, dump file | save, load, done handlers | replication, cron | the done handler runs long after the fork | the file is one snapshot |
| AOF (`aof.c`, `bio.c`) | buffer, file, rewrite blocks, pipes, child | feed, flush, rewrite, switch, load | cron, bio thread, crash | three policies, postponed flush, diff streaming, crash | replay = dataset; durability by policy |
| Transactions (`multi.c`) | queued commands, watched keys | MULTI, EXEC, WATCH, DISCARD | keyspace | touches by other clients, expiry, flush | EXEC runs only if nothing watched changed |
| Blocking (`blocked.c`, `t_list.c`) | blocked clients per key, ready keys | BLPOP, BRPOPLPUSH, serve, timeout | keyspace, clients | serving order, pushes inside EXEC, disconnects | no element lost or given twice |
| Sentinel (`sentinel.c`) | instances, epochs, votes, failover state | ping, hello, vote, failover | masters, slaves, Sentinels | partial views, restarts, epochs | one leader per epoch |
| Cluster (`cluster.c`) | nodes, slots, epochs, links | gossip, vote, failover, migration | nodes | same, plus slot ownership | one owner of a slot per epoch |
| Scripting, pub/sub | script cache; subscriptions | EVAL; PUBLISH | dispatch | propagation; two inverse indexes | same effect on slaves; indexes agree |
| Types and encodings | objects, intset, ziplist, skip list | type commands | dict | encoding conversions, byte-level updates | same abstract value |
| Tools, config, monitoring | | | | | out of scope |

## 2. The modules

| Module | Models | Runs |
|---|---|---|
| `ReplBacklog` | the circular backlog of `replication.c` | `backlog` |
| `Replication` | one master, its RDB children, its slaves and the links between them | `replication`, `replication_live` |
| `Aof` | the append only file, the rewrite child, the fsync thread, crashes | `aof` |
| `Dict` | the hash table with rehashing, safe iterators and SCAN | `dict` |
| `Sentinel` | the Sentinels of one master: votes, failover, configuration, restarts | `sentinel_election`, `sentinel_failover` |
| `Cluster` | the nodes of a cluster: epochs, slots, failure detection, elections, nodes.conf | `cluster` |
| `Reshard` (extends `Cluster`) | a slot that moves between masters under the eyes of a client | `reshard` |
| `Keyspace` | the keys of a server, expiry, eviction, whom a change is told | |
| `Server` (extends `Keyspace`) | dispatch, transactions, blocking, scripts, pub/sub, propagation to a slave | `server`, `server_save` |
| `Intset`, `Ziplist`, `Skiplist` | the encodings, as operators | |
| `ListType`, `HashType`, `SetType`, `ZsetType`, `StringType`, `HyperLogLog` | the commands of a type on its encodings | |
| `Persist` | saving and loading a value: RDB/DUMP and the AOF rewrite | |
| `ValueSpec` | the abstract specification of all commands on values | |
| `Values` | the state machine over the type modules; implements `ValueSpec` | `values` |
| `ReplBacklogProofs`, `DictProofs`, `AofProofs`, `ClusterProofs`, `SentinelProofs`, `ServerProofs` | proofs about `ReplBacklog`, `Dict`, `Aof`, `Cluster`, `Sentinel` and `Server` | |
| `ReplicationProofs`, `ReplicationExactProofs` (extends it) | proofs about `Replication`: types and protocol; what the slaves get | |
| `MC*` | instances for TLC | |

Definitions have the names of the C functions where one function is one definition; where
a handler has several outcomes it is one action with several disjuncts. Each module's
definitions marked "Wrong:" are the mutants of `PROJECT.json`: plausible mistakes that the
named property must catch. They are used by no specification.

### ReplBacklog

The variables are the fields `repl_backlog*` and `master_repl_offset` of
`struct redisServer`, and the locals of `feedReplicationBacklog` while it runs: its loop is
one `FeedCopy` per `memcpy`, so that the loop invariant is an invariant of the
specification. `stream` is history: the byte fed at each offset. `CanServe`, `ReadStart`,
`ReadLen` and `ReadByte` are the offset test of `masterTryPartialResynchronization` and the
arithmetic of `addReplyReplicationBacklog`.

Run `backlog`: sizes 2 to 4, feeds of up to 5 bytes (longer than any buffer, so the loop
wraps twice), 8 offsets, two byte values. That covers no wrap, one, and two; skip 0, in the
middle, and at the end; a resize between any two feeds. `HistoryInPlace` says where each
byte is, `ServedBytesExact` that a slave is sent what it asked for. 64-bit overflow of
offsets is out of reach in practice and not modelled.

### Replication

One master, a set of slaves, a set of connections. The master's part of a connection is
`cl[c]` (state, output buffer, write handler, `repl_put_online_on_ack`); the slave's part
is `rs`, `sc`, `master`, `cached`, `init` (`server.repl_state` and so on). A dataset is the
sequence of writes applied, each with its database, so that a write lost, repeated,
reordered or executed in another database shows. An element of the stream has length 1;
byte arithmetic is `ReplBacklog`'s subject. `hist` remembers the master's dataset at each
offset of each run id, with the database selected in the stream there (-1: the next write
selects one), `pos` whether a slave's RDB had the offset announced to it.

- *Full sync*: `syncCommand` -> `FullSync`/`Attach` (join a running disk child through another
  slave's buffer, fork one, or wait), `sendBulkToSlave`, `SocketChildWrites`, `ChildDone`
  (both done handlers and `updateSlavesWaitingBgsave`), `CronBgsave` (the diskless start in
  `replicationCron`).
- *Stream*: `Write`, `FeedPing` through `replicationFeedSlaves`; `sendReplyToClient`.
- *Slave*: `connectWithMaster`, `SendPsync`, `ReadFullResync`, `ReadContinue`,
  `PsyncReadFails`, `readSyncBulkPayload`, `EofMarkMissed`, `AbortSync`, `ReadStream`,
  `MasterLost` (which caches the master), `replicationSendAck`, SLAVEOF.
- *Failures*: `NetBreak`, timeouts on both sides, `MasterDropsSlave` (late ACKs or output
  buffer limit), failed children, failed forks, `MasterRestarts` (new run id, last RDB).

Runs. `replication`: two slaves, two connections, disk children, two feeds, one failure;
the second slave attaches in every phase of the first one's sync. Slaves and connections
are symmetric and the run checks safety only. `replication_live`: one slave, disk and socket
children, backlog of one element, one failure, with fairness. One failure is the bound
because the properties are about recovery from an arbitrary point of the protocol; the
states between failures are all reached with one.

- `SyncExact`: RDB, buffer and stream join exactly, for every slave that is connected.
- `OffsetNamesData`: a slave's offset, current or cached, names its dataset and its selected
  database in the master's history, for slaves whose RDB was taken at the announced offset.
- `AssertionsHold`: two `redisAssert`s of the code that depend on other handlers.
- `EventuallyInSync`: after the last failure every slave with a master catches up.

Fairness (`Fairness`): weak fairness of each side's event loop and cron, of children
ending and of the timeout for slaves that cannot ACK. The event loop serves every ready
descriptor in each iteration and `replicationCron` runs every second, so an enabled
handler runs. Nothing is assumed of writes, failures or commands, and `fork` is only assumed
to succeed.

### Aof

A file is a sequence of commands; `dur` is how much of it is known to be on disk. A crash
(`Restart(n)`) keeps any prefix between `dur` and the whole, cut at a command: that is both
a crash of the process and of the machine. Loading runs `RunCmd` over the file as
`loadAppendOnlyFile` does with its fake client, which executes what follows a MULTI at once.
`flushAppendOnlyFile` is in `BeforeSleep` (`FlushWrites`, `FlushFails`, `FlushShort`, or
postponed), the bio thread is `BioFsync`, and the child is a sequence of phases with the
data pipe (`pipe`) and the parent's blocks (`rwbuf`) between. `SwitchFile` and `Cleanup` are
`backgroundRewriteDoneHandler`. `CONFIG SET appendonly` is `stopAppendOnly` and
`startAppendOnly`, including the descriptor it leaves dangling.

Run `aof`: two databases (so a forgotten SELECT shows), all three policies, two requests,
two rewrites/failures/commands, one crash, a pipe of one command.

- `ReplayExact`: file + buffer rebuild the dataset at every moment the AOF is on.
- `CrashSafe`: whatever a crash keeps is the effect of a prefix of the writes, and with
  `always` it has everything executed before the last `beforeSleep`.
- `BufferDrains`, `StartCompletes`: the buffer is written although a background fsync may
  never end; the AOF gets on although its first rewrite fails.

Fairness: `beforeSleep` runs in each iteration, time passes, the child runs and its end is
noticed by `serverCron`. The bio thread gets none: an fsync on a busy disk may hang, which
is the case the two-second limit in the code is for.

### Dict

A bucket is the set of keys of its chain, a table is size, counter and buckets. `dictRehash`
and `dictExpand` return the set of possible results, so an operation is a rehashing step, an
expansion and its own change, composed as in the C code. `keys`, `owed`, `seen` and `cut` are
history. Iterators are safe ones; their user may add, and delete any key but those that come
later in the chain it stands in (deleting `nextEntry` is documented as forbidden by use:
no caller does). `dictScan` has its reversed cursor on `CursorBits` bits (64 in the code, 3 in
the run); table sizes are powers of two, as `_dictNextPower` makes them.

Run `dict`: four keys with hashes 0, 2, 6, 5, tables of 2, 4, 8, initial size 2, ratio 1,
one iterator and one scan. The hashes collide in the small tables and part in the large ones;
the ratio makes growth possible with and without a child. Four keys suffice for a table of 8,
from which it can shrink to 2.

- `FindExact`: lookups are exact throughout.
- `RehashSafe`: the unbounded bucket search stops inside the table, and a table is only
  dropped empty.
- `IterExact`: every element that stays is returned once.
- `ScanCompleteUncut`: a scan returns all elements that stay, except for the scans that hit
  the case of section 3 below. The exception is stated exactly (`InsideExpansion`).

### Sentinel

`sn[s]` is one Sentinel: `sentinel.current_epoch`, the fields of the master's
`sentinelRedisInstance` (epochs, leader, failover state, promoted slave, the slaves and
their RECONF flags as the sets `sent`, `inprog`, `done`), what it last heard of each other
Sentinel (`peer`), and its file (`disk`). `net` holds the `is-master-down-by-addr` calls
and replies, at most one per pair of Sentinels as in a single connection; `commands` the
SLAVEOFs on their way to a Redis server, `redis` whom each server replicates. `votes` and
`elected` are history. Everything that depends on time or on the state of a link
(objectively down, timed out, disconnected, sane) is a free choice of the step that asks,
so every schedule of real clocks is included.

- *Timer*: `sentinelHandleRedisInstance` is one pass of `sentinelTimer` over the master: start
  a failover, one step of the state machine, the calls to the other Sentinels, the switch
  to the promoted slave. The order of a hash table is a choice: the winner of a tie in
  `sentinelGetLeader`, the slaves the loop of `sentinelFailoverReconfNextSlave` comes to.
- *Other Sentinels*: `is_master_down_by_addr`, `sentinelReceiveIsMasterDownReply`,
  `LinkBreaks`, `sentinelProcessHelloMessage`.
- *Redis servers*: `sentinelRefreshSlaveInfo`, `sentinelRefreshMasterInfo`, `RedisSlaveOf`.
- *Outside*: SENTINEL FAILOVER, `FailoverOfOther` (another monitored master: it shares only
  `current_epoch`), `Restart` from the file.

Run `sentinel_election`: three Sentinels, the smallest number in which a majority is not
everybody, one epoch, one restart or foreign failover, one call under way. There are no
slaves, as an election does not look at them. Run `sentinel_failover`: two Sentinels,
`parallel-syncs` 2 and two events, so that both Sentinels fail over or one of them restarts
in the middle; failovers are forced, which skips the election (the vote is still asked for)
and leaves the state machine as it is. The master has three or four slaves (`MinSlaves`), one
of which is promoted: with two or three left for two places, a slave can time out in
`sentinelFailoverReconfNextSlave` while another is told, which cannot happen with one place.
`MaxForced` bounds the slaves of the Sentinels that fail over, taken together: both fail over
when there are three, one when there are four. A Sentinel sends SLAVEOFs, as many as the step
sends, only when fewer than `MaxCommands` are under way. Deadlock is not checked: the bounds
on epochs and events end every behaviour.

- `OneVotePerEpoch`: also when a Sentinel restarts between two requests, because the epoch
  of the vote is in the file before the answer leaves.
- `ElectionSafety`: two Sentinels that count the votes of the epoch they started in are not
  both elected in it. This is the guarantee without the case of section 3.
- `AnnouncedIsSaved`: a restart never takes an announced master back.
- `PromotedSafe`: the pointer that INFO processing and the state machine follow is valid.
- `SyncsBounded`: while the slaves are reconfigured, at most `parallel-syncs` of them are
  marked as told to resynchronize or as doing it, the promoted one never, and no mark is left
  to be counted in the next failover. It bounds the marks, not the SLAVEOFs: at the failover
  timeout all slaves that are left are told at once (`sentinel.c:3646-3667`, `LeftAtTimeout`),
  in a step that also ends the state and takes the marks away, and a slave whose SLAVEOF timed
  out loses its mark while it may still resynchronize. Both happen in the run.

No liveness is stated: whether an election ends depends on random delays.

### Cluster

`cn[n]` is what node n knows: for every node x its `clusterNode` (`known[x]`: `slaveof`,
`configEpoch`, flags), the slot table, `reports` (who reported whom as failing), the
election (`auth`), the manual failover (`mf`), `todo_before_sleep` and its file (`disk`).
PING and PONG carry the sender's whole state in their header and are read as they are sent,
or not at all; the other packets (FAIL, AUTH_REQUEST, AUTH_ACK, MFSTART, UPDATE) are in `net`
for any time, in any order, or are lost. A step is one iteration of the event loop: one
event and then `clusterBeforeSleep`, which may run the failover, save the file and update the
state. Time-outs, replication offsets and the ranks and delays of elections are free choices
of the step that asks, so every clock is included.

- *Packets*: `ReadPingStep` (`ReadHeader`, `UpdateRole`, `clusterUpdateSlotsConfigWith`, the
  stale claims answered by UPDATE, `clusterHandleConfigEpochCollision`, the gossip section),
  `ReadPacketStep` for the others.
- *Timers*: `CronStep` (PFAIL, `clusterHandleSlaveFailover`, `clusterHandleManualFailover`).
- *Outside*: CLUSTER FAILOVER with and without FORCE, CLUSTER REPLICATE, a restart from
  nodes.conf, a node that is down.

Run `cluster` has three small clusters, each with the nodes a question needs: two slaves
that contest a master which restarts (`Contest`: two epochs, so a lost election is
repeated), a manual failover during which the other slave is moved (`Manual`), and a crashed
master whose slave needs the votes of the two others (`Failure`). Two packets under way are
enough for an old and a new one to be reordered. `forgot` is history: a restart lost a vote,
which the code does not save. Deadlock is not checked: the bounds end every behaviour.

- `ElectionSafety`: one winner per epoch unless a restart forgot a vote.
- `SlotEpochUnique`: of two nodes that both think they serve a slot, everyone can tell which
  claim is newer. This is what makes a node back from a partition harmless.
- `SlaveHasNoSlots`: what `clusterSetMaster` asserts, for every view of every node.
- `SettledAgree`: when no PONG would teach anybody anything, all nodes agree on the owner of
  every slot. Lost UPDATEs, lost broadcasts and collisions of epochs are healed by PONGs, or
  the nodes are not settled. It holds also after a forgotten vote.

### Reshard

Adds to `Cluster` the keys of one slot at each node (`data`), a client that follows MOVED
and ASK (`client`), and redis-trib's `move_slot` (`trib`, `toClose`) with the repair of
`fix_open_slot` (`TribFix`). MIGRATE is one step at the source and the target; it can fail
before the target has the key, after it, or be refused, as the socket errors of
`migrateCommand` do. A node restarts with `verifyClusterConfigWithData`. A master that learns
that it lost the slot deletes its keys (`DirtySlot`).

Run `reshard`: two masters, the slot with two keys and one other slot each, two writes, two
failing MIGRATEs, two restarts; the target's epoch below and above the source's at first,
because SETSLOT NODE starts a new epoch only if the node's is not the largest.

- `NothingLost`: some node has the last value of every key, at every moment.
- `ReadsLatest`: a client gets it. After a failed MIGRATE a key may be at both nodes; the
  property then says it of commands on a single key that exists, which is what the
  ASK/TRYAGAIN rules of `getNodeByQuery` can promise.

### Keyspace and Server

`Keyspace` has the C functions as operators from a server record to a server record; `Server`
has the clients, the dispatch and the specification. `sv` is the server. `rep` is a slave: the
same operators, run on what was propagated, by its only client (the link). Commands rewrite
`argv` and hand commands to `propagate` as the code does, so what the slave executes is what
the stream would have. A step is a request of a client (`Request`: `processCommand` with its
refusals, then `call`, then `handleClientsBlockedOnLists`), a timer (`ExpireCycle`,
`BlockedTimeout`), time (`Tick`: an expire comes), the end of a connection or a slave that
resynchronizes (`Resync`, which empties the script cache; a key whose time has come is not in
the RDB, `rdbSaveKeyValuePair`). Memory is a choice of the request: nothing, a key that is
evicted, or an out of memory error. A command of a script that fails (`Fails`) ends the script,
and what it wrote before stays and is propagated.

Run `server` has five workloads, each with the commands that interact: transactions with
WATCH against expiry, eviction, renames, flushes and refused commands; blocking pops (one of
them onto a key of the wrong type) against pushes inside and outside of EXEC; keys that are
overwritten, expire or are evicted while clients are blocked on them; EVAL and EVALSHA with
a script cache of one, of scripts that read, write and fail after a write, and a slave that
comes at any time; subscriptions inside and outside of transactions. Three clients are
the least for two to wait and one to push; values are numbered so that each element is
distinguishable. The second workload is one *of lists* (`lists`, `OnlyLists`): nothing in it
deletes, refuses or gives up an element, so none may be missing. `MaxDirty` only caps the counter: `call` compares it before and after.
Deadlock is not checked because the number of writes is bounded.

- `Indexes`: the inverse indexes that unwatching, unblocking and unsubscribing assert.
- `ReplicaExact`: the slave has the master's keys and is not inside of a transaction. Of a key
  whose time has come but that the master still holds, a slave that synchronized since then
  has nothing; the DEL that the master sends for it makes them equal again.
- `BlockedServed`: nobody waits for a list that has an element when a command is over.
- `WatchedUnchanged`: a changed watched key aborts the transaction (expiry and eviction excepted,
  which the code does not tell the watchers of).
- `DeliveredOnce`: no element of a list is lost or given to two.
- `ServedInOrder` (action property): who waits longer for the same keys is served first.

### Values and ValueSpec

`ValueSpec` says what the commands promise: a list is a sequence, a hash and a sorted set are
functions, a set is a set, a string a sequence of bytes, a HyperLogLog an array of
registers; each command is the value after it and its reply. `Values` runs the same commands
as the code does: on an intset of the current width, a ziplist whose entries have prevlen
fields of one or five bytes, a linked list or table, a skip list with levels, spans and
backward pointers beside its dict, a string encoded as an integer, embedded or raw, a sparse
or dense HyperLogLog. It converts between them where the code does, and `Reload` replaces a
value by what `rdbSaveObject`/`rdbLoadObject` or `rewriteAppendOnlyFile`/`loadAppendOnlyFile`
make of it. The refinement is `Spec0 == INSTANCE ValueSpec WITH val <- [k |-> Ideal(db[k])],
...`, where `Ideal` reads the abstract value off the encoding; `Refines` is its specification
as a property.

Run `values` has nine workloads, one for each type and for the commands that combine several
keys. Sizes are scaled down (`LLONG_MAX` 15, widths of 2, 4, 8 bits, limits of 2 to 4
elements, six registers) such that each conversion, each upgrade and each boundary is
reached with values of at most five elements; the lengths 250, 300 and 600 of strings are
the real ones around the 254 of the prevlen field. Two levels of a skip list make every
shape of a search. The levels a node draws are chosen by TLC. The VIEW leaves out the last
reply, on which nothing depends; `Refines` is checked on steps, and so sees every reply.

- `Refines`: each command has the effect and the reply its value promises.
- `ReadsAgree`: so has each read command, in every state, with ranges that are empty, open,
  reversed or out of bounds.
- `EncodingOK`: the redundant fields of each encoding agree.

## 3. Findings

One run is expected to end in a violation. `server_save`: SAVE inside a transaction sets
`server.dirty` back to 0 (`rdb.c:752`), and `call` then does not see that EXEC has to be
propagated (`multi.c:170-172`): the slave and the AOF stay inside MULTI.

The following are disagreements between the code and a comment in it that TLC shows too, with
the instance given; the passing runs exclude them, each by the bound or the exception named.

1. *Offsets of a full sync* (`replication.c:426`): `+FULLRESYNC` announces the offset of the
   moment of the PSYNC, but the RDB may be older (a shared child) or newer (a child started
   later). After a lost link the slave resumes at the wrong offset. `ResumeExact` with
   `MCReplication`, one slave, `MaxEvents = 2`. The comment `replication.c:1641-1643` says the
   stream "will start from were this master left".
2. *A failed fork* (`replication.c:754`): after a failed fork in `updateSlavesWaitingBgsave`
   the slaves are left in `WAIT_BGSAVE_END` (the loop at 801-811 looks for the state they no
   longer have); the next unrelated BGSAVE serves them a file that already contains what is in
   their buffers. `SyncExact` with one slave, `MaxEvents = 2`, `MaxForkFails = 1`.
   `rdbSaveToSlavesSockets` (`rdb.c:1422`) changes the states before the fork as well.
3. *Replies before the flush* (`ae.c:751`): with `appendfsync always` the writable handler of
   a descriptor runs right after its readable one, before `beforeSleep`. `AckedOnDisk` with
   `MCAof`, `Sizes = {1, 2}`. `aof.c:374-376`: "we have the contract with the user that on
   acknowledged write data is synced on disk".
4. *SCAN* (`dict.c:1258`) misses elements when the table grows or shrinks by four or more
   while it runs, because it walks the expansions of a bucket from the cursor on and in plain
   order. `ScanComplete` with `MCDict`. `dict.c:1139-1140`: "all elements present in the
   dictionary get returned".
5. *Leaders of a Sentinel epoch* (`sentinel.c:3249`): votes are counted for `current_epoch`,
   the failover is made with `failover_epoch`. When the first moves on during the election two
   Sentinels can lead with the same epoch. `OneLeaderPerEpoch` with `MCSentinel`, three
   Sentinels, `MaxEpoch = 2`. The comment is at `sentinel.c:3227-3229`.
6. *Late votes of cluster nodes* (`cluster.c:1829`): an AUTH_ACK does not say which election it
   is for. One that is under way when the slave gives its election up and schedules a new one
   (the count is reset at `cluster.c:2577-2604`, the new epoch starts at 2640) is counted for
   the new epoch, and two slaves can win one. `ElectionSafety` with `MCCluster`, `Layouts <-
   MCContest`, `LateVotes = TRUE`. The passing run drops such votes: it assumes that a vote is
   delivered, or lost, within `auth_retry_time`.
7. *Collisions while a slot is moved* (`cluster.c:1426`): two masters of the same configEpoch
   (both 0, say) move a slot; the source resolves the collision by taking a new epoch while it
   still owns the slot, its claim beats the target's, and the target deletes the keys it
   imported (`cluster.c:1376`). `NothingLost` with `MCReshard`, `Layouts <- MCCollision`. The
   comment before the function says equal epochs of masters with different slots are "not
   harmful".
8. *Stopped scripts* (`scripting.c:1040-1053`): an EVALSHA that fails at its first write is
   sent as EVAL all the same, and succeeds on the slave. `ReplicaExact` with `MCServer`,
   `Workloads <- MCStopped`.
9. *Eviction in a script* (`scripting.c:328-335`): the DEL of the key evicted before the
   script's first write is sent before the EVAL, which may have read the key. `ReplicaExact`
   with `Workloads <- MCEvicting`.
10. *SORT ... STORE over a string* (`db.c:120-125`): `setKey` overwrites without telling the
    clients blocked on the key that there is a list now. `BlockedServed` with `Workloads <-
    MCStoring`.
11. *PERSIST of a key whose time has come* (`db.c:961-975`): PERSIST does not look whether the
    key has expired, as every other command does through `expireIfNeeded`; it keeps the key for
    good. A slave that synchronized after the expire was not given the key (`rdb.c:617`: "If
    this key is already expired skip it"), and never gets it. `ReplicaExact` with `Workloads <-
    MCPersisting`.

Met while modelling, in the models as the code has them, and without a property:

- A file that ends inside MULTI/EXEC leaves half a transaction in the dataset
  (`aof.c:698-700`; the comment says "log error and quit", the code only quits when
  `aof-load-truncated` is off).
- At the failover timeout the promoted slave is told SLAVEOF its own address
  (`sentinel.c:3655` does not skip `SRI_PROMOTED`), and the other slaves that are left are told
  to resynchronize all at once, whatever `parallel-syncs` says.
- During a failover the file lists the promoted slave among the slaves and not the old
  master (`sentinel.c:1546-1548` prints `ri->addr` instead of the `slave_addr` just computed).
- `config_epoch` can go back: a HELLO with the same address raises it above the
  `failover_epoch` that the promotion then assigns (`sentinel.c:1947`). It takes three forced
  failovers.
- A slave whose SLAVEOF is lost keeps its place: the test of `SRI_RECONF_SENT` against its
  timeout is inside the loop that is not entered while all `parallel_syncs` places are taken
  (`sentinel.c:3687`), so with one place only `failover-timeout` ends the failover.
- A slave's AOF restart after a full sync tests `!retry` after `while (retry-- && ...)`
  (`replication.c:1040`): it gives up if the tenth attempt succeeds, and not if all fail.
- With everysec the last write before an idle period is only synced by the next flush that
  has something to write (`aof.c:278`).
- `stopAppendOnly` and a refused `startAppendOnly` leave a write error and a closed
  descriptor behind (`aof.c:208`, `aof.c:244`).
- A cluster node does not save the vote it gives (`cluster.c:2403`) nor the `currentEpoch` it
  reads from a header (`cluster.c:1509`), and counts one master after a restart until its
  state is updated (`cluster.c:3254`).
- A second CLUSTER FAILOVER FORCE can win with the votes of the first
  (`failover_auth_sent` and the count are still set, `cluster.c:2577-2654`).
- After a failed MIGRATE, DEL at the source lets the copy at the target come back through
  ASK; a command on several keys can read a stale copy.
- PERSIST, expiry and eviction do not touch the watchers of a key; EXPIRE in the past inside
  a script is not rewritten into a DEL (`db.c:891`); SCRIPT FLUSH in a transaction without
  writes sends EXEC without MULTI.
- `__ziplistInsert` before an entry whose prevlen field has five bytes although one would do
  shrinks the block before it moves the tail when the new entry is shorter than four bytes
  (`ziplist.c:616-626`, the field is left by 502-505). The model marks the value `Damaged`;
  the instance keeps every entry longer than that. `IntSize` of 0 or 1 shows it.
- SMOVE of a non-member onto the same key answers 1 (`t_set.c:323-326`); GETRANGE, BITCOUNT
  and BITPOS with an end before the start of the string read its first byte
  (`t_string.c:255-258`), unlike LRANGE; INCR reads a string up to its first zero byte, so an
  empty one counts as 0 (`object.c:614-617`); DECRBY negates the smallest integer
  (`t_string.c:382`), which the inputs leave out.

## 4. Proofs

Eight modules hold the proofs. Each theorem is of the specification TLC runs, with the
constants free: the bounds of the model (`MaxEvents` and the like) are any naturals there,
so no run is too short for it. The only assumptions are the named `ASSUME`s of the modules,
which TLC evaluates on every run, and the two hypotheses said below (`MaxForkFails = 0` in
`ReplicationExactProofs`, `Stored = {}` in one theorem of `ServerProofs`).

Some of the proofs need an induction: over the bits of a cursor, the commands of a transaction
or a script, the clients that are served. The library's induction theorems cannot be
instantiated by the provers, but the least element of a set of naturals can be had
(`WFMin`), so `NatSetInduction` states induction for the members of a set, and a recursive
function is shown to exist and unfolded by lemmas of its own (`Pow2Is`, `RevIs`, `RanUnfold`,
`DoneUnfold`, `ServedUnfold`, `RoundUnfold`). `RECURSIVE` operators stay out of reach.

`ReplBacklogProofs`, for all sizes, feed lengths and byte sets (assumptions: `MinSize` is a
positive natural not above `MaxSize`, the bounds are naturals, `NoByte` is no byte):

- `BacklogCorrect`: `Spec => []BacklogInv`. `BacklogInv` adds to `TypeOK` and
  `HistoryInPlace` what the loop needs: the bytes not yet copied are the end of the stream
  (`PendingInStream`), and between calls the history fits the buffer and ends at the offset
  (`Bookkeeping`). `HistoryInPlace` alone is not inductive, as it says nothing of the source
  of the next `memcpy`.
- `BacklogHistory`, `PsyncByteExact`, `BacklogTypes`: consequences. The second rests on a
  lemma that `%` subtracts at most once below twice the modulus, which is why the reader's
  two modulo operations are right.

`DictProofs`, for every finite set of keys, hash function, set of table sizes and set of
iterators (`DictAssumption`):

- `DictCorrect`: `Spec => []Inv`. `Inv` says of each table that every key is in the bucket of
  its hash and `used` is the number of keys (`TableInv`), and of both that they share no key,
  hold exactly `keys`, and that the buckets of `ht[0]` before `rehashidx` are empty
  (`DictInv`). The last two are what makes lookups and the unbounded search right; neither
  property is inductive without them. Lemmas follow the operators: `PutInv`, `TakeInv`,
  `MoveInv`, `RehashInv`, `ExpandInv`.
- `DictFindExact`, `DictRehashSafe`, `DictTypes`: consequences. `NextBucketExists` uses the
  least-number principle to find the bucket at which the search stops.
- `SafeIteratorExact`: `Spec => []IterExact`, from `IterInv`, which says of an open iterator
  (`Walk`) that what it still owes is in the rest of its chain or in a bucket behind its
  position, in the order (table, index), and that all it has returned lies before. That
  order survives deletions, insertions and an expansion, because an open safe iterator stops
  the rehashing: `DictStep` shows that a bucket is only ever emptied by a rehashing step.
- `ScanUncutComplete`: `Spec => []ScanCompleteUncut`, for every width of the cursor. The *rank*
  of a number is its last `CursorBits` bits, reversed. `ScanInv` says that no element a scan
  still owes has a rank below that of the cursor. The lemmas on `rev` (`RevInvolution`,
  `RevSplit`) give what the comment before `dictScan` argues in words: the buckets of a table of
  any size cut the ranks into intervals of one length (`RankGroup`), and the next cursor is the
  first rank of the next interval (`NextRank`). So a call that returns a bucket skips nothing,
  whatever sizes the tables have at the next call. While two tables exist the call returns the
  expansions of the bucket in the larger one from the cursor on, in plain order; `ExpansionMet`
  shows that these are all that is owed exactly when the cursor is not inside of an
  expansion, which is the exception of the property.

`SentinelProofs`, for every finite set of Sentinels and Redis
servers and all bounds (`ConstantsAssumption`):

- `VotesOnce`: `Spec => []OneVotePerEpoch`. The history of votes says nothing of what a
  Sentinel will do next, so `SentinelsInv` adds that each vote is of an epoch not above the
  voter's `leader_epoch`, and that the file has the same `leader_epoch` as memory: a restart
  keeps it, and a new vote needs a larger one. Each operator a step is built from
  (`sentinelFlushConfig`, `sentinelVoteLeader`, the reset, every state of the machine) has a
  lemma on what it does to those two fields.
- `OneElectedPerEpoch`: `Spec => []ElectionSafety`. It adds that what a Sentinel holds as the
  vote of another, and what a reply under way reports (`CallsInv`), was really given, and
  that whoever was elected in the epoch it started in had a majority for it (`ElectedInv`).
  Two majorities share a Sentinel, which voted once.
- `SentinelTypes`, `SavedBeforeAnnounced`, `NoDanglingPromotion`, `ParallelSyncsKept`:
  `ConfigInv` says of each Sentinel that its file holds what it would announce (`Announced`:
  the promoted slave's address from the moment the failover state makes it the announced
  one), that the promoted slave is among its slaves exactly in the states that use it and has
  no mark, and that the marks `sent` and `inprog` are disjoint, at most `parallel_syncs`, and
  there only in RECONF_SLAVES. The loop's lemmas (`LoopSound`, `LoopGood`) carry that over a
  slave that times out and is told again in the same pass. `ParallelSyncsKept` is about these
  marks; of the SLAVEOFs sent at the failover timeout it says nothing. The handlers are lemmas on a
  single record, so that the proof of a step does not see the other Sentinels.

`ClusterProofs`, for every set of nodes and slots and every set of layouts in which the
owners of slots are masters (`ClusterAssumption`):

- `NoSlaveOwnsSlots`: `Spec => []SlaveHasNoSlots`. `ClusterInv` says it of memory and of
  nodes.conf, as a restart makes the file the node's view, and types the packets under way.
  A claim is accepted only for a sender the receiver has as a master when it reads it, and a
  node that becomes a slave in a view loses its slots there in the same handler.

`AofProofs`, for every number of databases, pipe and transaction sizes (`AofAssumption`):

- `AofInvariant`: `Spec => []AofInv`. File and buffer (`FileInv`), and while a child lives
  also its file, the pipe and the rewrite buffer (`ChildInv`), are *joined* to the dataset:
  run by the fake client they give it, and leave `aof_selected_db` selected, unless that is
  -1. The second half is what the next command appended relies on, and is not implied by
  `ReplayExact`. `PrefixSafe` says that each prefix from a given length on rebuilds a dataset
  of the past. The switch of files is then the step that makes `ChildInv` into `FileInv`.
- `AofTypes`, `FileRebuildsDataset` (`ReplayExact`), `CrashKeepsPrefix` (`CrashSafe`):
  consequences.

`ReplicationProofs`, for every set of slaves, connections and databases and every size of
the backlog (`ReplAssumption`):

- `ReplicationTypes`, `CodeAssertionsHold`, from `TypeInv`: the types of all variables,
  messages under way included; the state of a client and its place in `server.slaves` agree;
  `LinkInv`: a `+CONTINUE` can only be on its way to a slave that sent its cached offset.
  Without it `replicationCacheMaster` could be reached with a cached master.

`ReplicationExactProofs` extends it. Hypothesis: `MaxForkFails = 0`. With a failed fork
`SyncExact` is false (finding 2 of section 3), and TLC shows it.

- `SlavesExact` (`SyncExact`) and `OffsetsNameData` (`OffsetNamesData`), from `ExactInv`:
  - `HistInv`: the history of the run ends at `master_repl_offset` and, with a backlog, at the
    master's dataset and `slaveseldb`; the backlog is its end. That elements *follow* a
    history (`Follows`) means that each takes every reader that is at one of its points to the
    next one. A point with database -1 admits every reader, as the stream selects a database
    next.
  - `ClientOK`, for each client of the master: before the RDB is started its buffer only
    selects databases (`Waiting`); from then on the buffer takes a reader of that RDB to the
    master's data, and is the stream since the RDB's offset or has one SELECT more (`RdbOK`).
    That SELECT is why an RDB may be exact and its offset not, and why `SyncExact` and
    `OffsetNamesData` are different properties.
  - `SlaveAt`, for each slave: what is on its way to it fits what it expects in its state.
    A slave in PSYNC reads `+FULLRESYNC` and then an RDB, or `+CONTINUE` and then the stream
    from its offset on; a connected one is `Caught` (everything under way takes it to the
    master's data) and, if its offset is that of its RDB, `Exact` (the same, along the
    history of its run, which also holds when the link is dead); a cached master is at its
    offset of its run.

  Each action is one lemma. A step of the master is shown not to be noticed by the slaves at
  the other connections (`Kept`: it preserves all the above of a *view*, which is what the
  master holds for one connection), and a step of a slave not to concern the others, so that
  every action is left with one connection. Feeding is one lemma for any element
  (`FedView`); attaching a slave weakens the last point of the history to database -1; a
  restart ends the run and keeps its history.

`ServerProofs`, for every finite set of clients and keys, all channels and patterns, all
scripts and all workloads of well-formed commands (`ServerAssumption`, `WorkloadAssumption`):

- `IndexesAgree` (`Indexes`), `WatchedUnchangedHolds` (`WatchedUnchanged`), from `Rests(sv)`, what
  holds between two commands: every index lists a client once or not at all (`WatchersOK`,
  `WaitersOK`, `ChannelsOK`, `PatternsOK`), the flags of a client agree with its sets
  (`ClientOK`), keys have values and expires that fit (`KeyOK`), and no key is ready.
  Inside a command that started in `s0` the server satisfies `Mid(s0, s)`: the same,
  whoever watches a key that has changed since `s0` has been told (`Told`), a list somebody
  waits for is ready (`WaitedReady`), and the watchers of ready keys have been told already
  (`ReadyTold`), because serving a list changes it without telling anybody. Each C function
  is a lemma; a command on keys gives `Changes`, one on the client's own state `Own`, and
  both preserve `Mid`. EXEC and scripts are inductions over their commands.
- `WaitersServed`, `BlockedServedHolds` (`BlockedServed`): while a list is served it may be empty,
  so `Serving` replaces `Mid` and excepts that key. The loop of `handleClientsBlockedOnLists` is
  one of at most `Cardinality(Keys) + Cardinality(Clients)` rounds in the model, which is
  enough because `Count`, ready keys plus blocked clients, falls in each round: a key gets
  ready again only when a client was served (`CountBound`, `RoundNext`). `Stored` are the keys a
  SORT ... STORE can write; for them the claim is false (finding 10), so `WaitersServed` excepts
  them and `BlockedServedHolds` has the hypothesis that there are none.
- `DeliveredOnceHolds` (`DeliveredOnce`), for the workloads of lists (`ListsAssumption`). `Once`
  says that each of the first `writes` elements is in exactly one of: a place of a list, the
  hands of a client, the set of those on their way. What is on its way is the pushes queued in
  transactions and, inside of a command, the element that is being pushed or served; that
  set is what the induction over the commands of EXEC (`Rest`) and over the clients served is
  about. `DeliveredOnce` alone does not say that a queued element is not also in a list.

Only model-checked, and why:

- Liveness (`EventuallyInSync`, `BufferDrains`, `StartCompletes`): fairness and ENABLED are
  beyond the prover.
- `Cluster.ElectionSafety`, `SlotEpochUnique`, `SettledAgree`: a node counts votes against its
  own view of the number of masters with slots. Views of different sizes have majorities that
  need not meet, so there is no theorem for every layout; the runs check the layouts given.
- `Reshard.NothingLost`, `ReadsLatest`: true of the layouts of the run, false of others
  (finding 7).
- `Server.ReplicaExact`: it has exceptions (findings 8, 9 and 11, `server_save`), so a theorem would
  be one about the workloads without them. It compares two runs of every command, on the
  master and as rewritten on the slave.
- `Server.ServedInOrder`: it compares the order of the waiting lists of all keys before and
  after a step, with the history `order`. `Sound` says which clients a list holds, not in
  which order, so the proof needs one more relation carried through every command; it is not
  done.
- `Values.*` and the refinement of `ValueSpec`: the encodings are recursive operators.

## 5. Limits of the models

- `Replication`: stream elements have length 1; the dump file is sent in one step; the
  slave's PING, AUTH and REPLCONF exchange before PSYNC leaves no trace; a BGSAVE child that
  survives the crash of its master is ignored; WAIT, `min-slaves-to-write` and chained slaves
  are left out. So are two refusals of `syncCommand`: of a slave that is not connected with its
  own master (`replication.c:469`, there is no chain) and of a client whose replies are not all
  sent (478; a slave waits for the reply to what it sent before PSYNC, and the SYNC that
  follows an unread reply to PSYNC finds it a slave already). A diskless
  slave starts with a `repl_ack_time` of 0 (772-773), so that the cron (2019) can drop it before
  its first ACK; that drop is `MasterDropsSlave` and counts as one of the `MaxEvents`.
- `Aof`: the done handler is one step, so a crash between its `rename` and its `fsync` is not
  distinguished; commands are not cut in the middle (the loader drops a partial command);
  `no-appendfsync-on-rewrite` is off. The file that is loaded after a crash is taken to be on
  disk, though nothing syncs it: a second crash does not take back what the first one kept.
- `Dict`: the order inside a chain and values are abstracted; hash values and table sizes are
  small; unsafe iterators are not modelled.
- `Sentinel`: one monitored master; down detection and TILT are free choices; SENTINEL RESET,
  SET, MONITOR and REMOVE, scripts, the ranking of slaves, a configuration file that cannot
  be written (the code goes on after a warning), HELLOs that arrive late and a crash inside
  of a handler are left out. All Sentinels know each other from the start.
- `Cluster`: all nodes have met and know each other's address; MEET, handshakes, FORGET and
  the blacklist, slave migration, ADDSLOTS, DELSLOTS, FLUSHSLOTS, RESET and SET-CONFIG-EPOCH
  are left out. A PING or PONG is read when it is sent
  or never: a header that is read after its sender has moved on is not covered. The file is written in one step.
- `Reshard`: one slot, one client at a time, no slaves, keys without expire. A RESTORE that the
  target executes only after the source has given up (the timeout of `cluster.c:4511-4517`) is
  not modelled: a MIGRATE has its effect at the target before it ends or never. redis-trib
  ends early only at a MIGRATE that fails, when the slot is migrating at one node and
  importing at one, and `TribFix` is that case of `fix_open_slot` (`redis-trib.rb:497-498`); a
  tool that is killed between its commands, and the other cases (499-508), are left out.
- `Keyspace`, `Server`: one database; strings and lists only; a script is a test of one key and
  two lists of commands; what `Replication` says of the link is not repeated. A client sends
  a request only when the previous one was answered, so pipelining is left out, as are
  MONITOR, AUTH, CLIENT and keyspace notifications.
- The value modules: floats (INCRBYFLOAT, HINCRBYFLOAT, scores that are no integers), hashing
  of HyperLogLog elements (an element is its register and count) and the estimate's
  correction, plain sets as sources of ZUNIONSTORE and ZINTERSTORE (the `REDIS_SET` branches of
  the iterator, `t_zset.c:1619-1627`, 1654-1676, 1768-1789) and scores that are infinite or not a
  number, the bytes of RDB lengths and compressed strings, zipmaps, the SCAN commands,
  SORT, and the parsing of arguments are left out. Sizes are scaled down, see `values`. The
  reads of strings (`StringReads`) share with the implementation how a text is read as a number
  and how BITCOUNT and BITPOS clamp their range: of these the run checks what follows, not the
  operators themselves.
- Memory is never exhausted, except where eviction and refusals are choices of `Server`.

## 6. Not modelled

`redis-cli`, `redis-benchmark` and the two checkers of files, configuration files, the
slow log, latency monitor, DEBUG and memory test: input, output and text. `sds`, `adlist`,
`zmalloc`, the hash and compression functions: used as given, except for the conversions of
`util.c`. The event loop's own polling, and `bio.c` beyond the fsync queue: no property of
the models depends on them.

## 7. Plan

1. Proofs: `ReplicaExact` for workloads without scripts and SAVE; the intset's and the ziplist's part of `EncodingOK`;
   `ElectionSafety` of `Cluster` for layouts in which no slot changes from a master with
   slots to one without; an abstract replicated log that `Replication` implements.
2. `Sentinel`: down detection by quorum, late HELLOs, SENTINEL RESET.
3. `Cluster`: meeting and forgetting nodes, slave migration; liveness of a failover needs
   bounds on delays, which the model does not have.
4. WAIT and `min-slaves-to-write` on top of the offsets of `Replication`; pipelined requests
   in `Server`.
