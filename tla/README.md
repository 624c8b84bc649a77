# Verification of freeminer's core

freeminer (a fork of Luanti/Minetest) is a voxel game server and client in C++.
This directory holds TLA+ models of the parts where concurrency and an
unreliable network decide correctness, TLC configurations that check them on
small instances, and TLAPS proofs of the safety properties of the transport,
the emerge queue, chunk generation, client sessions, async jobs, the sending of
blocks and the client's meshes for every value of their parameters.

Paths of the repository's code start with `src/` (the sources of the program
are in `src/src/`, its documentation in `src/doc/`); the tables below leave
`src/src/` out.

## 1. The system

### Components

| Component | Code | State | Operations | Module |
|---|---|---|---|---|
| MTP reliable channel | `network/mtp/impl.cpp`, `threads.cpp`, `internal.h` | sequence numbers, window, command queue, packets waiting, sent, received ahead of turn | send command, run queues, send, ping, resend, ack, receive, drain, timers, time out, disconnect | `MtpChannel` |
| MTP packet buffer | `network/mtp/impl.cpp` (`ReliablePacketBuffer`) | a list ordered around the circle of u16 numbers | insert, popFirst, popSeqnum, getFirstSeqnum | `MtpReliableBuffer` |
| MTP congestion control | `network/mtp/impl.cpp` (`Channel::UpdateTimers`) | window, counters of the current second, bytes of the current period | count ack, loss, late ack; end of a second; end of a period | `MtpWindow` |
| MTP split packets | `network/mtp/internal.h`, `impl.cpp` (`IncomingSplitBuffer`) | chunks by split number | make, insert, time out | `MtpSplit` |
| MTP peers and events | `network/mtp/impl.cpp`, `threads.cpp` | peers, use counts, event queue | create, delete, use, time out, disconnect, take events | `MtpPeers` |
| MTP handshake | `network/mtp/threads.cpp`, `impl.cpp` | peer ids on both sides, half-open peers | first packet, SET_PEER_ID, patching of queued packets | `MtpHandshake` |
| Emerge queue | `emerge.cpp`, `emerge.h`, `emerge_internal.h`, `threading/event.cpp` | map of requests, queue and event of each thread, counts per peer | ask for a block, take, load, generate, call back, cancel, start, stop | `EmergeQueue` |
| `core.emerge_area` | `script/lua_api/l_env.cpp`, `script/cpp_api/s_env.cpp` | the count of calls that are left | count down, call Lua, free | `EmergeArea` |
| Map storage and generation | `emerge.cpp`, `servermap.cpp`, `fm_map.cpp`, `map.cpp` | blocks in memory, caches, chunks in progress, database | get or generate, begin and end a chunk, use, edit, unload, save | `EmergeMap` |
| Client state and login | `server/clientiface.cpp`, `network/serverpackethandler.cpp`, `server.cpp`, `serverenvironment.cpp` | state of each client, authentication, players | packets of login, denial, kicks, loss of the peer, lingering, removal of players | `ClientSessions` |
| Sending of blocks | `server.cpp`, `fm_server.cpp`, `fm_clientiface.cpp`, `server/clientiface.cpp`, client handlers | what each client was sent and when, queues of two channels, what each client shows | select, serialize, send, note; edit; predict; forget | `BlockSending` |
| Active objects | `serverenvironment.cpp`, `server/activeobjectmgr.cpp`, `staticobject.cpp` | objects by id, static objects of blocks, active blocks | spawn, move, remove, resave, deactivate, activate, clear, unload, stop | `ActiveObjects` |
| Lua async jobs | `script/cpp_api/s_async.cpp`, `src/builtin/game/async.lua` | jobs, semaphore, results, workers, callbacks | queue, cancel, run, step, autoscale, stop | `AsyncJobs` |
| Client mesh queue | `client/mesh_generator_thread.cpp`, `client/client.cpp`, `client/clientmap.cpp`, `mapblock.h` | revisions, two queues, urgent blocks, blocks in flight, results | ask, take, copy, make, replace | `MeshQueue` |
| Thread primitives | `threading/` | flags and semaphores | start, stop, wait, signal | inside `EmergeQueue` and `AsyncJobs` |
| Background world threads | `fm_abm*.cpp`, `fm_liquid.cpp`, `fm_world_merge.cpp` | node data | simulation rules | as users of `EmergeMap` |
| Inventory, mod channels, bans, settings, rollback | | | sequential data handling | no |
| Other transports | `network/multi`, `network/enet`, `network/sctp`, `network/ws*` | | adapters of third-party libraries | no |
| Rendering, GUI, map generators, scripting API, databases | | | data and pure computation, I/O | no |

### How they interact

Every connection has a send thread and a receive thread
(`ConnectionSendThread::run`, `ConnectionReceiveThread::run`). The rest of the
program talks to them through two queues: commands go in, events (data, peer
added, peer removed, timeout) come out. Both threads share a peer's channels;
the buffers and the channel's numbers have their own mutexes. Datagrams may be
lost, repeated or reordered; the receiver acknowledges, the sender repeats. A
peer is freed by whichever thread ends its last use.

The events become clients: `PEER_ADDED` makes one, the packets of login drive
its state machine on the server thread, and a ready client gets a player in the
environment. Scripts on the environment thread may kick it meanwhile. When the
peer is gone the client lingers and is deleted, and the object of its player is
removed by a later step of the environment.

The server's threads (network, environment step, SendBlocks, the map thread)
ask the emerge manager for blocks. A request enters the map `m_blocks_enqueued`
and the queue of one emerge thread under `m_queue_mutex`; the thread is woken
outside of the lock. The emerge thread takes the request, loads the block or
generates a chunk, runs `on_generated` and the completion callbacks. Callbacks
of `core.emerge_area` run Lua, under the recursive lock of the Lua state, and
Lua may ask for blocks again. When the threads stop, requests that are left are
cancelled, with `m_queue_mutex` held over their callbacks. freeminer stops the
threads at exit, and also on SIGHUP (maintenance mode), and then starts them
again while the rest of the server goes on.

The map is a container of `shared_ptr`s with a lock of its own; the environment
lock that `emerge.cpp` takes around its steps is an empty class in freeminer
(`src/src/server.h:514`). Emerge threads, background threads and the map thread,
which saves and unloads, run between each other's steps. Blocks carry static
objects, which the environment turns into active ones near players.

A thread of its own sends blocks to clients; edits are told by node packets on
another channel. The client puts blocks into its map, counts their revisions,
and has worker threads make meshes from copies of them.

### What is hard here, and what correct means

* **Transport**: wrapped 16-bit numbers, a window whose size changes, numbers
  taken long before a packet is sent, pings that overtake the queue, late and
  repeated datagrams and acks, buffers ordered around a circle. Correct: what
  is sent reliably is delivered in order, once; nothing is dropped from the
  sender's buffer before the receiver has it; two live packets are never
  confused; everything arrives unless the connection ends.
* **Peers**: use counts against deletion by two threads, the order of events,
  ids assigned while packets are already queued, split packets under numbers
  used again. Correct: a peer is freed once and not while it is used; its user
  hears of it before and after its data; a packet carries the id its peer has;
  what is handed over is one packet, whole.
* **Emerge queue**: two structures that must agree, signalling outside the
  lock, stop and restart, merged requests, exceptions, callbacks into code that
  takes the same locks. Correct: a position is queued once; counts do not leak;
  no wake-up is lost; a callback runs exactly once; requests are served;
  `stopThreads()` returns.
* **Map**: blocks that appear and disappear between the steps of
  `getBlockOrStartGen`, chunks left in `m_chunks_in_progress`, stale handles,
  borders that belong to two chunks. Correct: no chunk is generated twice at a
  time; what is marked as generated has been; no change is lost.
* **Clients**: packets in an unexpected order, clients of one name, deletion
  while a handler runs, limits that are checked too early. Correct: no handler
  signals an event its state does not know; one player per name; an active
  client has a player.
* **Entities**: five passes of the environment, blocks unloaded between them,
  modification marks. Correct: an entity exists once, and is saved.
* **Sending**: blocks and node packets overtake each other, times in whole
  seconds, predictions. Correct: no hole in a client's world, nothing wrong in
  it for good.
* **Async jobs and meshes**: a semaphore beside its queue, cancellation, stop;
  results that are made from older data than is there when they arrive.

`PROJECT.json` lists the hazards at their lines with the properties that cover
them; section 8 has those beyond that list.

## 2. The modules

### MtpSeqnum: u16 arithmetic

`seqnum_in_window`, `seqnum_higher`, the window start of the sender's buffer,
for a circle of any even size (`MAX_RELIABLE_WINDOW_SIZE` is 0x8000 in the
code). `Distance` is the reference: how many increments lead from one number to
another. `InWindowIsDistance`, `HigherIsTotal` and `HigherIsAhead` compare the
code with it, and TLAPS proves them for every size.

### MtpReliableBuffer and ReliableSet: the ordered list

`MtpReliableBuffer` is `ReliablePacketBuffer`: `insert()` with its scan for the
place on the circle, `popFirst`, `popSeqnum`. It is used with two meanings of
`base`: the receiver's next number, and on the sender the start of the half
circle behind `next_outgoing_seqnum`. `ReliableSet` is what it promises: a set,
of which the number nearest to `base` is the first. `SetSpec` is the refinement.
This is why `MtpChannel` keeps the buffers as sets.

### MtpChannel: a reliable channel

One direction of one channel between two connected peers: the sending host's
send thread, the datagrams and acks, the receiving host's receive thread. A
packet is its number on the wire and a ghost `id` that counts the numbers
taken; the code never sees the id.

| Variable | Code |
|---|---|
| `at` | where `ConnectionSendThread::run` is in its loop |
| `peer` | connected; `m_pending_disconnect`; deleted |
| `window` | `m_window_size` |
| `queued_commands` | `Channel::queued_commands`, a command being its number of chunks |
| `queued_reliables` | `Channel::queued_reliables` |
| `outgoing` | `outgoing_reliables_sent` |
| `next_outgoing`, `next_incoming` | the two next numbers |
| `incoming` | `incoming_reliables` |
| `net`, `acks` | datagrams in flight |
| `taken`, `issued`, `delivered` | ghosts: numbers taken, packets asked for, ids handed to `processPacket` |

| Action | Code |
|---|---|
| `TimeoutPeer`, `Resend`, `UpdateTimers`, `Ping`, `RunCommandQueues` | `runTimeouts`, `resendReliable`, `Channel::UpdateTimers`, `rawSendAsPacket` of the ping, `UDPPeer::RunCommandQueues` |
| `SendCommand`, `DisconnectPeer` | `PutReliableSendCommand`, `disconnect_peer` |
| `SendQueued`, `FinishPackets` | `sendPackets` |
| `ReceiveAck` | `handlePacketType_Control`, `CONTROLTYPE_ACK` |
| `ReceiveReliable`, `Drain` | `handlePacketType_Reliable`, `checkIncomingBuffers` |
| `Expire` | the network: a very old datagram is gone |

Three decisions of granularity:

* A command takes all its sequence numbers in one step. In the code the send
  thread takes them one after another, and meanwhile only an ack can touch what
  `getOutgoingSequenceNumber` reads. An ack only removes packets from
  `outgoing`, which makes room; so every outcome of the interleaved code is
  also an outcome with the acks moved before the command, and a command that
  fails half-way puts all its numbers back.
* `Drain` is a step of its own, because `receive()` returns between two packets
  and the user sees them one by one; but the thread drains before it turns to
  the socket again (`~CanDrain` in `ReceiveReliable`).
* What a command contains, how it is split and reassembled, and the reassembled
  packet's dispatch are data; a command is a number of chunks.

The assumption about the network is `MaxAge`: a datagram is not received after
half a circle of numbers has been taken since its own (0x8000 packets; at the
largest window of 2048 packets that is at least 16 round trips). No protocol
with finite sequence numbers works without one.

### FifoDelivery

What `internal.h` says of reliable packets: delivered in the order sent, each
once. `FifoSpec` of `MtpChannel` is the refinement.

### MtpWindow: congestion control

`Channel::UpdateTimers` with its counters, which `MtpChannel` replaces by any
step of `WindowSteps`. A second may end with any mix of acks, losses and late
acks; bytes are counted in packets. `LossDecides` says exactly when the window
shrinks: in a second with as many losses as acks or more, and at least one ack.
With none it may even grow (`UnackedLossHolds`, section 6).

### EmergeQueue: requests for blocks

| Variable | Code |
|---|---|
| `m_blocks_enqueued`, `m_peer_queue_count` | the manager's maps |
| `m_block_queue`, `m_queue_event`, `m_request_stop` | each thread's queue, event and stop flag |
| `m_queue_mutex`, `m_luastackmutex` | owners of the two locks, where a section calls out; a section that calls nothing is one step |
| `at`, `item` | where `EmergeThread::run` is, and the request it works on |
| `asking`, `signalling` | an agent inside `core.emerge_area`; one that has pushed and must signal |
| `manager`, `index` | where `startThreads`/`stopThreads` is |
| `calls`, `fired` | ghosts: calls with a callback, runs of each callback |

Actions follow the functions: `enqueueBlockEmerge`, `l_emerge_area` (any agent
that holds the Lua lock, the emerge threads in their callbacks included),
`Signal`, `popBlockEmerge`, `Wake`, `Work`, `finishGen`, `Abandon` (position
out of limits, exception), `runCompletionCallbacks`, `BeginCancel`,
`cancelPendingItems`, and the loops of `startThreads`, `stopThreads`.
What loading and generating do to the map is left to `EmergeMap`: here
`Work` has the outcomes found, loaded, generated, failed, thrown.

The parameters `MayThrow`, `InitMayFail`, `Maintenance`, `OverLimit` and
`LuaAgents` say which of these happen, so that a run can show what depends on
them.

### MtpSplit: packets in chunks

`makeSplitPacket()` and `IncomingSplitBuffer`: reliable and unreliable packets
take their numbers from one counter and are collected in one buffer under the
number alone. Reliable chunks arrive in order and once (what `MtpChannel`
shows), unreliable ones are lost, repeated and reordered. Only entries of
unreliable packets time out. `NumbersOld` is the assumption on the network and
the timeout: a packet is complete, lost or timed out before its number is used
again 0x10000 numbers later. A number that is taken for a packet that is never
sent (`SplitInVain`) is possible.

### MtpPeers: use counts and events

The receive thread, the send thread and the user of the connection, each with
the `PeerHelper`s it holds on its stack; `createPeer`, `deletePeer` in its three
steps (erase from the map, event, drop), timeout, DISCO, `DecUseCount`. Ids are
assumed not to be drawn twice (65534 of them, at random). `EventsInOrder`
allows one packet after `PEER_REMOVED`: the code puts the event before the last
use ends, and the receive thread may be between finding the peer and putting
its data.

### MtpHandshake: how a client gets its id

A client and the half-open peers that the server makes for it; a datagram stays
in flight for ever and may arrive at any time, again, or never. The user of the
client sends at any time: `Client::step()` repeats TOSERVER_INIT_FM, a reliable
packet, until the server has said hello. `FixedId` is what the comment in
`SetPeerID()` says, that every reliable packet which waits to be sent, or sent
again, carries the id once there is one. It fails (section 6): `fix_peer_id()`
does not look into `queued_reliables`. `OnlyQueuedUnpatched` says that this is
all it misses.

### EmergeMap, MCEmergeMap: blocks and chunks

| Variable | Code |
|---|---|
| `m_blocks`, `database` | `Map::m_blocks`, the saved blocks; a block is what mapgen made, what a user has changed, or blank |
| `m_chunks_in_progress`, `m_mapgen_process` | the sets of `ServerMap` and `EmergeManager` that are to say the same |
| `at`, `frame` | where each thread is between two locks, and its locals; a handle is to the block in memory or to one erased since |
| `todo`, `vmanip` | `MMVManip`: blocks still to be created or written back, data |
| `blocks_delete`, `erased` | locals of `timerUpdate`, the thread-local block caches |

Each lock the code takes is a step: `EmergeBlock`, `ReadDatabase`, `LoadBlock`,
`InsertBlock`, `ResetModified`, `CreateBlankBlock`, `StartGen`,
`EnterProcess`, `BlitBack`, `FlagGenerated`, `EraseInProgress`, `EraseProcess`;
users `Hold`, `UseBlock` and `EditBlock`; the map thread `TimerUpdate`,
`EraseBlock`, `Save`. `ChunkOf` says to which chunk a block belongs, `Area`
which blocks its generator creates and writes back: its own and a border, so
that the areas of neighbouring chunks overlap. `MCEmergeMap` is a row of blocks
of which the last, `outer`, is a chunk of its own and the others are one; the
border of either is one block wide. A scene says which threads run on which
blocks: two generators on one chunk, a generator and a user, a generator out of
the limits, or (`BorderScenes`) two generators on neighbouring chunks.

### EmergeArea: the callbacks of one area

`LuaEmergeAreaCallback()`: load and store of the count, the call under the
script lock, the second reading for the references, the third to free the
state.

### ClientSessions: from PEER_ADDED to PEER_REMOVED

All states and events of `RemoteClient::notifyEvent` (`Transitions`), and the
handlers that signal them with their tests: INIT, FIRST_SRP, SRP_BYTES_A and M,
INIT2, CLIENT_READY, sudo mode, denial, kicks, loss of the peer, `deletingPeer`,
`removeRemovedObjects`. A handler is one step, as packets are handled by one
thread, except two in which the environment thread may act in between (no lock
is held, `EnvAutoLock` being empty): CLIENT_READY (`joining`), and the removal of
a peer (`leaving`), which signals `CSE_Disconnect` (`DeletingPeer`), disconnects
the player (`Disconnected`) and deletes the client (`DeleteClient`). So a thread
that got a client while it was active may find no player ("clients and players
are not in perfect sync", `clientiface.cpp:116`), but by then the client is
`CS_Disconnecting` or gone: `ActiveHasPlayer` holds in every state. CLIENT_READY
of a client before `CS_InitDone` changes nothing, as `ProcessData()` does not
find such a client (`server.cpp:1708`). `name`, `allowed`, `chosen` are the credentials,
`accounts` counts what the authentication database was told to create,
`m_players` and `connected` the players. Passwords are right or wrong,
`default_password` is empty, adding the player's object does not fail, and a
client makes at most one player. `Bypass` are the names that may join a full
server. `LoginRaceSafe` excepts names of which a client was deleted before: the
object of a player who has left stays until it is removed, and the name may then
be connected twice.

### BlockSending: a block on its way to clients

One block in range of all clients, of which a node changes. The server selects
clients (`Collect`), serializes the block once for each kind of client
(`CopyToSend`), sends it on channel 2 and notes it (`SentBlock`); an edit is
queued and told on channel 0 (`SendMapEdit`) to those that have the block, to
others the block is set not sent. A client predicts what it digs and forgets
blocks. Time is counted in half seconds, as the code compares stamps in whole
ones; whether an edit is near or far is left open. A client does not forget the
block between its sending and the note of it (30 s later at the earliest).

### ActiveObjects: entities between memory and blocks

Objects with their id, place and the block that has their static data; blocks
with what is stored and what is active in them, and their modification mark; the
database. The environment's passes of one step, in order, an object at a time:
`UpdateActiveBlocks`, `Resave`, `Deactivate`, `ActivateBlock`, `Clear`, where
`clearIf()` may find the lock of the objects taken and leave the rest for the
next time; scripts, the client and `UnloadStatic`/`LoadStatic` between any two.
`Stop` is `deactivateBlocksAndObjects()`. The callback on one object is one
step; ids are used again at once; all blocks are generated and all entities
saved (`static_save`); blocks are written when they are unloaded and at the end;
a block is unloaded only after 29 seconds without use, in which the passes,
every 2 to 5 seconds, have seen that it is inactive.

### AsyncJobs: the Lua job queue

`queueAsyncJob`, `cancelAsyncJob`, the workers with the wait on the semaphore
and the taking of a job as two steps, `step` with results and autoscaling, the
destructor; and `core.handle_async` of `src/builtin/game/async.lua`, which
stores the callback after the job was queued.

### MeshQueue: the meshes of a client

Revisions of blocks and of the meshes they have; `m_mesh_requested`; both
queues with their urgent blocks and blocks in flight; workers that take
(`Pop`), copy (`FillDataFromMapBlocks`) and put results; `ReplaceMesh` of
`Client::step()`. `AddBlocks` is `addBlock()` for several blocks, each once: it
updates the entry of a block that is queued and appends the others. Requests come from the draw list, from blocks that arrive
near the player, and from edits. Blocks are loaded, a mesh covers one block and
is not empty.

### MCClientParts, MCServerParts: parts side by side

Modules that share no state are checked in one run: `mover` is chosen at the
start and says which of them takes steps. The states are those of each alone.
`MCClientParts` has the buffer, the window, split packets, peers, handshake and
meshes; `MCServerParts` the map, sessions, jobs, objects and sending. There
`ground` keeps the objects small: entities are one at a time and anywhere, or
several and all in the block `x` (their copies elsewhere do not meet).

### The modules of proofs

The inductive invariants and the proofs of section 5 are in `MtpChannelInvariants`,
`MtpChannelProofs` and `MtpSpanProofs` (transport), `ClientPartsProofs` (the list
of packets, window, split packets, peers, handshake, meshes),
`EmergeQueueProofs` (queue and callbacks), `EmergeMapProofs`,
`ServerPartsProofs` (sessions, jobs, sending, emerged areas) and
`ActiveObjectsProofs`. `DataLemmas` has what they share: facts about sequences,
finite sets and least elements.

## 3. The runs

| Run | Question | Bounds |
|---|---|---|
| `mtp_channel_alias` | Numbers go more than once round, commands of two chunks, window that grows and shrinks: span, no confusion, what is not received can be sent again, acks, refinement of FIFO | circle of 8, window 1..2, 9 packets, 2 datagrams and 2 acks in flight |
| `mtp_channel_live` | Channel 0 with pings: every packet arrives unless the connection ends | circle of 10, window 2, 3 packets, 1 datagram and 1 ack in flight |
| `client_parts` | List ordered around the circle refines a set; window; split packets whole; peers freed in time, events in order; ids; meshes given up only for newer ones, no urgent block forgotten | circle of 12, every base; 8 packets of each kind in a second; 4 split packets under 2 split numbers; 2 peers from 1 address, 2 events; 2 sessions, 2 reliable packets; 2 blocks, 3 workers, 2 levels of detail |
| `emerge_queue` | Queue and map agree, counts, limits, wake-ups, callbacks at most once | 2 threads, 1 caller, 2 positions (one out of limits), a peer, exceptions, failing `initScripting`, repeated maintenance, Lua in an emerge thread |
| `emerge_live` | Requests served, callbacks run and kept, `stopThreads` returns | 2 threads, 2 positions, Lua in a server thread |
| `server_parts` | One generator for a chunk; login races, limits, accounts, players; jobs; entities exist once; no hole in a client's world | 2 emerge threads, or 1 and a user, on a chunk of one block with a border; 3 clients, 2 names, 1 user; 3 jobs, 2 workers; 2 entities, 2 blocks, 1 object per block, entities one at a time anywhere or all in one block; a freeminer client and a stock one, 1 edit, 1 request each, 2 seconds |
| `block_resend` | *violated* `UpToDate`: a dig is refused | 2 clients, no edit |
| `emerge_area` | *violated* `CallsRemaining` | 2 threads, 3 blocks |
| `emerge_stop` | *violated* `StopEnds`: a cancelled callback asks again | 1 thread, 2 calls |
| `map_edit` | *violated* `EditKept` | an emerge thread and a user, 3 blocks, without unloading |
| `map_border` | *violated* `GeneratedHasData`: the border of a chunk that is being generated | 2 emerge threads on neighbouring chunks, 3 blocks |
| `entity_shutdown` | *violated* `EntitiesSaved` | 1 entity, 2 blocks |

Why these are enough to be interesting:

* The circle of 8 with 9 packets: numbers are used again, the receiver's
  half-circle test meets numbers of the earlier turn, datagrams wait while the
  sender goes on. With `MaxAge` 4 a datagram may be as old as the comparisons
  can bear. The start, 6, puts the wrap into the first packets.
* Two datagrams in flight are what reordering and repetition need; a third adds
  no new order relative to the receiver's next number. The liveness run has one,
  because repetition and loss, not order, are what can stop progress.
* Two emerge threads make `getOptimalThread` choose and let requests merge
  while a thread takes them; the runs with one thread are those where one is
  enough to violate.
* Three clients: two that race and one that has left. Two names and one user of
  the limit: one name that may pass it.
* Two entities and one object per block: the block is full when both meet,
  which they do in `x`; a lone one may have copies in both blocks.
* Two blocks that touch at an edge: the one's revision is not raised with the
  other's, which is where a mesh is given up.
* `CHECK_DEADLOCK FALSE` where a bound, the end of the connection or of the
  server ends a behaviour.

Larger instances were checked once, without error: a circle of 16 with commands
of 1 and 3 chunks and a window of 2 to 4; 2 addresses with 2 peers; 3 peers; 3
reliable packets of the handshake; a chunk of two blocks; two entities that walk
between both blocks; 3 workers with 3 jobs;
two edits in 3 seconds, and two requests of each client, for the sending; three
blocks in a line for the meshes. On one thread `GeneratedHasData` holds, with a
user, unloading and two blocks of neighbouring chunks; `EntitiesSaved` holds with
two entities when no deactivated object is left at the stop. Section 5 proves
both.

Every property of a passing run has a mutant in `PROJECT.json`: a change of one
definition, as a mistake in the code would make it, with which TLC finds the
property violated. Mutated forms stand before the definition they replace.

## 4. Fairness

Only liveness needs it, and only these runs use `FairSpec`.

* `MtpChannel`: the two threads keep running (weak fairness of their steps,
  apart from the choice of sending commands, disconnecting or timing out,
  which nothing has to happen). Strong fairness of retransmitting, receiving
  and acknowledging each packet: of infinitely many transmissions one is not
  lost. `Delivered` allows that the connection ends instead, as the code
  disconnects a peer that does not answer.
* `EmergeQueue`: weak fairness of each thread's step; the manager's steps once
  it has begun; strong fairness of `runCompletionCallbacks`, which waits for
  the recursive mutex of the Lua state. A thread that waits for it while it is
  released again and again is assumed to get it at some time. Nobody is
  obliged to ask, to start or to stop. Waiting for `m_queue_mutex` needs no
  more than weak fairness in these runs.

## 5. What is proved

### The transport

The proofs are in `MtpChannelProofs` and `MtpSpanProofs`, for every value of
the constants that satisfies `WindowAssumption` and `ChannelAssumption`
(translations of the code's constants: the half circle is positive, the window
limits are in order, a command has fewer chunks than half the circle, a
datagram lives at most half a circle).

1. *Arithmetic*: `InWindowCorrect`, `HigherTotal`, `HigherCorrect`. Everything
   else rests on lemmas about `Distance` (`DistanceAdvance`, `DistanceSplit`,
   ...), so that no later step reasons about wrapping.
2. *Types*: `TypeCorrect`, `Spec => []TypeOK`.
3. *Order, if the circle is wide enough*: `InvCorrect`, `OrderCorrect`,
   `NoCorruptionCorrect`, `FifoCorrect`, from `Spec /\ []SpanOK`, with or
   without pings. `InOrder` is not inductive: it says nothing of the packets in
   flight. `IInv` adds that every number in use lies as far behind
   `next_outgoing` as its packet is (`Behind`), every buffered packet as far
   ahead of `next_incoming` as its turn (`Ahead`), and the two ends are aligned.
   While less than half a circle lies between the ends, equal numbers are then
   equal packets, and the receiver's window test separates old from new.
4. *The circle is wide enough*: `SpanCorrect`, assuming `WideEnough`: no pings,
   the largest window + 2 fits in half the circle, and a command is short
   enough. This needs `SInv`: numbers are sent in the order taken, every number
   sent and not delivered is still held by sender or receiver (`Held`), an ack
   stands for a packet the receiver has (`AcksReceived`), packets the receiver
   lacks are near (`GapsNear`) and it lacks one soon (`GapSoon`). `IInv` and
   `SInv` depend on each other and are proved together as `JInv`. The oldest
   packet not acknowledged bounds what the sender takes (`RoomIsNear`), and the
   packet at the head of the queue is always one that `insert()` accepts
   (`HeadIsBuffered`).
5. Hence `WideOrderCorrect`, `WideNoCorruption`, `WideFifoCorrect`
   (the channel implements FIFO delivery), `RetransmitCorrect` and `AckCorrect`
   without further hypothesis than `WideEnough`.

`WideEnough` holds in the program for channels 1 and 2, as long as no command
has more than 0x8000 - 1023 chunks (some 16 MB). Nothing in the code
enforces that; section 6 says what happens beyond.
On channel 0 the circle is not wide enough in the model, so only the
conditional theorems of step 3 apply. A ping takes the next number and is sent
at once, before older numbers that wait in the queue. If a ping may come in every
round, it takes the place in the window that an ack has just freed, the queued
packet is never sent, and numbers go on being taken until they are half a circle
ahead: TLC refutes `SpanOK` in this way under the constants of
`mtp_channel_live`. In the program pings are 5 seconds apart (`PING_INTERVAL`,
`impl.cpp:34`, `impl.cpp:1037`), so that would take 0x8000 pings, 45 hours during
which no queued packet finds a place; the models have no clock to say so.

### The emerge queue

`EmergeQueueProofs`, for any number of threads,
callers, positions and peers and any limits that satisfy `EmergeAssumption`,
with or without exceptions, failing threads, maintenance and Lua callbacks:

* `TypeCorrect`, `QueuedOnceCorrect`, `CountsCorrect`. None of the three is
  inductive alone: `popBlockEmergeData()` reads an entry that must be there,
  and a count stays a natural number only if it counts something. `QInv` says it
  without cardinalities: a queued position has an entry (`Entered`), is
  queued in one place (`Once`), an entry is queued (`Somewhere`), counts agree.
  One lemma each for the three ways these change (`MergeStep`, `PushStep`,
  `TakeStep`); everything else leaves them alone (`QuietStep`).
  `OptimalThread` shows that `getOptimalThread()` finds a thread, `QueueShort`
  that a queue is no longer than there are positions.
* `WakeCorrect`: `NoLostWakeup` is inductive with the types. Whoever appends to
  a queue is then `signalling` that thread, and `stopThreads()` sets the event
  after the flag.
* `LimitsCorrect`: whatever is forced into the queue or merged, the requests
  nobody forced respect its limits.
* `CallbackOnceCorrect`: a callback runs at most once and is never queued twice
  (`OnceInv`: it is in one entry, in one thread's hands, or has been called).
  `CallbackKeptCorrect`: none is lost, assuming `NothingLost`, that is, no
  exceptions and no position out of the limits (`KeptInv`).

### Chunk generation

`EmergeMapProofs`, for any map, any chunks, any number of emerge threads and
users: `TypeCorrect` and `OneGeneratorCorrect`. `OneGenerator` is not inductive:
`MapInv` adds that whoever generates a chunk has it in `m_chunks_in_progress`
(`Claimed`; by `OneGenerator` nobody else is there to remove it), with what each
place in the code needs of the thread's locals (`Frames`, `ThreadsOK`).

`AloneGeneratesCorrect`: with one emerge thread `GeneratedHasData` holds, for any
users, limits and unloading; the finding `map_border` needs the second thread
(`defaultsettings.cpp:335` says of more than one "too unstable when > 1"). While
the thread copies a chunk back, a block of the chunk that is in memory without
content is still in its list, and not the one at hand unless held
(`ChunkFilled`): only the thread itself makes such blocks (`CreateBlankFill`),
erasing a block makes its handle stale (`EraseFill`), and whoever else brings a
block into memory brings its data. When the list is empty no block of the chunk
is without content (`FinishFill`).

### Beside the channels

`ClientPartsProofs` is about the parts of a connection that `MtpChannel` takes
for granted and about the meshes, each from its own specification.

* *The list of packets*, for every circle and base: `SetCorrect`, the list
  implements `ReliableSet`. `BufferInv` says that the list is in the order of
  the circle, within the half of it that begins at `base`. `insert()` then finds
  the one place where the order stays or the packet it has already, the head is
  the packet nearest to the base, and each step adds, removes or passes one
  number of the set (`BufferStep`).
* *Congestion control*, for every minimum, maximum and step: the window stays in
  its range (`WindowRangeCorrect`), moves by whole big steps only
  (`OnlyBigStepsCorrect`), and shrinks only in a second in which something was
  acknowledged and no less was lost or late, in which it never grows
  (`LossDecidesCorrect`).
* *Split packets*, for any number of split numbers and ways to cut packets:
  `HandedWholeCorrect`, `ReliableSplitsKeptCorrect`. Both need `SplitInv`:
  chunks alive under one number are of one packet (by `NumbersOld`, a number is
  taken again only when its last packet is done); the reliable channel holds
  packet after packet, each chunk by chunk to its end; and what has been
  collected of a reliable packet is what came of the one whose chunks come out
  next.
* *Peers*, for any number: `FreedInTimeCorrect`, from `PeersInv` (a peer's count
  is the number of helpers on the stacks of the three threads, and who takes a
  peer out of the map is the one that drops it), and `EventsInOrderCorrect`,
  from `EventsInv` (what is still to be told of a peer, in the queue or by a
  thread that is about to, fits what its user knows).
* *Handshake*: `OpenIsMutualCorrect`, from `HandshakeInv` (the client names its
  own id or none, the server only ids of peers it made).
  `OnlyQueuedUnpatchedCorrect`, from the same invariant, for a user that sends
  whenever it likes: once the order to patch is carried out, only what was in
  `queued_reliables` then is without its id, and nothing is made so later.
* *Meshes*, for any blocks, neighbourhoods, workers and levels of detail:
  `UrgentsQueuedCorrect` and `GivenUpForNewerCorrect`. The second is not
  inductive: `MeshInv` says that what was asked for at the present revision of
  its block has arrived, is on its way at that level and not made from older
  blocks, or a block around it is newer (`RequestKept`), and that no revision is
  from the future (`RevisionsFit`).

### The parts of the server

`ServerPartsProofs`, again each from its own specification:

* *Sessions*, for any clients, names and limits: `NoStateErrorCorrect`,
  `ActiveHasPlayerCorrect`, `AccountCreatedOnceCorrect`, `LoginRaceCorrect`.
  `SessionInv` ties the state of a client to its login, its player and the two
  handlers that take several steps (`joining`, `leaving`); that a client leaves
  the active states before its player is disconnected makes `ActiveHasPlayer`
  hold between the steps. `UserLimitCorrect` adds
  `LimitInv`: a place that the final check of CLIENT_READY has found stays free
  until it is taken, as nobody else can become active meanwhile.
* *Async jobs*, for any number of jobs and workers: `CancelledNeverRunsCorrect`,
  `CallbackStoredCorrect`, from `AsyncInv` (a job is in one place at a time, and
  whether it ran and called back says which it was in). `WakeupCorrect` counts:
  the semaphore and the workers it has woken cover the queue, and once the
  destructor has posted, the workers that wait.
* *Sending*, for any viewers of either kind: `NoHoleCorrect`. `SendingInv` says
  where the block of a client is while `SendBlocks()` has yet to note what it
  sent.
* *An emerged area*. For any number of threads `AreaCallsCorrect`: each block is
  one call of the function, and nothing is freed before the last block has been
  counted, since an update of the count that is lost leaves it too high
  (`CountsEnough`). For one thread `AloneCallsCorrect`: `CallsRemaining` holds,
  and the state goes once. With more, `CallsRemaining` is the finding
  `emerge_area`.

### Entities

`ActiveObjectsProofs`, for any numbers of entities, blocks and ids and any limit
of a block: `EntityOnceCorrect` and `StaticBackedCorrect`. Blocks are seen as
`emergeBlock()` would give them, loaded or not (`View`), so that loading is no
change at all. `ObjectsInv` says:

* `BlocksOK`: an entity is in one block, at one place of it, and what a block
  that is not modified has in the database counts as well (`Has`): this is where
  a modification mark too few would show;
* `SlotsOwned`: what is active in a block under an id is the entity of the
  object with that id, which says that its static data is there;
* `LiveOK`: a live object is the only one of its entity; its static data is
  where it says, or in no block if it says nowhere;
* `Fates`, `Kept`: entities are spawned in order and are nowhere before, only
  one that is removed for good is marked so, and while the server runs an entity
  that was not removed or refused is a live object or in a block;
* `Visits`: the pass has yet to see only objects that are there, and only objects
  that are gone wait for their removal.

Deleting and saving static data each keep `BlocksOK` (`DeleteStaticOK`,
`SaveStaticOK`). Every action is then one of four changes: of one object with
its data (`ObjectStep`), of the pass alone (`SameObjects`), of blocks that are
written and leave (`LeavesOK`), or of new objects (`AddsOK`); the proof has a
lemma for each action under one of these. Activating a block rests on two facts
about its list: ids are handed out in order, each once (`OrderedOnce`), and what
`serialize()` writes has each entity of the block once (`SerializedOnce`). TLC
checked `ObjectsInv` in full with 2 entities, 2 blocks and 2 ids.

What the finding `entity_shutdown` leaves of "deactvation = save static data":
`SavedUnlessAwaited`, once the server has stopped the database has every entity
that was neither removed nor refused, unless a deactivated object of it was left
for its clients when it stopped; `SavedWhenNoneAwaited` is `EntitiesSaved` where
there is no such object. `Savable` says of the last pass that an entity is
somewhere, and that no object of it still to be visited is gone already; what is
not modified is in the database by `BlocksOK`.

### What is not

**Only model-checked**:

* liveness (`Delivered`, `Served`, `CallbackRuns`, `StopEnds`), which TLAPS does
  not handle under fairness.

Every other property of a run that passes is a theorem as well.

What a recursive function computes (a fold of the community modules is one) for
every argument needs induction over data, which TLAPS cannot instantiate with
the provers in use; where a proof needed it, the models say it by a set or a
quantifier instead.

## 6. Findings

Each is a run that TLC finds violated, of a property that states what the
repository says.

* `block_resend` (`clientiface.cpp:450`): `SetBlockNotSent()` does nothing. A
  node that a client has dug in its prediction and the server has left is not
  sent again, although the handler says "Re-send block to revert change on
  client-side"; edits far away are lost in the same way.
* `map_edit` (`emerge.cpp:780`): an emerge thread puts what it has read from the
  database over a block that another thread has loaded and changed meanwhile.
* `emerge_area` (`l_env.cpp:155`): two emerge threads count one area down
  without a lock; a callback is told a wrong number of calls that remain. The
  state may also be freed twice, or never.
* `emerge_stop` (`emerge.cpp:531`): a Lua callback that asks for another block
  while its own is cancelled locks `m_queue_mutex` a second time in the same
  thread: the shutdown hangs.
* `map_border` (`servermap.cpp:381`): `timerUpdate()` erases blocks that are not
  generated, also under a thread that generates them; a thread that generates
  the neighbouring chunk creates such a block again, blank, as its border, and
  `finishBlockMake()` of the first marks it as generated. The comment of the
  flag (`mapblock.h:781`) is then wrong.
* `entity_shutdown` (`serverenvironment.cpp:2101`): an object that waits for its
  removal when the server stops is deactivated once more; its static data is
  deleted and not saved again.

What the models show without a run of its own:

* The client's packets without an id (`mtp/threads.cpp:633`): "fix peer id in
  existing queued reliable packets" (`impl.cpp:1663`) is done for those that were
  sent, not for `queued_reliables`. A TOSERVER_INIT_FM (`client.cpp:598`,
  `clientopcodes.cpp:136`) that the send thread makes just before it is told of
  the id goes out without it, and again; once the server has opened the peer it
  ignores such a packet (`threads.cpp:1066`), and the channel waits for it. TLC
  refutes `FixedId` with 1 session, 3 reliable packets and 1 reminder.
* Loss without acks (`impl.cpp:782`): the loss is cut down to the number of acks
  before it is looked at, so that the branch for loss without acks
  (`impl.cpp:790`) is dead, and the window may grow by its largest step in a
  second in which everything was lost, if half of it was used earlier in the ten
  seconds that `current_bytes_transfered` counts. TLC refutes `UnackedLossHolds`
  under the constants of `client_parts`.
* The loss ratio divides unsigned integers, so that half of the packets late or
  lost count as none (`impl.cpp:789`; `OnlyBigSteps` states it).
* A command of nearly 0x8000 chunks behind a packet that waits makes the sender
  forget that packet (`impl.cpp:1106`; `Retransmittable` fails on a half circle of
  8 with a command of 7).
* The callback of a position out of the map's limits is never called
  (`emerge.cpp:764`; `CallbackKept` fails with `OverLimit`).

## 7. What is left

Modules worth writing next, each needing a run: the inventory actions of
`inventorymanager.cpp` with their Lua callbacks in between; saving and crash of
the map database against the player database; the background threads' own
queues. A statement about the span on channel 0 needs a model with a clock, in
which pings have a least distance (section 5).

### Not modelled, and why

* Unreliable packets that are not split share nothing with the reliable channel
  but the socket and the quota, which `FinishPackets` leaves open.
* The rates and round-trip times (`reportRTT`): they decide only when a
  timeout happens, which the models leave to chance.
* The packets of play (positions, inventory, chat): they change data only. The
  inventory, mod channels, bans, settings and the rollback log are sequential
  and have unit tests.
* Map generators, liquids, ABMs, node data: computation over data too large to
  enumerate; their thread protocol is that of the map's users. `deleteBlock` is
  called by `core.delete_area` only.
* Databases, sockets, rendering, GUI, Lua API: I/O and wrappers.
* `network/ws*`, ENet, SCTP: adapters of third-party libraries.

## 8. Hazards beyond the list

`PROJECT.json` holds the hazards the properties are for. The code has more,
which no model reaches yet:

* `servermap.cpp:918`: `deleteBlock()` hands the block to `m_detached_blocks` as
  well as to `Map::deleteBlock()`; who holds it differs between the two.
* `serverenvironment.cpp:1385`: the object of a player that has left is saved up
  to five seconds later; a client that joins again meanwhile is loaded from the
  older save and overwritten by it.
* `serverenvironment.cpp:2050`: `m_known_by_count` is read before the static
  data is saved and the object marked.
* `serverenvironment.cpp:1935`: `activateObjects()` breaks at the first object
  it cannot create and then clears the stored ones: those behind it are lost.
* `fm_map.cpp:896`: entities in a block that was never generated go with it.
* `activeobjectmgr.h:61`: `getFreeId()` is per thread; two threads may register
  two objects under one id.
* `serverenvironment.cpp:2099`: the block an entity left and the one it came to
  are saved apart; a crash between them has it twice or not at all.
* `client/client.cpp:1881`: `addNode()` and `removeNode()` raise no revision, so
  of two meshes made before and after an edit either may be put in last, against
  the comment at `client.cpp:813`.
* `client/mesh_generator_thread.cpp:250`: blocks are copied one after another; a
  block copied before it changes and a neighbour read after give old data the
  new revision. And at 191: the two queues have a set of blocks in flight each,
  so that two workers may make the same block.
