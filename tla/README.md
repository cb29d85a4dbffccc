# rzbridge in TLA+

rzbridge stands between routers and one shard of Roomzin nodes. Routers connect
to it over TCP and send *router frames*; each wraps a *shard frame* and says
whether it writes. The bridge keeps connection pools to the shard's nodes, sends
writes to the leader and reads to followers, and returns the responses. This
directory models that in TLA+, checks it with TLC on small instances and proves
its main safety properties with TLAPS for all values of the constants.

File names below are relative to the repository root, `src/`.

## Inventory

| Component | State | Operations | Interacts with |
|---|---|---|---|
| Follower pool, `src/cluster_handler.rs` | `followers` (name, node index, connection index → connection), `follower_history`, `last_node_id` | `sync_followers`, `next_follower_conn` | sync task, `execute`, connections |
| Leader pool, `src/cluster_handler.rs` | `leader_conns`, `leader_host`, `last_leader_id` | `sync_leader`, `next_leader_conn` | sync task, `execute`, connections |
| Sync task, `src/cluster_handler.rs` | `syncing`, two intervals | `sync_task`, `sync_with_cluster` | topology discovery, both pools |
| Request execution, `src/cluster_handler.rs` | locals of each call | `execute` | pools, connection, demux map |
| Node connection, `src/connection.rs` | send channel, `corr_id`, `closed` | `connect`, read and write loop, `send_raw`, `next_corr_id` | demux map, node |
| Demux map, `src/demux.rs` | correlation id → (sender, time) | `store`, `load_remove`, `cleanup` | `execute`, read loop, pools |
| TCP server, `src/tcp_server.rs` | `active_connections`, close channel, a buffer and clocks per handler | `run`, `handle_connection` | routers, `execute`, cancellation |
| Frames, `src/protocol.rs` | the buffers of handlers and connections | `try_decode_router`, `find_next_router_magic`, `drain_frame_async`, `build_error_response` | server, read loop |
| Topology discovery, `src/topology.rs` | `known_node_ids` | `discover`, probes, voting | sync task, nodes' HTTP API, RzID, RzPoint |
| RzID client, `src/rzid.rs` | heartbeat task | `run_heartbeat_task`, `fetch_shard_nodes` | RzID, discovery, cancellation |
| Resolver, `src/resolver.rs` | none | `resolve`, with retries | RzPoint, discovery |
| Start and shutdown, `src/lib.rs`, `src/main.rs` | cancellation token, tasks | `async_main`, `main` | everything |
| Health and metrics, `src/api.rs`, `src/metrics.rs` | the recorder, counters | `run_api_server`, `Metrics::new` | start and shutdown |
| Configuration, errors | plain data | | |

What is hard here and hard to test:

* two locks, taken in different orders by the refill and by the readers;
* a refill that counts under one lock, connects without any and inserts under
  another, while connections close and readers remove them;
* node indexes that are recycled over changing topologies;
* requests that share connections, told apart by a correlation id, with
  retries, clean-ups by other requests and answers that come late;
* connections that fail before, while or after a frame is sent;
* slots that must be given back once on each of nine ways out of a handler;
* frames cut into chunks anywhere, and a resync that may start inside a payload;
* a topology put together from separate requests while roles change;
* cancellation at any point of the start, while frames are buffered or executing
  and while the sync task is stuck.

`PROJECT.json` lists each of these at its line, with the properties about it.

## Modules

| Module | Models | Extended by |
|---|---|---|
| `FollowerPool` | `sync_followers`, `next_follower_conn`, both locks | `FollowerReads` |
| `FollowerReads` | the same with history variables: connections open during a whole call, calls left alone | `MCFollowerPool`, `FollowerPoolProofs` |
| `LeaderPool` | `sync_leader`, `next_leader_conn` | `MCLeaderPool`, `LeaderPoolProofs` |
| `ClusterHandler` | `sync_task`, `sync_with_cluster`, and both pools (instances of `FollowerPool` and `LeaderPool`) over the task and the mutex they share | `MCClusterHandler`, `ClusterHandlerProofs` |
| `RequestPath` | `execute`, `Connection`, `DemuxMap`, an abstract pool | `MCRequestPath`, `RequestPathProofs` |
| `RequestReply` | what `execute` promises: the abstract specification of `RequestPath` | instantiated by `RequestPath` |
| `TcpServer` | `run`, `handle_connection` | `MCTcpServer`, `TcpServerProofs` |
| `Frames` | decoding and building of frames, as functions of bytes | `FrameStream` |
| `FrameStream` | the two buffers that frames are taken from, the resync | `MCFrameStream`, `FramesProofs` |
| `TopologyDiscovery` | `discover`, its probes and votes, `resolve`, `fetch_shard_nodes` | `MCTopologyDiscovery`, `TopologyProofs` |
| `Bridge` | `async_main`, `main`, the heartbeat, the API server, the tasks of connections to nodes, shutdown | `MCBridge`, `BridgeProofs` |

`PROJECT.json` maps each definition to its lines. Definitions whose names begin
with `Mutant` are no part of the models: they are wrong versions of the definition
after them, each of which breaks the property it is listed with.

**FollowerPool.** A step runs from one `await` that can really wait to the next.
`lb` and `mapLock` hold the owner of the load balancer's mutex and of the map's
write lock, and waiting is a disabled step. `spc` is where `sync_followers` is:
`SyncBegin` counts what is missing, `SyncConnect` connects (any part may fail),
`SyncLock` takes the map, `SyncReadHistory` the mutex, `SyncPlace` handles one
node of the `for` loop, `SyncInsert` one connection. A reader is at `pick` (before
the mutex) or `scan` (with the mutex, waiting for the map). Hash maps iterate in
any order, so "the first entry found" is any entry. `ConnCloses` is the
environment: a connection's task ends. Locals are reset when a call ends. Nothing
is capped: topologies come from `SUBSET Node` at each sync. `FollowerReads` adds,
for each call of `next_follower_conn`, the connections that were pooled and open all
along (`steady`), and whether the round it makes through the indexes was left
`alone`: it began with indexes without a gap, and neither another call moved
`last_node_id` nor a node joined the history since.

**LeaderPool.** `sync_leader` is `SyncBegin`, `ResetSlots` (leader changed),
`SnapshotSlots`, and per slot `FillSlot` or `FillFails`. `next_leader_conn` holds
both locks to its end, and is one step. Its `take()` of a closed slot
(`src/cluster_handler.rs:399`) acts on a temporary and changes nothing.

**RequestPath.** A frame or a demux entry is `<<connection, id, request>>`. `pc`
goes `idle`, `pick`, `send`, `wait`, then `ok` or `err`. `reply` is the oneshot
channel: pending, dropped, empty (from `cleanup`), or the request that is
answered, so that a mixed-up answer is visible. Correlation ids are the counter
modulo `IdSpace` (2^32 in the code). The pool is abstract: a pick returns some open
pooled connection or none, and may meet closed ones, which are cleaned up and (for
followers) removed. The node is external: it carries out what it gets, in any
order, or never. A failed write may or may not have reached it. `OtherCall` is a
call of `execute` by someone else on the same connection: it takes an id and is not
followed further (bound: `OtherIds`). The read loop's
special error handling (`src/connection.rs:88-104`) is in `Frames`; here it could
only end the loop, which `ReadFails` does at any time. `RequestReply` knows neither
connections nor ids: a request is handed over at most once, carried out at most
once, and returns its own answer, an empty one, or an error that means it was not
handed over. `KeepsPromise` maps `RequestPath` to it.

**ClusterHandler.** `FollowerPool` and `LeaderPool` are instances over the
variables of this module. The sync task is in one of them at a time (`task`), reads
are those of `FollowerPool`, and a write waits for the mutex `lb` before its single
step. `FastTick` and `CheckFollowers` are two steps, since the second waits for the
map. Discovery is any leader with any set of other nodes, which is what
`RolesDisjoint` in `TopologyDiscovery` says of it. The `syncing` flag is left out:
`sync_with_cluster` has one caller, which awaits it.

**TcpServer.** The selects of the accept loop and of the close-channel task are not
biased: after the cancellation they may still take another branch, until
`StopServing` and `StopReaping`. A buffer is a sequence of items: complete frames by
kind, undecodable garbage, a stray header (a magic byte that heads no frame, with
what reads as a length behind it), and the beginning of an item at the end. A stray
header claims the `StraySpan` items behind it; until they have arrived the handler
waits, with whole requests in its buffer, and then it is taken for a frame, too
large, or skipped. `Read` appends any of the sequences in `Chunk`. Every exit is the
operator `Exit`. Time passes in `Tick`s; clocks saturate above the longest timeout
(`Cap`), where no comparison can tell values apart.

**Frames, FrameStream.** Frames are sequences of bytes, decoded as the code does:
lengths are four bytes, little endian, and the order of the checks is the code's.
`Utf8`, the byte sequences that are valid strings, is a parameter. `FrameStream`
lets a stream arrive in chunks of any size. Its reference is `FramesOf`, which reads
the whole stream at once; `Pieces`, sequences of whole frames and of garbage without
a magic byte, are the streams `GarbageSkipped` speaks of. On the router side an
error skips to the next magic byte; on the shard side it ends the read loop. The
limits on buffer and frame size are those of `TcpServer`, whose items stand for the
results here.

**TopologyDiscovery.** A probe is `ProbeHealth`, then `ProbeInfo` (with `/peers`),
for each node in any order, since the probes run concurrently; between them nodes
may go, come back and change leader (`NodeMoves`, `NodeTurns`), until `Settle` makes
the cluster `calm`. A node in `Joining` may answer `/healthz` with something other
than the roles the code knows. `resolve` is its outcome after three tries. Ties in
the vote are broken in any way, as the code iterates a hash map. The shard, RzPoint
and RzID are external.

**Bridge.** One variable per task, and `main` for `async_main`. Each step that can
fail may. A connection to a node has a read and a write task; a sync opens it, and
neither task knows of the cancellation. The write task holds a sender of the channel
it waits for, so it ends over a frame that cannot be written, or with the runtime. A
handler that has read goes through its whole buffer (`drain`, `execute`) before it
looks at the token again. Where `async_main` is `embedded` in another program, as in
the tests, the runtime outlives it, and the recorder may be there already.

## Runs

All passing runs take between a few seconds and two and a half minutes.

| Run | Instance | Shows |
|---|---|---|
| `follower` | 2 nodes, 2 connections each, 1 reader | `TypeOK`, `FreeIdsSuffice`, `OneIndexPerNode`, `LoneReadFindsOpen`, `OpenConnsKept` |
| `leader` | 2 hosts, 3 slots, 2 writers, fair | `TypeOK`, `SlotsPointAtLeader`, `FillsOnlyUnusable`, `WriteFindsOpenSlot`, `ClosedSlotsReplaced` |
| `cluster` | 2 nodes, 1 connection each, 1 reader, 1 writer, fair | refinement `FollowerPoolKept`, `LeaderPoolKept`; `OnlyDeadlockStopsSync`, `OnlyDeadlockStopsCalls`, `EmptyPoolNoticed` |
| `request_safety` | 2 requests, 2 connections, 7 ids, channel of 1 | `TypeOK`, `ResponseIsOwn`, `AtMostOnce`, `ErrorMeansNotExecuted`, `ResponseFindsEntry`; refinement `KeepsPromise` |
| `request_liveness` | 2 requests and other callers, 1 connection, 2 ids, channel of 1, fair | `AnsweredUnlessClosed`, `LoopSettles` |
| `server` | 3 clients, limit 2, fair | `SlotsAccounted`, `LimitHolds`, `HeldFramesLeave`, `ShutdownEnds` |
| `frames` | streams of good, broken and cut-off frames and garbage, in all chunkings, fair | `ChunkIndependent`, `GarbageBounded`, `SlicesInRange`, `GarbageSkipped`, `DrainEnds` |
| `topology` | 3 nodes, 1 change of the cluster before it is calm, fair | `RolesDisjoint`, `SeedsKept`, `Converges`, `AttemptEnds` |
| `bridge` | 2 clients, 1 connection to a node, fair | `ReadyMeansBound`, `ProcessEnds`, `TokenHoldersEnd`, `HeartbeatGoesOn` |

*Bounds.* Two nodes with two connections each are the least in which a node is
partly pooled while another is refilled, and in which a node that lost its
connections could be given a second index. One reader is enough for
`LoneReadFindsOpen`, which is about calls that others leave alone; the proof has any
number. The composition has one connection per node, since it asks about locks and
about the hand-over from one pool to the other. Two requests share one connection or
use two, one of which replaces the other; with three attempts each, seven ids are
never used up, so that `NoWrap` holds throughout `request_safety`. In
`request_liveness` there are two ids, so that both requests can be on the connection
at once with ids of their own, and other callers make the counter come round, so
that entries are overwritten and channels dropped. Three clients compete for two
slots; `MaxBuffer` is three items and a stray header claims two, so that a request
can wait behind one, and a buffer can overflow with a complete frame in it; both
timeouts are one tick, which lets each come first. Garbage is cut at 5 bytes to 2
instead of at 64 to 8, so that short streams reach the cut. Among the responses of
`frames` are some whose bytes the read loop's special error handling takes for an
error, alone and among others, so that every branch of it is reached. In `topology`
one change (`MaxMoves`) and any wrong or missing answer before the cluster is calm
leave known nodes of every kind behind: dead, incomplete or none; one node can be
`Joining`. The pools, the request path's safety, the server's and the buffers'
invariants and the roles are proved for all values besides, and so are the bounds on
the loops.

*Deadlock* is checked in `leader` and `topology`. The other systems can stop for
good reasons (a request is over, connections are used up, the process has ended) or
for the reason that `cluster_deadlock` shows, and these runs switch it off.

*Fairness.* `ClusterHandler!FairSpec`: lock waiters are served in turn (tokio's
locks are first come, first served) and started calls run on, so a step of the sync
task, a read or a write that is enabled again and again is taken: strong fairness.
`RequestPath!FairSpec` lets calls and read tasks run on (weak fairness), and time.
That a pick returns presumes that its locks are not caught in the deadlock of
`cluster_deadlock`. `NodesAnswerSpec` adds that nodes read what is sent to them and
answer, which is an assumption about them: `write_all` has no timeout, and behind a
node that stops reading a full channel holds its senders for ever.
`LeaderPool!FairSpec` assumes that the sync task calls `sync_leader` again, which
holds unless the task is caught in the deadlock (`OnlyDeadlockStopsSync`), and that
a node that is tried again and again can be reached. `TcpServer!FairSpec` assumes
that handlers run on, that time passes and idle timers fire, and that the accept loop
sees the cancellation; nothing is assumed of the peers or of `execute`, which is why
`ShutdownEnds` leaves out handlers inside it.
`FrameStream!FairSpec`: draining does not wait for anything.
`TopologyDiscovery!FairSpec`: discovery runs on, as every request has a timeout.
`Bridge!FairSpec`: `async_main` runs on, intervals tick and HTTP requests time out
(weak fairness); a select picks among its ready branches at random, so that it does
not pass over a cancellation for ever (strong fairness of the steps that see it).
Nothing is assumed of `execute` or of a sync.

## Where code and documentation disagree

Each of these is a run that TLC ends with a counterexample.

* `cluster_deadlock`: `next_follower_conn` takes the mutex, then the map;
  `sync_followers` takes the map, then the mutex. Both can wait for ever. Writes use
  neither followers nor the map, but they need the mutex and wait with them.
  `OnlyDeadlockStopsSync` and `OnlyDeadlockStopsCalls` show that nothing else in the
  handler has such an effect. Proved for all constants: the deadlock is final
  (`DeadlockIsFinal`) and the only one (`NoOtherDeadlock`).
* `follower_missed`: the highest free index is given out first, but readers look
  below the number of history entries only. With two followers, of which one can be
  connected, reads find none.
* `request_hangs`: nothing ends the wait of a request whose connection was lost,
  except a clean-up by a later request that meets the connection in the pool. That
  clean-up (`src/demux.rs:50`) makes the request succeed with an empty response.
  Once the connection has left the pool nothing can (`LostRequestsHang`, proved).
  `LostRequestEnds` puts together what three places say: `src/config.rs:71`,
  "Request timeout in seconds"; `src/cluster_handler.rs:145`, "In-flight requests on
  them will fail and be retried by `execute`."; and `src/cluster_handler.rs:483`,
  "oneshot dropped → timeout / connection closed". A leader change drops only the
  pool's references: requests on the old connections are answered by the old leader
  (`AnsweredUnlessClosed`) or, if the connection is lost, never. That no sender is
  dropped by a lost connection is also why `AtMostOnce` and `ErrorMeansNotExecuted`
  hold: dropping it, as the comments have it, would send a write again that may have
  been carried out (the mutant `MutantReadFailsWakes` breaks `AtMostOnce`).

What else the models show to be as it is, without a run of its own:

* a node that left the topology, or became leader, stays in the follower pool and is
  topped up (`FollowerPool!SyncBegin` counts what is missing for it too);
* indexes come from `0..followers.len()`; nodes that left keep theirs, so a new node
  may get none, and its connections are dropped (`FollowerPool!SyncPlace`);
* `last_node_id` is shared by all reads, so a read can be moved past an index by
  others and miss an open connection there (`LoneReadFindsOpen` is about calls that
  are left alone);
* garbage with a magic byte in it can be taken for the head of a frame, and the
  frames behind it for its body; `ChunkIndependent` fixes what is lost, not that
  nothing is, and `HeldFramesLeave` says that they do not wait for ever;
* the write task of a connection to a node outlives the connection, and in an
  embedding program the bridge;
* the frame timeout counts from the last complete frame, so a peer that was quiet
  for longer is cut off at the first bytes of its next one (`src/config.rs:94`);
* the leader is elected by a plurality of the answers, not by the majority of which
  `src/topology.rs:255` speaks; `Converges` shows that this does not last;
* no response ever makes the read loop close the connection: the special error
  handling applies payload offsets to the whole frame (theorem `NoResponseCloses`);
* an error response says that its field has 4 bytes, where 7 follow
  (`src/protocol.rs:230`); the frame around it is well formed;
* the heartbeat announces the bridge before its listener is bound, and, in an
  embedding program, after its start has failed.

## Proofs

The eight `*Proofs` modules are checked by tlapm to the last leaf. Each has an
inductive invariant, one case per action, and reads the theorems off it. Every
invariant and every refinement that a run checks is proved. Of the
liveness properties, the part that is not about fairness is proved where it says
most: what bounds the loop, or why the state reached stays.

**FollowerPoolProofs** (from `ConnPerNode > 0` and finitely many nodes):
`TypeOK`, `OneIndexPerNode`, `FreeIdsSuffice`, `OpenConnsKept`,
`LoneReadFindsOpen`. `OneIndexPerNode` is not inductive by itself: an index is chosen
from `assigned`, a copy of the history made earlier, so `Assigned` says that the
copy still contains the history, has one index per node, and contains the place
being filled. `FreeIdsSuffice` rests on `Counted`: pooled, made and about to be
inserted connections of a node are at most `ConnPerNode` together. Readers
only lower that sum. `FillsFree` says that no open connection uses an index about
to be filled, which gives `OpenConnsKept`. The cardinality facts (the `m` smallest
elements are at most `m`; the indexes in use are at most the keys) are lemmas.
`LoneReadsFind` needs `Round`: in a call left alone, the indexes that are still to
come before the count is used up (`Ahead`) include that of every connection which
was open all along. A pick moves `last_node_id` to the first of them
(`RoundPicks`); the scan of that index ends the call if one of its connections is
open, and otherwise leaves the index behind (`RoundScans`). At the
end none is ahead, so none was open. `HistoryCoversPool` supplies that every pooled
node has an entry.
`ReadsAreBounded` and `SyncIsBounded` give both operations a measure that each of
their steps lowers and no step of anybody else raises: the iterations left; the
stages, then the nodes without a place, then the connections to insert.

**LeaderPoolProofs**: `TypeOK`, `SlotsPointAtLeader`, `FillsOnlyUnusable`,
`WriteFindsOpenSlot`. The strengthening: from the snapshot on `leader_host` is the
host being connected. `ProbeCovers` says that the rotating scan reaches every
slot, `ProbeLast` that it comes to the slot used last at the end. So the scan finds
an open slot, and another one than last time if there is another (`WritesRotate`).

**ClusterHandlerProofs**: `FollowerPoolKept` and `LeaderPoolKept`, for all nodes,
readers and writers. Every step of the handler is a step of each pool or leaves it
alone; the invariant `FoundOK` types the topology handed to `sync_followers`.
With them the safety theorems about the pools hold of the whole handler, under the
pools' assumptions. `DeadlockIsFinal` goes through all steps: with both locks taken
and the refill waiting for the mutex (`TaskInv`: it is the sync task that does) only
connections close and writes begin to wait. `NoOtherDeadlock` reads off `LockInv`
who holds a lock, and what for: two locks taken are the deadlock, unless the refill
has nothing more to insert.

**RequestPathProofs**: `TypeOK`, `ResponseIsOwn`, `AtMostOnce`,
`ErrorMeansNotExecuted`, `ResponseFindsEntry`. The invariant says, while no
connection has used up its ids, that ids in use are below the counter, that a
request has at most one frame beyond `send` and it is that of its last attempt,
that frames have their entries unless the connection closed, and that a channel
holds nothing but its own answer. `PromiseKept` is the refinement of
`RequestReply`, under `[]NoWrap`: each step maps to a step or a stutter.
`CallsAreBounded`: `StepsLeft`, four for each attempt, bounds a call by 16
steps, with or without `NoWrap`. `LostRequestsHang` needs no assumption on ids
either: a connection that is neither pooled nor read from is never met again.

**TcpServerProofs** (from finitely many clients): `SlotsAccounted` and
`LimitHolds`, from the sum kept by every exit and every accept; `TypeOK`, for all
chunks and limits.
`ShutdownIsBounded`: after the cancellation nothing is read, so the length of a
handler's buffer and its place in the loop only go down.

**FramesProofs**: once there is a result for the bytes received, more bytes do not
change it (`RouterDecodeStable`, `ShardDecodeStable`); `NoResponseCloses`; what
`build_error_response` builds is read back (`ErrorResponseReadsBack`, correlation
ids of four bytes); `SlicesInRange` and `GarbageBounded` from `StreamInv`, for all
streams and resync limits.

* `ChunkIndependent` (`ChunkingIsInvisible`) compares the frames taken with
  `FramesOf`, which knows no chunks. It is not inductive: that the frames so far are
  those of the bytes so far says nothing of the bytes to come. `ChunkInv` therefore
  says, for every continuation of the stream, that the frames of what arrived and
  the continuation are the frames taken, followed by those of the buffer and the
  continuation. Taking a frame keeps that by the stability of decoding, a resync
  because no frame begins where there is no magic byte, and the cut of garbage
  likewise.
* `FramesOf` is a recursive function over positions. Induction over data is done
  with the library's theorem that a set of naturals has a least element: `Least` and
  `Highest` name the least and the highest counterexample. `CollectDef` shows that
  the recursive definition has a solution, from the positions it looks at being
  further on each time.
* `FrameInFront` and `NoiseInFront` say what one piece in front does, and with them
  `GarbageSkipped` (`GarbageNeverSwallowsFrames`) follows piece by piece, for streams
  of any number of pieces (`PiecesAssumption`: pieces are whole frames, or garbage
  without a magic byte).
* `DrainShrinks`: the length of the buffer bounds the drain loop.

**TopologyProofs** (from finitely many nodes with distinct hosts): `TypeOK`,
`RolesDisjoint` (only `Succeed` sets the topology, and a node has one role in it),
`SeedsKept`. The argument behind `Converges`: `CleanAttempt` says that all answers
of an attempt so far are those of the calm cluster. An attempt that begins after
`Settle` is clean, stays clean, and ends with the real leader and followers, or, on
known seeds of which none can be reached, goes on to RzID (`CalmAttemptsFindTruth`);
what it has found stays (`TruthStays`). `AttemptsAreBounded` orders the phases of an
attempt, and within one the probes.

**BridgeProofs**: `ReadyMeansBound`, from `StartOrder`: the API task exists only
once the listener is bound. `EndIsFinal`: without the runtime there is no task, and
there never will be one. `NothingReadAfterEnd`: once a cancelled `async_main` has
returned, no task of its own is spawned, nothing is accepted or read, and a handler at
most goes through what it has. Frames are sent by such handlers only, and a write task
ends over a frame only.

Only model-checked: the liveness properties themselves (`ClosedSlotsReplaced`,
`AnsweredUnlessClosed`, `LoopSettles`, `HeldFramesLeave`, `ShutdownEnds`,
`OnlyDeadlockStopsSync`, `OnlyDeadlockStopsCalls`, `EmptyPoolNoticed`, `DrainEnds`,
`Converges`, `AttemptEnds`, `ProcessEnds`, `TokenHoldersEnd`, `HeartbeatGoesOn`),
since TLAPS does not handle fairness and `ENABLED`. That the measures above are used
up because the steps are taken is what these runs add. The three violations are
found by TLC; two of them are explained by theorems, as said above.

## Not modelled

* Configuration and error types: plain data. Limits and timeouts are constants of
  the modules; an error is an outcome of the action that returns it.
* The metrics' counters: the bridge writes them and never reads them.
* HTTP, JSON and URLs of the RzID, RzPoint and node clients: requests are their
  outcomes.
* Logging, command line, thread counts, and what the runtime does for name look-ups
  in its blocking pool when it is dropped.
* `Connection::send` has no caller, and `Connection::close` none in the pools.
