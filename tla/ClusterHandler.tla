--------------------------- MODULE ClusterHandler ---------------------------
(***************************************************************************)
(* ClusterHandler (src/src/cluster_handler.rs) as a whole: sync_task, which *)
(* discovers the topology and has sync_leader and sync_followers refill    *)
(* the two pools, and the requests that take connections from them.  The   *)
(* pools are the components FollowerPool and LeaderPool; they meet in the  *)
(* sync task, which is in one of them at a time, and in the mutex of the   *)
(* load balancer, which reads, writes and the refill all take.             *)
(***************************************************************************)
EXTENDS Integers, FiniteSets

CONSTANTS
  Node,          \* host names of the shard's nodes
  Reader,        \* concurrent read requests
  Writer,        \* concurrent write requests
  ConnPerNode,   \* cfg.conn_per_roomzin_node
  Sync, Free,    \* owners of locks: the sync task, nobody
  None           \* no host, no slot

ASSUME OwnerAssumption == Sync \notin Reader /\ Free \notin Reader /\ Sync # Free

VARIABLES
  followers, closed, history, last, lb, mapLock, spc, topo, conns, freeIdx,
  assigned, place, fill, rpc, left, target,          \* of FollowerPool
  slot, closedSlots, leaderHost, lastLeader, lpc, newHost, todo, picked,
                                                     \* of LeaderPool
  task,        \* where sync_task is
  sawLeader,   \* any_leader_cons
  found,       \* the followers of the discovered topology
  wpc          \* where each writer is

F == INSTANCE FollowerPool
L == INSTANCE LeaderPool WITH Host <- Node, closed <- closedSlots

followerVars ==
  <<followers, closed, history, last, lb, mapLock, spc, topo, conns, freeIdx,
    assigned, place, fill, rpc, left, target>>
leaderVars ==
  <<slot, closedSlots, leaderHost, lastLeader, lpc, newHost, todo, picked>>
taskVars == <<task, sawLeader, found>>
vars == <<followerVars, leaderVars, taskVars, wpc>>

Init ==
  /\ F!Init /\ L!Init
  /\ task = "wait" /\ sawLeader = FALSE /\ found = {}
  /\ wpc = [w \in Writer |-> "idle"]

-----------------------------------------------------------------------------
(* sync_task and sync_with_cluster                                         *)

\* select! saw the cancellation.
Cancelled ==
  /\ task = "wait" /\ task' = "ended"
  /\ UNCHANGED <<followerVars, leaderVars, sawLeader, found, wpc>>

\* The fast interval: is a leader connection open?
FastTick ==
  /\ task = "wait" /\ task' = "check"
  /\ sawLeader' = (L!Open # {})
  /\ UNCHANGED <<followerVars, leaderVars, found, wpc>>

MutantBothGone == ~sawLeader /\ F!Open = {}

SyncNeeded == ~sawLeader \/ F!Open = {}

\* Then, under the read lock of the map, is a follower connection open?
CheckFollowers ==
  /\ task = "check" /\ mapLock = Free
  /\ task' = IF SyncNeeded THEN "discover" ELSE "wait"
  /\ sawLeader' = FALSE
  /\ UNCHANGED <<followerVars, leaderVars, found, wpc>>

\* The slow interval.
SlowTick ==
  /\ task = "wait" /\ task' = "discover"
  /\ UNCHANGED <<followerVars, leaderVars, sawLeader, found, wpc>>

\* discover() returns a leader and followers, none of them the leader (see
\* RolesDisjoint in TopologyDiscovery); sync_leader begins.
Discovered ==
  /\ task = "discover"
  /\ \E h \in Node, fs \in SUBSET Node :
       /\ h \notin fs
       /\ L!SyncBegin(h)
       /\ found' = fs
  /\ task' = "leader"
  /\ UNCHANGED <<followerVars, sawLeader, wpc>>

MutantForgetsLeader ==
  /\ task = "discover" /\ task' = "wait"
  /\ leaderHost' = None
  /\ UNCHANGED <<followerVars, slot, closedSlots, lastLeader, lpc, newHost, todo,
                 picked, sawLeader, found, wpc>>

DiscoverFails ==
  /\ task = "discover" /\ task' = "wait"
  /\ UNCHANGED <<followerVars, leaderVars, sawLeader, found, wpc>>

FillStep == \E i \in L!Slot : L!FillSlot(i) \/ L!FillFails(i)

SyncLeader ==
  /\ task = "leader"
  /\ \/ (L!ResetSlots \/ L!SnapshotSlots \/ FillStep) /\ UNCHANGED task
     \/ L!SyncDone /\ task' = "followers"
  /\ UNCHANGED <<followerVars, sawLeader, found, wpc>>

SyncFollowers ==
  /\ task = "followers"
  /\ F!SyncBegin(found)
  /\ task' = "refill" /\ found' = {}
  /\ UNCHANGED <<leaderVars, sawLeader, wpc>>

MutantStaysSyncing ==
  /\ task = "refill"
  /\ F!SyncStep
  /\ UNCHANGED <<leaderVars, taskVars, wpc>>

Refill ==
  /\ task = "refill"
  /\ F!SyncStep
  /\ task' = IF spc' = "idle" THEN "wait" ELSE "refill"
  /\ UNCHANGED <<leaderVars, sawLeader, found, wpc>>

-----------------------------------------------------------------------------
(* Requests                                                                *)

ReadBegin(r) == F!ReadBegin(r) /\ UNCHANGED <<leaderVars, taskVars, wpc>>
ReadStep(r) == F!ReadStep(r) /\ UNCHANGED <<leaderVars, taskVars, wpc>>

WriteBegin(w) ==
  /\ wpc[w] = "idle" /\ wpc' = [wpc EXCEPT ![w] = "call"]
  /\ UNCHANGED <<followerVars, leaderVars, taskVars>>

MutantKeepsMutex(w) ==
  /\ wpc[w] = "call" /\ lb = Free
  /\ L!NextLeaderConn(w)
  /\ lb' = w
  /\ wpc' = [wpc EXCEPT ![w] = "idle"]
  /\ UNCHANGED <<followers, closed, history, last, mapLock, spc, topo, conns,
                 freeIdx, assigned, place, fill, rpc, left, target, taskVars>>

MutantWaitsForLeader(w) ==
  /\ wpc[w] = "call" /\ lb = Free
  /\ L!NextLeaderConn(w)
  /\ wpc' = [wpc EXCEPT ![w] = IF L!Open = {} THEN "call" ELSE "idle"]
  /\ UNCHANGED <<followerVars, taskVars>>

\* next_leader_conn takes the load balancer's mutex for all it does.
WriteStep(w) ==
  /\ wpc[w] = "call" /\ lb = Free
  /\ L!NextLeaderConn(w)
  /\ wpc' = [wpc EXCEPT ![w] = "idle"]
  /\ UNCHANGED <<followerVars, taskVars>>

FollowerConnCloses ==
  (\E k \in followers : F!ConnCloses(k)) /\ UNCHANGED <<leaderVars, taskVars, wpc>>
LeaderConnCloses ==
  (\E i \in L!Slot : L!ConnCloses(i)) /\ UNCHANGED <<followerVars, taskVars, wpc>>

-----------------------------------------------------------------------------
TaskStep ==
  \/ FastTick \/ CheckFollowers \/ SlowTick \/ Discovered \/ DiscoverFails
  \/ SyncLeader \/ SyncFollowers \/ Refill

Next ==
  \/ Cancelled \/ TaskStep
  \/ \E r \in Reader : ReadBegin(r) \/ ReadStep(r)
  \/ \E w \in Writer : WriteBegin(w) \/ WriteStep(w)
  \/ FollowerConnCloses \/ LeaderConnCloses

Spec == Init /\ [][Next]_vars

\* Tokio's locks are handed out in order of arrival and a started call runs
\* on; both intervals go on ticking.
FairSpec ==
  /\ Spec
  /\ SF_vars(TaskStep)
  /\ \A r \in Reader : SF_vars(ReadStep(r))
  /\ \A w \in Writer : SF_vars(WriteStep(w))

-----------------------------------------------------------------------------
(* Properties                                                              *)

\* What sync_task does is what FollowerPool assumes of its calls: followers
\* are refilled by one sync_followers at a time, and nothing that sync_leader or
\* a write does disturbs the follower pool or its locks.
FollowerPoolKept == F!Spec

\* Likewise for the leader pool: sync_leader is never entered twice, and
\* sync_followers and reads leave it alone.
LeaderPoolKept == L!Spec

\* A read holds the mutex and waits for the map, and the refill holds the
\* map and waits for the mutex.
Stuck ==
  /\ \E r \in Reader : lb = r /\ rpc[r] = "scan"
  /\ mapLock = Sync /\ (spc = "assign" \/ fill # {})

\* That deadlock is the only thing that keeps sync_task from coming back to
\* its select: no request, failed connect or closing connection does.
OnlyDeadlockStopsSync ==
  task \in {"check", "discover", "leader", "followers", "refill"} ~> task = "wait" \/ Stuck

\* Nor does anything else keep a read or a write waiting for ever.
OnlyDeadlockStopsCalls ==
  /\ \A r \in Reader : F!Calling(r) ~> ~F!Calling(r) \/ Stuck
  /\ \A w \in Writer : wpc[w] = "call" ~> wpc[w] = "idle" \/ Stuck

\* A pool that has lost all its leader connections, or all its follower
\* connections, is looked after by the fast interval: a discovery is tried.
EmptyPoolNoticed ==
  (L!Open = {} \/ F!Open = {}) ~>
     (L!Open # {} /\ F!Open # {}) \/ task \in {"discover", "ended"} \/ Stuck

-----------------------------------------------------------------------------
(* What the documentation says, and the code does not do                   *)

\* README.md:78, "Routes writes to the leader": a write gets its answer from
\* next_leader_conn.  (In the deadlock of a read and the refill it waits for the
\* mutex for ever.)
WritesServed == \A w \in Writer : wpc[w] = "call" ~> wpc[w] = "idle"

=============================================================================
