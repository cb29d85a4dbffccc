------------------------ MODULE ClusterHandlerProofs ------------------------
(***************************************************************************)
(* ClusterHandler implements both of its pools, for any number of nodes,   *)
(* requests and connections: what is proved of the pools holds in it.      *)
(***************************************************************************)
EXTENDS ClusterHandler, TLAPS

\* The followers handed from the discovery to sync_followers are nodes.
FoundOK == found \subseteq Node

\* Only the discovery and sync_followers touch `found`.
LEMMA FoundInv == Spec => []FoundOK
<1>1. Init => FoundOK
  BY DEF Init, FoundOK
<1>2. FoundOK /\ [Next]_vars => FoundOK'
  BY DEF FoundOK, Next, TaskStep, vars, taskVars, Cancelled, FastTick,
     CheckFollowers, SlowTick, Discovered, DiscoverFails, SyncLeader,
     SyncFollowers, Refill, ReadBegin, ReadStep, WriteBegin, WriteStep,
     FollowerConnCloses, LeaderConnCloses
<1> QED
  BY <1>1, <1>2, PTL DEF Spec

\* Every step of the handler is a step of the follower pool or leaves it alone.
LEMMA FollowerStep == FoundOK /\ [Next]_vars => [F!Next]_(F!vars)
<1> SUFFICES ASSUME FoundOK, [Next]_vars
             PROVE  F!Next \/ UNCHANGED F!vars
  OBVIOUS
<1>0. UNCHANGED followerVars => UNCHANGED F!vars
  BY DEF followerVars, F!vars, F!syncVars, F!readVars
<1>1. CASE Cancelled \/ FastTick \/ CheckFollowers \/ SlowTick \/ Discovered
           \/ DiscoverFails \/ SyncLeader
  BY <1>0, <1>1 DEF Cancelled, FastTick, CheckFollowers, SlowTick, Discovered,
     DiscoverFails, SyncLeader
<1>2. CASE SyncFollowers
  BY <1>2 DEF SyncFollowers, FoundOK, F!Next
<1>3. CASE Refill
  BY <1>3 DEF Refill, F!Next
<1>4. ASSUME NEW r \in Reader, ReadBegin(r) \/ ReadStep(r) PROVE F!Next
  BY <1>4 DEF ReadBegin, ReadStep, F!Next
<1>5. ASSUME NEW w \in Writer, WriteBegin(w) \/ WriteStep(w) PROVE UNCHANGED F!vars
  BY <1>0, <1>5 DEF WriteBegin, WriteStep
<1>6. CASE FollowerConnCloses
  BY <1>6 DEF FollowerConnCloses, F!Next
<1>7. CASE LeaderConnCloses
  BY <1>0, <1>7 DEF LeaderConnCloses
<1>8. CASE UNCHANGED vars
  BY <1>0, <1>8 DEF vars
<1> QED
  BY <1>1, <1>2, <1>3, <1>4, <1>5, <1>6, <1>7, <1>8 DEF Next, TaskStep

\* Every step of the handler is a step of the leader pool or leaves it alone.
LEMMA LeaderStep == [Next]_vars => [L!Next]_(L!vars)
<1> SUFFICES ASSUME [Next]_vars PROVE L!Next \/ UNCHANGED L!vars
  OBVIOUS
<1>0. UNCHANGED leaderVars => UNCHANGED L!vars
  BY DEF leaderVars, L!vars, L!syncVars
<1>1. CASE Cancelled \/ FastTick \/ CheckFollowers \/ SlowTick \/ DiscoverFails
           \/ SyncFollowers \/ Refill
  BY <1>0, <1>1 DEF Cancelled, FastTick, CheckFollowers, SlowTick,
     DiscoverFails, SyncFollowers, Refill
<1>2. CASE Discovered
  BY <1>2 DEF Discovered, L!Next
<1>3. CASE SyncLeader
  BY <1>3 DEF SyncLeader, FillStep, L!Next
<1>4. ASSUME NEW r \in Reader, ReadBegin(r) \/ ReadStep(r) PROVE UNCHANGED L!vars
  BY <1>0, <1>4 DEF ReadBegin, ReadStep
<1>5. ASSUME NEW w \in Writer, WriteBegin(w) \/ WriteStep(w)
      PROVE  L!Next \/ UNCHANGED L!vars
  BY <1>0, <1>5 DEF WriteBegin, WriteStep, L!Next
<1>6. CASE FollowerConnCloses
  BY <1>0, <1>6 DEF FollowerConnCloses
<1>7. CASE LeaderConnCloses
  BY <1>7 DEF LeaderConnCloses, L!Next
<1>8. CASE UNCHANGED vars
  BY <1>0, <1>8 DEF vars
<1> QED
  BY <1>1, <1>2, <1>3, <1>4, <1>5, <1>6, <1>7, <1>8 DEF Next, TaskStep

\* The handler implements FollowerPool: sync_task calls sync_followers one at a
\* time with followers that are nodes, and nothing else touches that pool.
THEOREM ImplementsFollowerPool == Spec => FollowerPoolKept
<1>1. Init => F!Init
  BY DEF Init
<1> QED
  BY <1>1, FoundInv, FollowerStep, PTL DEF Spec, FollowerPoolKept, F!Spec

\* The handler implements LeaderPool.
THEOREM ImplementsLeaderPool == Spec => LeaderPoolKept
<1>1. Init => L!Init
  BY DEF Init
<1> QED
  BY <1>1, LeaderStep, PTL DEF Spec, LeaderPoolKept, L!Spec

-----------------------------------------------------------------------------
\* The sync task is in sync_followers exactly while that runs, and connections
\* are inserted only at its end.
TaskInv ==
  /\ spc # "idle" => task = "refill"
  /\ fill # {} => spc = "insert"

\* TaskInv holds in every state.
LEMMA TaskInvariance == Spec => []TaskInv
<1>1. Init => TaskInv
  BY DEF Init, F!Init, TaskInv
<1>2. TaskInv /\ [Next]_vars => TaskInv'
  <2> SUFFICES ASSUME TaskInv, [Next]_vars PROVE TaskInv'
    OBVIOUS
  <2>1. CASE Cancelled \/ FastTick \/ CheckFollowers \/ SlowTick \/ Discovered
             \/ DiscoverFails \/ SyncLeader
    BY <2>1 DEF TaskInv, Cancelled, FastTick, CheckFollowers, SlowTick, Discovered,
       DiscoverFails, SyncLeader, followerVars
  <2>2. CASE SyncFollowers
    BY <2>2 DEF TaskInv, SyncFollowers, F!SyncBegin
  <2>3. CASE Refill
    <3>1. fill' # {} => spc' = "insert"
      BY <2>3 DEF TaskInv, Refill, F!SyncStep, F!SyncConnect, F!SyncLock, F!SyncReadHistory,
         F!SyncInsert, F!SyncDone, F!SyncPlace
    <3> QED
      BY <2>3, <3>1 DEF TaskInv, Refill
  <2>4. ASSUME NEW r \in Reader, ReadBegin(r) \/ ReadStep(r) PROVE TaskInv'
    BY <2>4 DEF TaskInv, ReadBegin, ReadStep, F!ReadBegin, F!ReadStep, F!PickNode,
       F!ScanConns, F!syncVars, taskVars
  <2>5. ASSUME NEW w \in Writer, WriteBegin(w) \/ WriteStep(w) PROVE TaskInv'
    BY <2>5 DEF TaskInv, WriteBegin, WriteStep, followerVars, taskVars
  <2>6. CASE FollowerConnCloses \/ LeaderConnCloses
    BY <2>6 DEF TaskInv, FollowerConnCloses, LeaderConnCloses, F!ConnCloses, F!syncVars,
       followerVars, taskVars
  <2>7. CASE UNCHANGED vars
    BY <2>7 DEF TaskInv, vars, followerVars, taskVars
  <2> QED
    BY <2>1, <2>2, <2>3, <2>4, <2>5, <2>6, <2>7 DEF Next, TaskStep
<1> QED
  BY <1>1, <1>2, PTL DEF Spec

\* Once stuck, both pools, the refill and the reads stay as they are, the
\* sync task never comes back to its select, and no write is answered.
NothingMoves ==
  /\ UNCHANGED <<followers, history, last, lb, mapLock, F!syncVars, F!readVars, taskVars,
                 slot, leaderHost, lastLeader>>
  /\ \A w \in Writer : wpc[w] = "call" => wpc'[w] = "call"

StaysStuck == Stuck => Stuck' /\ NothingMoves

\* In the deadlock only connections close and writes begin to wait.
LEMMA StuckStep == TaskInv /\ [Next]_vars => StaysStuck
<1> SUFFICES ASSUME TaskInv, [Next]_vars, Stuck PROVE Stuck' /\ NothingMoves
  BY DEF StaysStuck
<1>1. lb # Free /\ mapLock # Free /\ (spc = "assign" \/ (spc = "insert" /\ fill # {}))
  BY OwnerAssumption DEF Stuck, TaskInv
<1>2. task = "refill"
  BY <1>1 DEF TaskInv
<1>3. ~TaskStep /\ ~Cancelled
  <2>1. ~F!SyncStep
    BY <1>1 DEF F!SyncStep, F!SyncConnect, F!SyncLock, F!SyncReadHistory, F!SyncInsert,
       F!SyncDone, F!SyncPlace
  <2> QED
    BY <1>2, <2>1 DEF TaskStep, Cancelled, FastTick, CheckFollowers, SlowTick, Discovered,
       DiscoverFails, SyncLeader, SyncFollowers, Refill
<1>4. \A r \in Reader : ~ReadBegin(r) /\ ~ReadStep(r)
  BY <1>1 DEF ReadBegin, ReadStep, F!ReadBegin, F!ReadStep, F!PickNode, F!ScanConns
<1>5. \A w \in Writer : ~WriteStep(w)
  BY <1>1 DEF WriteStep
<1>6. ASSUME NEW w \in Writer, WriteBegin(w) PROVE Stuck' /\ NothingMoves
  <2>1. UNCHANGED <<followerVars, leaderVars, taskVars>> /\ wpc[w] # "call"
        /\ wpc' = [wpc EXCEPT ![w] = "call"]
    BY <1>6 DEF WriteBegin
  <2>2. \A v \in Writer : wpc[v] = "call" => wpc'[v] = "call"
    BY <2>1
  <2> QED
    BY <2>1, <2>2 DEF Stuck, NothingMoves, followerVars, leaderVars, F!syncVars, F!readVars
<1>7. CASE FollowerConnCloses
  BY <1>7 DEF FollowerConnCloses, F!ConnCloses, Stuck, NothingMoves, leaderVars,
     F!syncVars, F!readVars
<1>8. CASE LeaderConnCloses
  BY <1>8 DEF LeaderConnCloses, L!ConnCloses, Stuck, NothingMoves, followerVars,
     F!syncVars, F!readVars, L!syncVars
<1>9. CASE UNCHANGED vars
  BY <1>9 DEF vars, Stuck, NothingMoves, followerVars, leaderVars, F!syncVars, F!readVars
<1> QED
  BY <1>3, <1>4, <1>5, <1>6, <1>7, <1>8, <1>9 DEF Next

\* The deadlock of a read and the refill is final, for any number of nodes,
\* requests and connections: the two locks are never given back, no read or
\* write is served again and the sync task is lost.
THEOREM DeadlockIsFinal == Spec => [](Stuck => []Stuck) /\ [][StaysStuck]_vars
<1>1. TaskInv /\ [Next]_vars => (Stuck => Stuck')
  BY StuckStep DEF StaysStuck
<1>2. TaskInv /\ [Next]_vars => [StaysStuck]_vars
  BY StuckStep
<1> QED
  BY <1>1, <1>2, TaskInvariance, PTL DEF Spec

\* Who holds the locks: a read that scans holds the mutex, and nobody else;
\* the refill holds the map from listing the free indexes to its end, and nobody
\* else across a step.
LockInv ==
  /\ rpc \in [Reader -> {"idle", "pick", "scan", "some", "none"}]
  /\ lb # Free => lb \in Reader /\ rpc[lb] = "scan"
  /\ \A r \in Reader : rpc[r] = "scan" => lb = r
  /\ mapLock # Free => mapLock = Sync /\ spc \in {"assign", "insert"}

\* Writes, sync_leader and the sync task's own checks never keep a lock.
LEMMA LocksAlone ==
  ASSUME LockInv, UNCHANGED <<lb, mapLock, spc, rpc>>
  PROVE  LockInv'
  BY DEF LockInv

\* LockInv holds in every state.
LEMMA LockInvariance == Spec => []LockInv
<1>1. Init => LockInv
  BY DEF Init, F!Init, LockInv
<1>2. LockInv /\ [Next]_vars => LockInv'
  <2> SUFFICES ASSUME LockInv, [Next]_vars PROVE LockInv'
    OBVIOUS
  <2>1. CASE Cancelled \/ FastTick \/ CheckFollowers \/ SlowTick \/ Discovered
             \/ DiscoverFails \/ SyncLeader
    BY <2>1, LocksAlone DEF Cancelled, FastTick, CheckFollowers, SlowTick, Discovered,
       DiscoverFails, SyncLeader, followerVars
  <2>2. CASE SyncFollowers
    BY <2>2 DEF LockInv, SyncFollowers, F!SyncBegin, F!readVars
  <2>3. CASE Refill
    BY <2>3 DEF LockInv, Refill, F!SyncStep, F!SyncConnect, F!SyncLock, F!SyncReadHistory,
       F!SyncInsert, F!SyncDone, F!SyncPlace, F!readVars
  <2>4. ASSUME NEW r \in Reader, F!ReadBegin(r) PROVE LockInv'
    <3>1. /\ rpc[r] # "scan" /\ lb = Free /\ UNCHANGED <<lb, mapLock, spc>>
          /\ \E v \in {"none", "pick"} : rpc' = [rpc EXCEPT ![r] = v]
      BY <2>4 DEF F!ReadBegin, F!Calling, F!syncVars
    <3> QED
      BY <3>1 DEF LockInv
  <2>5. ASSUME NEW r \in Reader, F!PickNode(r) PROVE LockInv'
    <3>1. /\ lb = Free /\ UNCHANGED <<mapLock, spc>>
          /\ \/ lb' = lb /\ \E v \in {"none", "pick"} : rpc' = [rpc EXCEPT ![r] = v]
             \/ lb' = r /\ rpc' = [rpc EXCEPT ![r] = "scan"]
      BY <2>5 DEF F!PickNode, F!NextIteration, F!syncVars
    <3> QED
      BY <3>1, OwnerAssumption DEF LockInv
  <2>6. ASSUME NEW r \in Reader, F!ScanConns(r) PROVE LockInv'
    <3>1. /\ rpc[r] = "scan" /\ lb' = Free /\ UNCHANGED <<mapLock, spc>>
          /\ \E v \in {"none", "pick", "some"} : rpc' = [rpc EXCEPT ![r] = v]
      BY <2>6 DEF F!ScanConns, F!NextIteration, F!syncVars
    <3>2. \A q \in Reader : rpc[q] = "scan" => q = r
      BY <3>1 DEF LockInv
    <3> QED
      BY <3>1, <3>2 DEF LockInv
  <2>7. ASSUME NEW w \in Writer, WriteBegin(w) \/ WriteStep(w) PROVE LockInv'
    BY <2>7, LocksAlone DEF WriteBegin, WriteStep, followerVars
  <2>8. CASE FollowerConnCloses \/ LeaderConnCloses
    BY <2>8, LocksAlone DEF FollowerConnCloses, LeaderConnCloses, F!ConnCloses,
       F!syncVars, F!readVars, followerVars
  <2>9. CASE UNCHANGED vars
    BY <2>9, LocksAlone DEF vars, followerVars
  <2> QED
    BY <2>1, <2>2, <2>3, <2>4, <2>5, <2>6, <2>7, <2>8, <2>9
    DEF Next, TaskStep, ReadBegin, ReadStep, F!ReadStep
<1> QED
  BY <1>1, <1>2, PTL DEF Spec

\* Whoever holds a lock goes on without the other one, or it is the deadlock: a
\* read that holds the mutex waits for the map only, the refill that holds the
\* map waits for the mutex only, and both at once is Stuck.
OnlyOneDeadlock ==
  /\ lb # Free => lb \in Reader /\ rpc[lb] = "scan"
  /\ mapLock # Free => task = "refill" /\ spc \in {"assign", "insert"}
  /\ lb # Free /\ mapLock # Free => Stuck \/ (spc = "insert" /\ fill = {})

\* There is no other way for the locks to be held against each other, for any
\* number of requests: what makes OnlyDeadlockStopsSync and
\* OnlyDeadlockStopsCalls true.
THEOREM NoOtherDeadlock == Spec => []OnlyOneDeadlock
<1>1. LockInv /\ TaskInv => OnlyOneDeadlock
  BY DEF LockInv, TaskInv, OnlyOneDeadlock, Stuck
<1> QED
  BY <1>1, LockInvariance, TaskInvariance, PTL

=============================================================================
