-------------------------- MODULE LeaderPoolProofs --------------------------
(***************************************************************************)
(* Proofs about LeaderPool, for any hosts, writers and number of slots.    *)
(***************************************************************************)
EXTENDS LeaderPool, TLAPS

\* SlotsPointAtLeader is inductive only with what the steps of one sync_leader
\* know of each other: from the snapshot on leader_host is the host that is
\* being connected, and slots are only listed while they are filled.
Leading ==
  /\ lpc \in {"snapshot", "fill"} => leaderHost = newHost
  /\ lpc # "fill" => todo = {}

IInv == TypeOK /\ SlotsPointAtLeader /\ FillsOnlyUnusable /\ Leading

LEMMA ProbeType == ASSUME TypeOK, NEW d \in Slot PROVE Probe(d) \in Slot
  <1>1. lastLeader \in Slot
    BY DEF TypeOK
  <1> QED  BY <1>1, LeaderConnAssumption DEF Probe, Wrap, Slot

\* Every slot is probed: the scan misses none, wherever it starts.
LEMMA ProbeCovers ==
  ASSUME TypeOK, NEW i \in Slot PROVE \E d \in Slot : Probe(d) = i
  <1> DEFINE first == Wrap(lastLeader + 1)
             d == IF i >= first THEN i - first ELSE i - first + ConnPerNode
  <1>1. first \in Slot
    <2>1. lastLeader \in Slot
      BY DEF TypeOK
    <2> QED  BY <2>1, LeaderConnAssumption DEF Wrap, Slot
  <1>2. d \in Slot
    <2> HIDE DEF first
    <2> QED  BY <1>1, LeaderConnAssumption DEF Slot
  <1>3. Probe(d) = i
    <2>1. Probe(d) = IF first + d >= ConnPerNode THEN first + d - ConnPerNode ELSE first + d
      BY DEF Probe
    <2> HIDE DEF first
    <2> QED  BY <1>1, <2>1, LeaderConnAssumption DEF Slot
  <1> QED  BY <1>2, <1>3

LEMMA Step == IInv /\ [Next]_vars => IInv'
  <1> SUFFICES ASSUME IInv, [Next]_vars PROVE IInv'
      OBVIOUS
  <1> USE NoneAssumption DEF IInv
  <1>1. ASSUME NEW h \in Host, SyncBegin(h) PROVE IInv'
    BY <1>1 DEF SyncBegin, TypeOK, SlotsPointAtLeader, FillsOnlyUnusable, Leading, Open
  <1>2. CASE ResetSlots
    BY <1>2 DEF ResetSlots, TypeOK, SlotsPointAtLeader, FillsOnlyUnusable, Leading, Open
  <1>3. CASE SnapshotSlots
    BY <1>3 DEF SnapshotSlots, EmptyOrClosed, TypeOK, SlotsPointAtLeader,
                FillsOnlyUnusable, Leading, Open
  <1>4. CASE SyncDone
    BY <1>4 DEF SyncDone, TypeOK, SlotsPointAtLeader, FillsOnlyUnusable, Leading, Open
  <1>5. ASSUME NEW i \in Slot, FillSlot(i) PROVE IInv'
    BY <1>5 DEF FillSlot, IsFirst, TypeOK, SlotsPointAtLeader, FillsOnlyUnusable,
                Leading, Open
  <1>6. ASSUME NEW i \in Slot, FillFails(i) PROVE IInv'
    BY <1>6 DEF FillFails, TypeOK, SlotsPointAtLeader, FillsOnlyUnusable, Leading, Open
  <1>7. ASSUME NEW i \in Slot, ConnCloses(i) PROVE IInv'
    BY <1>7 DEF ConnCloses, syncVars, TypeOK, SlotsPointAtLeader, FillsOnlyUnusable,
                Leading, Open
  <1>8. ASSUME NEW w \in Writer, NextLeaderConn(w) PROVE IInv'
    <2>1. lastLeader' \in Slot /\ picked' \in [Writer -> Slot \cup {None}]
      BY <1>8, ProbeType DEF NextLeaderConn, TypeOK
    <2>2. UNCHANGED <<slot, closed, leaderHost, syncVars>>
      BY <1>8 DEF NextLeaderConn
    <2> QED
      BY <2>1, <2>2 DEF syncVars, TypeOK, SlotsPointAtLeader, FillsOnlyUnusable,
                        Leading, Open
  <1>9. CASE UNCHANGED vars
    BY <1>9 DEF vars, syncVars, TypeOK, SlotsPointAtLeader, FillsOnlyUnusable,
                Leading, Open
  <1> QED
    BY <1>1, <1>2, <1>3, <1>4, <1>5, <1>6, <1>7, <1>8, <1>9 DEF Next

\* The inductive invariant of sync_leader and next_leader_conn.
THEOREM Invariance == Spec => []IInv
  <1>1. Init => IInv
    BY LeaderConnAssumption
       DEF Init, IInv, TypeOK, Slot, SlotsPointAtLeader, FillsOnlyUnusable, Leading
  <1> QED  BY <1>1, Step, PTL DEF Spec

\* The state of the leader pool has its type; last_leader_id stays in range.
THEOREM TypeCorrect == Spec => []TypeOK
  <1>1. IInv => TypeOK
    BY DEF IInv
  <1> QED  BY <1>1, Invariance, PTL

\* No slot of leader_conns is ever connected to another host than leader_host.
THEOREM NoSlotAtOldLeader == Spec => []SlotsPointAtLeader
  <1>1. IInv => SlotsPointAtLeader
    BY DEF IInv
  <1> QED  BY <1>1, Invariance, PTL

\* sync_leader never overwrites an open connection.
THEOREM UsableSlotsKept == Spec => []FillsOnlyUnusable
  <1>1. IInv => FillsOnlyUnusable
    BY DEF IInv
  <1> QED  BY <1>1, Invariance, PTL

\* next_leader_conn returns an open connection whenever there is one.
THEOREM WritesFindOpenSlots == Spec => WriteFindsOpenSlot
  <1>1. IInv /\ [Next]_vars => [FindsOpenSlot]_vars
    <2> SUFFICES ASSUME IInv, NEW w \in Writer, NextLeaderConn(w)
                 PROVE  IF Open = {} THEN picked'[w] = None ELSE picked'[w] \in Open
        BY DEF FindsOpenSlot
    <2>1. picked \in [Writer -> Slot \cup {None}] /\ TypeOK
      BY DEF IInv, TypeOK
    <2>2. (\E d \in Slot : Probe(d) \in Open) <=> Open # {}
      <3>1. Open \subseteq Slot
        BY DEF Open
      <3> QED  BY <2>1, <3>1, ProbeCovers
    <2> QED  BY <2>1, <2>2 DEF NextLeaderConn
  <1> QED  BY <1>1, Invariance, PTL DEF Spec, WriteFindsOpenSlot

\* The slot that was used last is the last one to be tried again.
LEMMA ProbeLast ==
  ASSUME lastLeader \in Slot, NEW d \in Slot
  PROVE  Probe(d) = lastLeader <=> d = ConnPerNode - 1
  BY LeaderConnAssumption DEF Slot, Probe, Wrap

\* A call leaves the slot that was used last alone while another one is open.
RotatesOn ==
  \A w \in Writer : NextLeaderConn(w) /\ (\E i \in Open : i # lastLeader) =>
     picked'[w] \in Open \ {lastLeader}

\* Writes are spread: no two calls of next_leader_conn in a row return the same
\* connection while there is another open one, whatever sync_leader fills or
\* empties between them.
THEOREM WritesRotate == Spec => [][RotatesOn]_vars
  <1>1. IInv /\ [Next]_vars => [RotatesOn]_vars
    <2> SUFFICES ASSUME IInv, NEW w \in Writer, NextLeaderConn(w),
                        NEW i \in Open, i # lastLeader
                 PROVE  picked'[w] \in Open \ {lastLeader}
        BY DEF RotatesOn
    <2>1. picked \in [Writer -> Slot \cup {None}] /\ lastLeader \in Slot /\ TypeOK
      BY DEF IInv, TypeOK
    <2>2. i \in Slot
      BY DEF Open
    <2>3. PICK d \in Slot : Probe(d) = i
      BY <2>1, <2>2, ProbeCovers
    <2>4. PICK h \in Slot : /\ Probe(h) \in Open /\ h <= d
                            /\ picked' = [picked EXCEPT ![w] = Probe(h)]
      BY <2>3 DEF NextLeaderConn
    <2>5. d # ConnPerNode - 1
      BY <2>1, <2>3, ProbeLast
    <2>6. h # ConnPerNode - 1
      BY <2>4, <2>5, LeaderConnAssumption DEF Slot
    <2>7. Probe(h) # lastLeader
      BY <2>1, <2>6, ProbeLast
    <2> QED  BY <2>1, <2>4, <2>7
  <1> QED  BY <1>1, Invariance, PTL DEF Spec

=============================================================================
