----------------------------- MODULE LeaderPool -----------------------------
(***************************************************************************)
(* The leader side of ClusterHandler (src/src/cluster_handler.rs): the     *)
(* vector leader_conns, refilled by sync_leader, and the write requests    *)
(* that take a connection from it (next_leader_conn).                      *)
(*                                                                         *)
(* next_leader_conn is one step: it holds the load balancer's mutex and    *)
(* the vector's lock throughout, and a connection that closes meanwhile    *)
(* might as well have closed before.                                       *)
(***************************************************************************)
EXTENDS Integers, FiniteSets

CONSTANTS
  Host,          \* the hosts that can be reported as leader
  Writer,        \* concurrent write requests
  ConnPerNode,   \* cfg.conn_per_roomzin_node
  None           \* no host, no slot

ASSUME LeaderConnAssumption == ConnPerNode \in Nat \ {0}
ASSUME NoneAssumption == None \notin Host /\ None \notin Nat

VARIABLES
  slot,         \* leader_conns: the host each slot is connected to, or None
  closed,       \* the slots whose connection reports is_closed()
  leaderHost,   \* leader_host
  lastLeader,   \* last_leader_id
  lpc,          \* where sync_leader is
  newHost,      \* its argument
  todo,         \* required_vec: the slots that are still to be connected
  picked        \* what each writer's last next_leader_conn returned

syncVars == <<lpc, newHost, todo>>
vars == <<slot, closed, leaderHost, lastLeader, syncVars, picked>>

Slot == 0 .. ConnPerNode - 1
Open == {i \in Slot : slot[i] # None /\ i \notin closed}

Init ==
  /\ slot = [i \in Slot |-> None] /\ closed = {}
  /\ leaderHost = None /\ lastLeader = 0
  /\ lpc = "idle" /\ newHost = None /\ todo = {}
  /\ picked = [w \in Writer |-> None]

-----------------------------------------------------------------------------
(* sync_leader                                                             *)

SyncBegin(h) ==
  /\ lpc = "idle"
  /\ newHost' = h
  /\ lpc' = IF leaderHost = h THEN "snapshot" ELSE "reset"
  /\ UNCHANGED <<slot, closed, leaderHost, lastLeader, todo, picked>>

MutantKeepsOldSlots ==
  /\ lpc = "reset"
  /\ leaderHost' = newHost
  /\ lpc' = "snapshot"
  /\ UNCHANGED <<slot, closed, lastLeader, newHost, todo, picked>>

\* The leader changed: every slot is emptied, then the host is stored.  Only
\* sync_leader reads leader_host, so nothing can tell the two apart.
ResetSlots ==
  /\ lpc = "reset"
  /\ slot' = [i \in Slot |-> None] /\ closed' = {}
  /\ leaderHost' = newHost
  /\ lpc' = "snapshot"
  /\ UNCHANGED <<lastLeader, newHost, todo, picked>>

MutantAllSlots == Slot

MutantOnlyEmpty == {i \in Slot : slot[i] = None}

EmptyOrClosed == {i \in Slot : slot[i] = None \/ i \in closed}

SnapshotSlots ==
  /\ lpc = "snapshot"
  /\ todo' = EmptyOrClosed
  /\ lpc' = "fill"
  /\ UNCHANGED <<slot, closed, leaderHost, lastLeader, newHost, picked>>

IsFirst(i) == i \in todo /\ \A j \in todo : i <= j

FillSlot(i) ==
  /\ lpc = "fill" /\ IsFirst(i)
  /\ slot' = [slot EXCEPT ![i] = newHost] /\ closed' = closed \ {i}
  /\ leaderHost' = newHost
  /\ todo' = todo \ {i}
  /\ UNCHANGED <<lastLeader, lpc, newHost, picked>>

\* Connection::connect fails: the slot is left as it is.
FillFails(i) ==
  /\ lpc = "fill" /\ IsFirst(i)
  /\ todo' = todo \ {i}
  /\ UNCHANGED <<slot, closed, leaderHost, lastLeader, lpc, newHost, picked>>

SyncDone ==
  /\ lpc = "fill" /\ todo = {}
  /\ lpc' = "idle" /\ newHost' = None
  /\ UNCHANGED <<slot, closed, leaderHost, lastLeader, todo, picked>>

-----------------------------------------------------------------------------
(* next_leader_conn                                                        *)

MutantRunsOff(d) == lastLeader + 1 + d

\* The slot tried after d others: the scan starts after the slot that was used
\* last, and wraps around.
Wrap(i) == IF i >= ConnPerNode THEN 0 ELSE i
Probe(d) == LET first == Wrap(lastLeader + 1)
            IN  IF first + d >= ConnPerNode THEN first + d - ConnPerNode ELSE first + d

MutantStoresNext(w) ==
  LET hits == {d \in Slot : Probe(d) \in Open}
  IN  /\ \E h \in hits :
           /\ \A d \in hits : h <= d
           /\ lastLeader' = Probe(h) + 1
           /\ picked' = [picked EXCEPT ![w] = Probe(h)]
      /\ UNCHANGED <<slot, closed, leaderHost, syncVars>>

\* The first open connection met; closed ones stay in their slots (the take()
\* in the code acts on a temporary).
NextLeaderConn(w) ==
  LET hits == {d \in Slot : Probe(d) \in Open}
  IN  /\ \/ /\ hits = {}
            /\ picked' = [picked EXCEPT ![w] = None]
            /\ UNCHANGED lastLeader
         \/ \E h \in hits :
              /\ \A d \in hits : h <= d
              /\ lastLeader' = Probe(h)
              /\ picked' = [picked EXCEPT ![w] = Probe(h)]
      /\ UNCHANGED <<slot, closed, leaderHost, syncVars>>

\* The connection's read or write task ends (external: the socket fails).
ConnCloses(i) ==
  /\ i \in Open
  /\ closed' = closed \cup {i}
  /\ UNCHANGED <<slot, leaderHost, lastLeader, syncVars, picked>>

-----------------------------------------------------------------------------
Next ==
  \/ \E h \in Host : SyncBegin(h)
  \/ ResetSlots \/ SnapshotSlots \/ SyncDone
  \/ \E i \in Slot : FillSlot(i) \/ FillFails(i) \/ ConnCloses(i)
  \/ \E w \in Writer : NextLeaderConn(w)

Spec == Init /\ [][Next]_vars

\* sync_task calls sync_leader again and again (the slow interval), each call
\* runs on, and a node that is tried again and again is reached again and again.
FairSpec ==
  /\ Spec
  /\ WF_vars(\E h \in Host : SyncBegin(h))
  /\ WF_vars(ResetSlots) /\ WF_vars(SnapshotSlots) /\ WF_vars(SyncDone)
  /\ WF_vars(\E i \in Slot : FillSlot(i) \/ FillFails(i))
  /\ \A i \in Slot : SF_vars(FillSlot(i))

-----------------------------------------------------------------------------
(* Properties                                                              *)

\* The state of the leader pool has its type.
TypeOK ==
  /\ slot \in [Slot -> Host \cup {None}]
  /\ closed \subseteq {i \in Slot : slot[i] # None}
  /\ leaderHost \in Host \cup {None} /\ newHost \in Host \cup {None}
  /\ lastLeader \in Slot
  /\ lpc \in {"idle", "reset", "snapshot", "fill"}
  /\ (lpc # "idle" => newHost \in Host)
  /\ todo \subseteq Slot
  /\ picked \in [Writer -> Slot \cup {None}]

\* A leader change leaves no connection to the old leader in the pool: whatever
\* sync_leader has done so far, and whatever fails, every occupied slot is
\* connected to leader_host.
SlotsPointAtLeader ==
  \A i \in Slot : slot[i] # None => slot[i] = leaderHost

\* sync_leader never throws away a usable connection to an unchanged leader:
\* the slots it is about to fill were closed or empty at the snapshot, and still
\* are.
FillsOnlyUnusable == todo \cap Open = {}

FindsOpenSlot ==
  \A w \in Writer : NextLeaderConn(w) =>
     IF Open = {} THEN picked'[w] = None ELSE picked'[w] \in Open

\* A write finds an open leader connection whenever there is one, wherever the
\* rotating start is, and is only turned away when there is none.
WriteFindsOpenSlot == [][FindsOpenSlot]_vars

\* A leader connection that has closed is replaced: sync_leader counts closed
\* slots as missing, so no slot stays closed forever.
ClosedSlotsReplaced == \A i \in Slot : (i \in closed) ~> (i \notin closed)

=============================================================================
