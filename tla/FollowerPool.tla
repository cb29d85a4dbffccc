---------------------------- MODULE FollowerPool ----------------------------
(***************************************************************************)
(* The follower side of ClusterHandler (src/src/cluster_handler.rs): the   *)
(* map `followers` from (node name, node index, connection index) to a     *)
(* connection, the load balancer's `follower_history`, the task that       *)
(* refills the map (sync_followers) and the readers that take connections  *)
(* from it (next_follower_conn).  A step runs from one await to the next.  *)
(* The load-balancer mutex and the map's lock are variables that name      *)
(* their owner, so that waiting for a lock is a disabled step.             *)
(***************************************************************************)
EXTENDS Integers, FiniteSets

CONSTANTS
  Node,          \* host names of the shard's nodes
  Reader,        \* concurrent read requests calling next_follower_conn
  ConnPerNode,   \* cfg.conn_per_roomzin_node
  Sync,          \* the sync task, as a lock owner
  Free           \* "nobody", as a lock owner

ASSUME ConnPerNodeAssumption == ConnPerNode \in Nat \ {0}
ASSUME NodeAssumption == IsFiniteSet(Node)
ASSUME OwnerAssumption == Sync \notin Reader /\ Free \notin Reader /\ Sync # Free

VARIABLES
  followers,   \* keys <<name, node index, connection index>> of the map
  closed,      \* the keys whose connection reports is_closed()
  history,     \* follower_history: <<name, node index>> -> next connection index
  last,        \* last_node_id
  lb,          \* owner of the load_balancer mutex
  mapLock,     \* owner of the write lock of `followers`
  spc,         \* where sync_followers is
  topo,        \* its argument: the followers of the discovered topology
  conns,       \* required_conns, then new_conns: connections per node
  freeIdx,     \* free_node_ids
  assigned,    \* new_assigned_node_ids, as pairs <<name, node index>>
  place,       \* the <<name, node index>> whose new connections are inserted
  fill,        \* connection indexes that are still to be inserted there
  rpc,         \* where each reader is in next_follower_conn
  left,        \* iterations of its loop that are left
  target       \* the history entry it is looking at

syncVars == <<spc, topo, conns, freeIdx, assigned, place, fill>>
readVars == <<rpc, left, target>>
vars == <<followers, closed, history, last, lb, mapLock, syncVars, readVars>>

ConnIdx == 0 .. ConnPerNode - 1
KeysOf(n) == {k \in followers : k[1] = n}
Open == followers \ closed
NodesIn(keys) == {k[1] : k \in keys}
Key(p, c) == <<p[1], p[2], c>>
NoPlace == <<>>

Init ==
  /\ followers = {} /\ closed = {} /\ history = <<>> /\ last = 0
  /\ lb = Free /\ mapLock = Free
  /\ spc = "idle" /\ topo = {} /\ conns = [n \in Node |-> 0]
  /\ freeIdx = {} /\ assigned = {} /\ place = NoPlace /\ fill = {}
  /\ rpc = [r \in Reader |-> "idle"]
  /\ left = [r \in Reader |-> 0]
  /\ target = [r \in Reader |-> NoPlace]

-----------------------------------------------------------------------------
(* sync_followers                                                          *)

MutantTopsUpFully(fs) ==
  [n \in Node |-> IF n \in fs \cup NodesIn(followers) THEN ConnPerNode ELSE 0]

\* How many connections each node lacks.  A closed connection that is still
\* in the map counts as present, and a node of the map is topped up whether or
\* not the discovered topology still lists it.
Required(fs) ==
  [n \in Node |-> IF n \in fs \cup NodesIn(followers)
                  THEN ConnPerNode - Cardinality(KeysOf(n)) ELSE 0]

SyncBegin(fs) ==
  /\ spc = "idle" /\ mapLock = Free
  /\ topo' = fs
  /\ conns' = Required(fs)
  /\ spc' = "connect"
  /\ UNCHANGED <<followers, closed, history, last, lb, mapLock, freeIdx,
                 assigned, place, fill, readVars>>

\* Connection::connect for every missing connection; some of them fail.
SyncConnect ==
  /\ spc = "connect"
  /\ \E got \in [Node -> 0 .. ConnPerNode] :
        /\ \A n \in Node : got[n] <= conns[n]
        /\ conns' = got
  /\ spc' = "lock"
  /\ UNCHANGED <<followers, closed, history, last, lb, mapLock, topo, freeIdx,
                 assigned, place, fill, readVars>>

\* Takes the map's write lock and lists the node indexes nobody uses.
SyncLock ==
  /\ spc = "lock" /\ mapLock = Free
  /\ mapLock' = Sync
  /\ freeIdx' = {i \in 0 .. Cardinality(topo) - 1 : \A k \in followers : k[2] # i}
  /\ spc' = "assign"
  /\ UNCHANGED <<followers, closed, history, last, lb, topo, conns, assigned,
                 place, fill, readVars>>

\* Copies the indexes in follower_history, for which it needs the load
\* balancer's mutex while it holds the map's lock.
SyncReadHistory ==
  /\ spc = "assign" /\ lb = Free
  /\ assigned' = DOMAIN history
  /\ spc' = "insert"
  /\ UNCHANGED <<followers, closed, history, last, lb, mapLock, topo, conns,
                 freeIdx, place, fill, readVars>>

MutantAllFree(n) == ConnIdx

\* The connection indexes of node n that no open connection uses.
FreeConnIdx(n) == {c \in ConnIdx : \A k \in KeysOf(n) \cap Open : k[3] # c}

Smallest(S, m) == {x \in S : Cardinality({y \in S : y < x}) < m}

\* The index of the first map entry of n, or 0 when there is none.
PooledIdx(n) == IF KeysOf(n) = {} THEN {0} ELSE {k[2] : k \in KeysOf(n)}

MutantForgetsHistory(n) == {}

KnownIdx(n) == {p[2] : p \in {q \in assigned : q[1] = n}}

\* Chooses the node index of n, and the connection indexes for its new
\* connections; without a node index the new connections are dropped.
SyncPlace(n) ==
  /\ spc = "insert" /\ fill = {} /\ conns[n] > 0
  /\ conns' = [conns EXCEPT ![n] = 0]
  /\ \E i \in PooledIdx(n) :
        \/ /\ \/ /\ i # 0
                 /\ place' = <<n, i>>
              \/ /\ i = 0
                 /\ \E j \in KnownIdx(n) : place' = <<n, j>>
           /\ fill' = Smallest(FreeConnIdx(n), conns[n])
           /\ UNCHANGED <<freeIdx, assigned>>
        \/ /\ i = 0 /\ KnownIdx(n) = {} /\ freeIdx # {}
           /\ \E j \in freeIdx :
                 /\ \A x \in freeIdx : x <= j
                 /\ place' = <<n, j>>
                 /\ freeIdx' = freeIdx \ {j}
                 /\ assigned' = assigned \cup {<<n, j>>}
           /\ fill' = Smallest(FreeConnIdx(n), conns[n])
        \/ /\ i = 0 /\ KnownIdx(n) = {} /\ freeIdx = {}
           /\ UNCHANGED <<freeIdx, assigned, place, fill>>
  /\ UNCHANGED <<followers, closed, history, last, lb, mapLock, spc, topo,
                 readVars>>

\* Inserts one connection and, under the load balancer's mutex, gives the
\* node a history entry unless it has one.  The map changes before the wait for
\* the mutex, but nobody can look at it meanwhile: sync holds its lock.
SyncInsert ==
  /\ spc = "insert" /\ fill # {} /\ lb = Free
  /\ \E c \in fill :
        /\ \A d \in fill : c <= d
        /\ followers' = followers \cup {Key(place, c)}
        /\ closed' = closed \ {Key(place, c)}
        /\ history' = [p \in DOMAIN history \cup {place} |->
                         IF p \in DOMAIN history THEN history[p] ELSE c]
        /\ fill' = fill \ {c}
  /\ UNCHANGED <<last, lb, mapLock, spc, topo, conns, freeIdx, assigned, place,
                 readVars>>

SyncDone ==
  /\ spc = "insert" /\ fill = {} /\ \A n \in Node : conns[n] = 0
  /\ mapLock' = Free
  /\ spc' = "idle"
  /\ topo' = {} /\ place' = NoPlace /\ freeIdx' = {} /\ assigned' = {}
  /\ UNCHANGED <<followers, closed, history, last, lb, conns, fill, readVars>>

-----------------------------------------------------------------------------
(* next_follower_conn                                                      *)

Calling(r) == rpc[r] \in {"pick", "scan"}

\* Reads the length of the history, which bounds the loop.
ReadBegin(r) ==
  /\ ~Calling(r) /\ lb = Free
  /\ LET len == Cardinality(DOMAIN history)
     IN  /\ left' = [left EXCEPT ![r] = len]
         /\ rpc' = [rpc EXCEPT ![r] = IF len = 0 THEN "none" ELSE "pick"]
  /\ UNCHANGED <<followers, closed, history, last, lb, mapLock, syncVars, target>>

NextIteration(r) ==
  /\ left' = [left EXCEPT ![r] = @ - 1]
  /\ rpc' = [rpc EXCEPT ![r] = IF left[r] = 1 THEN "none" ELSE "pick"]

MutantNextNodeIdx ==
  IF last + 1 > Cardinality(DOMAIN history) THEN 0 ELSE last + 1

NextNodeIdx ==
  IF last + 1 >= Cardinality(DOMAIN history) THEN 0 ELSE last + 1

\* Takes the mutex and moves on to the next node index.  An entry with that
\* index, whichever the hash map yields first, keeps the mutex taken.
PickNode(r) ==
  /\ rpc[r] = "pick" /\ lb = Free
  /\ last' = NextNodeIdx
  /\ LET found == {p \in DOMAIN history : p[2] = NextNodeIdx}
     IN  \/ /\ found = {}
            /\ NextIteration(r)
            /\ UNCHANGED <<lb, target>>
         \/ \E p \in found :
              /\ target' = [target EXCEPT ![r] = p]
              /\ lb' = r
              /\ rpc' = [rpc EXCEPT ![r] = "scan"]
              /\ UNCHANGED left
  /\ UNCHANGED <<followers, closed, history, mapLock, syncVars>>

\* The connection index tried after d steps from index s.
Rotate(s, d) == IF s + d >= ConnPerNode THEN s + d - ConnPerNode ELSE s + d

KeyAt(p, d) == Key(p, Rotate(history[p], d))

MutantNoWrap(c) == c + 1

\* The connection index to start from next time, after c was used.
Advance(c) == (c + 1) % ConnPerNode

\* Takes the map's write lock, still holding the mutex; goes through the
\* node's connections, removes the closed ones it meets and stops at the first
\* open one.
ScanConns(r) ==
  /\ rpc[r] = "scan" /\ mapLock = Free
  /\ LET p == target[r]
         hits == {d \in ConnIdx : KeyAt(p, d) \in Open}
         met == {d \in ConnIdx : \A h \in hits : d < h}
     IN  /\ followers' = followers \ {KeyAt(p, d) : d \in met}
         /\ closed' = closed \ {KeyAt(p, d) : d \in met}
         /\ \/ /\ hits = {}
               /\ NextIteration(r)
               /\ UNCHANGED <<history, last>>
            \/ \E h \in hits :
                 /\ \A d \in hits : h <= d
                 /\ last' = p[2]
                 /\ history' = [history EXCEPT ![p] = Advance(Rotate(@, h))]
                 /\ rpc' = [rpc EXCEPT ![r] = "some"]
                 /\ left' = [left EXCEPT ![r] = 0]
  /\ lb' = Free
  /\ target' = [target EXCEPT ![r] = NoPlace]
  /\ UNCHANGED <<mapLock, syncVars>>

-----------------------------------------------------------------------------
\* The connection's read or write task ends (external: the socket fails).
ConnCloses(k) ==
  /\ k \in Open
  /\ closed' = closed \cup {k}
  /\ UNCHANGED <<followers, history, last, lb, mapLock, syncVars, readVars>>

SyncStep ==
  \/ SyncConnect \/ SyncLock \/ SyncReadHistory \/ SyncInsert \/ SyncDone
  \/ \E n \in Node : SyncPlace(n)

ReadStep(r) == PickNode(r) \/ ScanConns(r)

Next ==
  \/ \E fs \in SUBSET Node : SyncBegin(fs)
  \/ SyncStep
  \/ \E r \in Reader : ReadBegin(r) \/ ReadStep(r)
  \/ \E k \in followers : ConnCloses(k)

Spec == Init /\ [][Next]_vars

-----------------------------------------------------------------------------
(* Properties                                                              *)

Place == Node \X Nat

\* The state of the pool, of sync_followers and of next_follower_conn has its
\* type; in particular the rotating counters stay below conn_per_roomzin_node.
TypeOK ==
  /\ followers \subseteq Node \X Nat \X ConnIdx
  /\ closed \subseteq followers
  /\ DOMAIN history \subseteq Place /\ history \in [DOMAIN history -> ConnIdx]
  /\ last \in Nat
  /\ lb \in Reader \cup {Free} /\ mapLock \in {Sync, Free}
  /\ spc \in {"idle", "connect", "lock", "assign", "insert"}
  /\ topo \subseteq Node
  /\ conns \in [Node -> 0 .. ConnPerNode]
  /\ freeIdx \subseteq Nat
  /\ assigned \subseteq Place
  /\ place \in Place \cup {NoPlace} /\ (fill # {} => place \in Place)
  /\ fill \subseteq ConnIdx
  /\ rpc \in [Reader -> {"idle", "pick", "scan", "some", "none"}]
  /\ left \in [Reader -> Nat] /\ \A r \in Reader : Calling(r) => left[r] > 0
  /\ target \in [Reader -> Place \cup {NoPlace}]

\* A node never has two indexes: sync_followers gives a node that lost all its
\* connections the index it had before, whatever was removed meanwhile, so the
\* balancer never visits one node twice per round.
OneIndexPerNode ==
  \A p, q \in DOMAIN history : p[1] = q[1] => p = q

\* The indexing free_conn_ids[i] never panics: the connections were counted
\* before the connects, under another lock, and there must still be as many
\* free indexes when they are inserted.  Nor does the usize subtraction that
\* counts the missing connections underflow.
FreeIdsSuffice ==
  /\ \A n \in Node : Cardinality(KeysOf(n)) <= ConnPerNode
  /\ (spc = "insert" /\ fill = {}) =>
        \A n \in Node : conns[n] <= Cardinality(FreeConnIdx(n))

KeepsOpen ==
  \A k \in Open :
     /\ k \in followers'
     /\ ~(k[3] \in fill \ fill' /\ place = <<k[1], k[2]>>)

\* An open connection leaves the map only after it has closed: a scan does not
\* remove it and sync_followers does not insert another one over it.
OpenConnsKept == [][KeepsOpen]_vars

=============================================================================
