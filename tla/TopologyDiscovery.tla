------------------------- MODULE TopologyDiscovery --------------------------
(***************************************************************************)
(* TopologyDiscovery::discover (src/src/topology.rs): one attempt probes   *)
(* the known nodes and the peers they name, lets them vote for a leader,   *)
(* and falls back to the node list of RzID when that fails.  The nodes'    *)
(* HTTP interface, RzPoint and RzID are external: until `calm` nodes go    *)
(* up and down, change their leader and fail to answer at any moment,      *)
(* also between two requests of one probe.                                 *)
(***************************************************************************)
EXTENDS Integers, FiniteSets

CONSTANTS
  Node,     \* node ids of the shard
  HostOf,   \* the host that RzPoint gives for a node id
  Leader,   \* the leader of the calm cluster
  NoId,     \* the empty leader_id, and no host
  Joining,  \* the nodes that may be in neither role before it is calm
  MaxMoves  \* bound: the changes of the cluster before it is calm

ASSUME NodeAssumption == IsFiniteSet(Node) /\ Leader \in Node /\ NoId \notin Node
ASSUME MovesAssumption == MaxMoves \in Nat
ASSUME HostAssumption ==
  \A m, n \in Node : HostOf[m] # NoId /\ (HostOf[m] = HostOf[n] => m = n)

VARIABLES
  up,       \* the nodes that can be reached
  moves,    \* how often the cluster changed
  view,     \* the leader_id each node would report
  calm,     \* the cluster has settled
  known,    \* known_node_ids
  dpc,      \* where discover() is
  seeds,    \* seed_ids of the current discover_from_seeds
  fresh,    \* they come from RzID
  stage,    \* where the probe of each node is
  health,   \* what the node reported on /healthz
  vote,     \* what it reported as leader_id
  peers,    \* discovered_peers
  topo      \* the last topology returned

clusterVars == <<up, view, moves, calm>>
probeVars == <<stage, health, vote>>
vars == <<clusterVars, known, dpc, seeds, fresh, probeVars, peers, topo>>

NoTopo == [leader |-> NoId, followers |-> {}]

Probing(ids) ==
  /\ stage' = [n \in Node |-> IF n \in ids THEN "asked" ELSE "no"]
  /\ health' = [n \in Node |-> "none"]
  /\ vote' = [n \in Node |-> NoId]

\* async_main passes an empty initial_seed_ids.
Init ==
  /\ up = Node /\ moves = 0 /\ calm = FALSE
  /\ \E l \in Node \cup {NoId} : view = [n \in Node |-> l]
  /\ known = {} /\ dpc = "idle" /\ seeds = {} /\ fresh = FALSE
  /\ stage = [n \in Node |-> "no"] /\ health = [n \in Node |-> "none"]
  /\ vote = [n \in Node |-> NoId] /\ peers = {} /\ topo = NoTopo

-----------------------------------------------------------------------------
(* The shard, RzPoint and RzID (external)                                  *)

discoverVars == <<known, dpc, seeds, fresh, probeVars, peers, topo>>

Moves == ~calm /\ moves < MaxMoves /\ moves' = moves + 1

NodeMoves(n) ==
  /\ Moves
  /\ up' \in {up \ {n}, up \cup {n}}
  /\ UNCHANGED <<view, calm, discoverVars>>

NodeTurns(n) ==
  /\ Moves
  /\ \E l \in Node \cup {NoId} : view' = [view EXCEPT ![n] = l]
  /\ UNCHANGED <<up, calm, discoverVars>>

\* A leader is elected, and the nodes follow it.
Settle ==
  /\ ~calm /\ Leader \in up
  /\ calm' = TRUE
  /\ view' = [n \in Node |-> Leader]
  /\ UNCHANGED <<up, moves, discoverVars>>

\* A node may report that it is neither ("other"), and still name a leader.
HealthAnswers(n) ==
  (IF view[n] = n THEN {"active_leader"} ELSE {"active_follower"})
    \cup (IF view[n] = NoId THEN {"unavailable"} ELSE {})
    \cup (IF n \in Joining /\ ~calm THEN {"other"} ELSE {})

CanFail(n) == ~calm \/ n \notin up

PeersOf(n) == Node \ {n}

\* In the calm cluster RzPoint answers one of three requests in a row.
RzPointAnswers ==
  {a \in [1 .. 3 -> {"ok", "missing", "failed"}] :
     calm => (\E i \in 1 .. 3 : a[i] = "ok") /\ (\A i \in 1 .. 3 : a[i] # "missing")}

\* In the calm cluster RzID answers and names a node that can be reached.
RzidAnswers == {ids \in SUBSET Node : calm => ids \cap up # {}}

-----------------------------------------------------------------------------
(* probe_nodes                                                             *)

MutantAskOnce(a) == a[1] = "ok"

\* RzPointResolver::resolve: up to three requests; a 404, or a body that cannot
\* be read ("missing"), ends them.
Resolves(a) ==
  \E i \in 1 .. 3 : a[i] = "ok" /\ \A j \in 1 .. i - 1 : a[j] = "failed"

Resolved == {Resolves(a) : a \in RzPointAnswers}

\* The probe resolves its node and reads /healthz.
ProbeHealth(n) ==
  /\ stage[n] = "asked"
  /\ \/ /\ TRUE \in Resolved /\ n \in up
        /\ \E h \in HealthAnswers(n) \ {"unavailable"} :
             health' = [health EXCEPT ![n] = h]
        /\ stage' = [stage EXCEPT ![n] = "info"]
     \/ /\ FALSE \in Resolved \/ CanFail(n) \/ "unavailable" \in HealthAnswers(n)
        /\ stage' = [stage EXCEPT ![n] = "lost"]
        /\ UNCHANGED health
  /\ UNCHANGED <<clusterVars, known, dpc, seeds, fresh, vote, peers, topo>>

NewPeers(ps) == ps \ seeds

\* It reads /node-info and then, best effort, /peers; the peers that the
\* peers of the seeds name are ignored.
ProbeInfo(n) ==
  /\ stage[n] = "info"
  /\ \/ /\ n \in up
        /\ vote' = [vote EXCEPT ![n] = view[n]]
        /\ stage' = [stage EXCEPT ![n] = "found"]
        /\ UNCHANGED health
        /\ \E ps \in {PeersOf(n)} \cup (IF CanFail(n) THEN {{}} ELSE {}) :
             peers' = IF dpc = "seeds" THEN peers \cup NewPeers(ps) ELSE peers
     \/ /\ CanFail(n)
        /\ stage' = [stage EXCEPT ![n] = "lost"]
        /\ health' = [health EXCEPT ![n] = "none"]
        /\ UNCHANGED <<vote, peers>>
  /\ UNCHANGED <<clusterVars, known, dpc, seeds, fresh, topo>>

ProbesDone == \A n \in Node : stage[n] \in {"no", "found", "lost"}

Found == {n \in Node : stage[n] = "found"}

-----------------------------------------------------------------------------
(* discover                                                                *)

TrySeeds(ids, fromRzid) ==
  /\ dpc' = "seeds" /\ seeds' = ids /\ fresh' = fromRzid /\ peers' = {}
  /\ Probing(ids)

Leave(next) ==
  /\ dpc' = next /\ seeds' = {} /\ fresh' = FALSE /\ peers' = {} /\ Probing({})

Discover ==
  /\ dpc = "idle"
  /\ IF known = {} THEN Leave("rzid") ELSE TrySeeds(known, FALSE)
  /\ UNCHANGED <<clusterVars, known, topo>>

\* fetch_shard_nodes: the nodes that RzID names.  An error is like no nodes,
\* which makes one of it.
ShardNodes == RzidAnswers \cup (IF calm THEN {} ELSE {{}})

FetchShardNodes ==
  /\ dpc = "rzid"
  /\ \E ids \in ShardNodes : IF ids = {} THEN Leave("idle") ELSE TrySeeds(ids, TRUE)
  /\ UNCHANGED <<clusterVars, known, topo>>

\* Phase 2: probe the discovered peers, if any.
ProbePeers ==
  /\ dpc = "seeds" /\ ProbesDone
  /\ dpc' = "peers"
  /\ stage' = [n \in Node |-> IF n \in peers THEN "asked" ELSE stage[n]]
  /\ UNCHANGED <<clusterVars, known, seeds, fresh, health, vote, peers, topo>>

Votes(l) == {n \in Found : vote[n] = l}

\* max_by_key over a HashMap: any id with the most votes.
Winners ==
  {l \in Node : Votes(l) # {} /\ \A m \in Node : Cardinality(Votes(m)) <= Cardinality(Votes(l))}

MutantAnyRole(l, role) == Votes(l)

InRole(l, role) == {n \in Votes(l) : health[n] = role}

Hosts(ids) == {HostOf[n] : n \in ids}

MutantObserved == {n \in Found : health[n] = "active_follower"}

Observed == Found

\* nodes.values() come in any order: any claimant may be the last one.
Succeed ==
  /\ dpc = "peers" /\ ProbesDone
  /\ \E l \in Winners : \E n \in InRole(l, "active_leader") :
       topo' = [leader |-> HostOf[n], followers |-> Hosts(InRole(l, "active_follower"))]
  /\ known' = Observed
  /\ Leave("idle")
  /\ UNCHANGED clusterVars

MutantAfterFailure == "rzid"

AfterFailure == IF fresh THEN "idle" ELSE "rzid"

\* No node, no vote or no leader: the known seeds give way to RzID's.
Fail ==
  /\ dpc = "peers" /\ ProbesDone
  /\ \/ Winners = {}
     \/ \E l \in Winners : InRole(l, "active_leader") = {}
  /\ Leave(AfterFailure)
  /\ UNCHANGED <<clusterVars, known, topo>>

-----------------------------------------------------------------------------
DiscoverStep ==
  \/ Discover \/ FetchShardNodes \/ ProbePeers \/ Succeed \/ Fail
  \/ \E n \in Node : ProbeHealth(n) \/ ProbeInfo(n)

Next ==
  \/ \E n \in Node : NodeMoves(n) \/ NodeTurns(n)
  \/ Settle
  \/ DiscoverStep

Spec == Init /\ [][Next]_vars

\* sync_task calls discover again and again, and every request times out.
FairSpec == Spec /\ WF_vars(DiscoverStep)

-----------------------------------------------------------------------------
(* Properties                                                              *)

\* The cluster, the seeds, the attempt and its probes have their types; in
\* particular no node is probed both as a seed and as a peer.
TypeOK ==
  /\ up \subseteq Node /\ view \in [Node -> Node \cup {NoId}]
  /\ calm \in BOOLEAN /\ moves \in 0 .. MaxMoves
  /\ known \subseteq Node /\ dpc \in {"idle", "rzid", "seeds", "peers"}
  /\ seeds \subseteq Node /\ fresh \in BOOLEAN /\ peers \subseteq Node \ seeds
  /\ stage \in [Node -> {"no", "asked", "info", "found", "lost"}]
  /\ health \in [Node -> {"none", "active_leader", "active_follower", "other"}]
  /\ vote \in [Node -> Node \cup {NoId}]
  /\ topo \in [leader : Hosts(Node) \cup {NoId}, followers : SUBSET Hosts(Node)]

\* No host is returned as the leader and as a follower at once, however the
\* roles change between the requests of the probes.
RolesDisjoint == topo.leader \notin topo.followers

\* The seeds that led to a topology are replaced, never lost: a failed attempt
\* leaves known_node_ids alone, and a successful one never empties it.
SeedsKept == [][known # {} => known' # {} /\ (known' # known => dpc = "peers")]_vars

\* What discover returns once the cluster is calm.
Truth == [leader |-> HostOf[Leader], followers |-> Hosts(up \ {Leader})]

\* Once the cluster is calm, the topology becomes the leader and all the
\* followers that can be reached and stays so, whatever nodes were known
\* before: dead seeds give way to RzID, and peers complete a partial list.
Converges == calm ~> [](topo = Truth)

\* "It never loops forever": every attempt comes to its end.
AttemptEnds == dpc # "idle" ~> dpc = "idle"

=============================================================================
