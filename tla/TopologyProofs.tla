--------------------------- MODULE TopologyProofs ---------------------------
(***************************************************************************)
(* Proofs about TopologyDiscovery for every set of nodes, every injective  *)
(* HostOf and any number of changes of the cluster.                        *)
(***************************************************************************)
EXTENDS TopologyDiscovery, FiniteSetTheorems, TLAPS

USE DEF clusterVars, probeVars, discoverVars

\* The initial states are well typed.
LEMMA InitType == Init => TypeOK
<1> SUFFICES ASSUME Init PROVE TypeOK
  OBVIOUS
<1>1. view \in [Node -> Node \cup {NoId}]
  BY DEF Init
<1>2. moves \in 0 .. MaxMoves
  BY MovesAssumption DEF Init
<1>3. topo \in [leader : Hosts(Node) \cup {NoId}, followers : SUBSET Hosts(Node)]
  BY DEF Init, NoTopo
<1> QED
  BY <1>1, <1>2, <1>3, NodeAssumption DEF Init, TypeOK

\* Probes that begin have their types, whichever nodes are asked.
LEMMA ProbingType ==
  ASSUME NEW ids, Probing(ids)
  PROVE  /\ stage' \in [Node -> {"no", "asked", "info", "found", "lost"}]
         /\ health' \in [Node -> {"none", "active_leader", "active_follower", "other"}]
         /\ vote' \in [Node -> Node \cup {NoId}]
  BY DEF Probing

\* Every step of the shard and of discover() keeps the state well typed; the
\* peers collected for phase 2 are never seeds.
LEMMA TypeStep == TypeOK /\ [Next]_vars => TypeOK'
<1> SUFFICES ASSUME TypeOK, [Next]_vars PROVE TypeOK'
  OBVIOUS
<1> USE MovesAssumption DEF TypeOK
<1>1. ASSUME NEW n \in Node, NodeMoves(n) PROVE TypeOK'
  <2>1. up' \subseteq Node /\ moves' \in 0 .. MaxMoves
    BY <1>1 DEF NodeMoves, Moves
  <2> QED
    BY <1>1, <2>1 DEF NodeMoves
<1>2. ASSUME NEW n \in Node, NodeTurns(n) PROVE TypeOK'
  <2>1. view' \in [Node -> Node \cup {NoId}] /\ moves' \in 0 .. MaxMoves
    BY <1>2 DEF NodeTurns, Moves
  <2> QED
    BY <1>2, <2>1 DEF NodeTurns
<1>3. CASE Settle
  BY <1>3 DEF Settle
<1>4. CASE Discover
  <2>1. CASE known = {}
    BY <1>4, <2>1, ProbingType DEF Discover, Leave
  <2>2. CASE known # {}
    BY <1>4, <2>2, ProbingType DEF Discover, TrySeeds
  <2> QED
    BY <2>1, <2>2
<1>5. CASE FetchShardNodes
  <2>1. CASE Leave("idle")
    BY <1>5, <2>1, ProbingType DEF FetchShardNodes, Leave
  <2>2. ASSUME NEW ids \in SUBSET Node, TrySeeds(ids, TRUE) PROVE TypeOK'
    BY <1>5, <2>2, ProbingType DEF FetchShardNodes, TrySeeds
  <2> QED
    BY <1>5, <2>1, <2>2 DEF FetchShardNodes, ShardNodes, RzidAnswers
<1>6. CASE ProbePeers
  BY <1>6 DEF ProbePeers
<1>7. CASE Succeed
  <2>1. PICK l \in Winners : \E n \in InRole(l, "active_leader") :
          topo' = [leader |-> HostOf[n], followers |-> Hosts(InRole(l, "active_follower"))]
    BY <1>7 DEF Succeed
  <2>2. InRole(l, "active_leader") \subseteq Node /\ InRole(l, "active_follower") \subseteq Node
    BY DEF InRole, Votes, Found
  <2>3. topo' \in [leader : Hosts(Node) \cup {NoId}, followers : SUBSET Hosts(Node)]
    BY <2>1, <2>2 DEF Hosts
  <2> QED
    BY <1>7, <2>3 DEF Succeed, Leave, Probing, Observed, Found
<1>8. CASE Fail
  BY <1>8 DEF Fail, Leave, Probing, AfterFailure
<1>9. ASSUME NEW n \in Node, ProbeHealth(n) PROVE TypeOK'
  <2>1. HealthAnswers(n) \ {"unavailable"} \subseteq {"active_leader", "active_follower", "other"}
    BY DEF HealthAnswers
  <2>2. health' \in [Node -> {"none", "active_leader", "active_follower", "other"}]
    <3>1. CASE UNCHANGED health
      BY <3>1 DEF TypeOK
    <3>2. CASE \E h \in HealthAnswers(n) \ {"unavailable"} : health' = [health EXCEPT ![n] = h]
      <4>1. PICK h \in {"active_leader", "active_follower", "other"} :
              health' = [health EXCEPT ![n] = h]
        BY <2>1, <3>2
      <4> QED  BY <4>1 DEF TypeOK
    <3> QED  BY <1>9, <3>1, <3>2 DEF ProbeHealth
  <2>3. stage' \in [Node -> {"no", "asked", "info", "found", "lost"}]
    BY <1>9 DEF ProbeHealth
  <2> QED
    BY <1>9, <2>2, <2>3 DEF ProbeHealth
<1>10. ASSUME NEW n \in Node, ProbeInfo(n) PROVE TypeOK'
  <2>1. peers' \subseteq Node \ seeds
    BY <1>10 DEF ProbeInfo, NewPeers, PeersOf
  <2> QED
    BY <1>10, <2>1 DEF ProbeInfo
<1>11. CASE UNCHANGED vars
  BY <1>11 DEF vars
<1> QED
  BY <1>1, <1>2, <1>3, <1>4, <1>5, <1>6, <1>7, <1>8, <1>9, <1>10, <1>11
  DEF Next, DiscoverStep

\* Only a successful attempt changes the topology or the known nodes.
LEMMA OnlySucceed ==
  ASSUME [Next]_vars, ~Succeed
  PROVE  topo' = topo /\ known' = known
  BY DEF Next, DiscoverStep, NodeMoves, NodeTurns, Settle, Discover,
     FetchShardNodes, ProbePeers, Fail, ProbeHealth, ProbeInfo, vars

\* TypeOK holds in every state.
THEOREM Typed == Spec => []TypeOK
  BY InitType, TypeStep, PTL DEF Spec

\* discover never returns one host in both roles: a node has one health value
\* per attempt, and no two nodes share a host.
THEOREM RolesNeverMeet == Spec => []RolesDisjoint
<1>1. Init => RolesDisjoint
  BY DEF Init, NoTopo, RolesDisjoint
<1>2. RolesDisjoint /\ [Next]_vars => RolesDisjoint'
  <2> SUFFICES ASSUME RolesDisjoint, [Next]_vars PROVE RolesDisjoint'
    OBVIOUS
  <2>1. CASE Succeed
    <3>0. PICK l \in Winners : \E n \in InRole(l, "active_leader") :
            topo' = [leader |-> HostOf[n], followers |-> Hosts(InRole(l, "active_follower"))]
      BY <2>1 DEF Succeed
    <3>1. PICK n \in InRole(l, "active_leader") :
            topo' = [leader |-> HostOf[n], followers |-> Hosts(InRole(l, "active_follower"))]
      BY <3>0
    <3>2. n \in Node /\ health[n] = "active_leader"
      BY DEF InRole, Votes, Found
    <3>3. \A m \in InRole(l, "active_follower") : HostOf[m] # HostOf[n]
      BY <3>2, HostAssumption DEF InRole, Votes, Found
    <3> QED
      BY <3>1, <3>3 DEF RolesDisjoint, Hosts
  <2>2. CASE ~Succeed
    BY <2>2, OnlySucceed DEF RolesDisjoint
  <2> QED
    BY <2>1, <2>2
<1> QED
  BY <1>1, <1>2, PTL DEF Spec

\* The step of SeedsKept.
KeepsSeeds == known # {} => known' # {} /\ (known' # known => dpc = "peers")

\* A failed attempt leaves known_node_ids alone, and a successful one has
\* found at least the leader, so it never empties them.
THEOREM SeedsNeverLost == Spec => SeedsKept
<1>1. [Next]_vars => [KeepsSeeds]_vars
  <2> SUFFICES ASSUME [Next]_vars PROVE KeepsSeeds
    OBVIOUS
  <2>1. CASE Succeed
    BY <2>1 DEF Succeed, InRole, Votes, Observed, KeepsSeeds
  <2>2. CASE ~Succeed
    BY <2>2, OnlySucceed DEF KeepsSeeds
  <2> QED
    BY <2>1, <2>2
<1> QED
  BY <1>1, PTL DEF Spec, SeedsKept, KeepsSeeds

-----------------------------------------------------------------------------
\* The role a node reports in the calm cluster.
CalmRole(n) == IF n = Leader THEN "active_leader" ELSE "active_follower"

AskedSeed == \E n \in seeds : stage[n] = "found"

\* An attempt all of whose answers so far come from the calm cluster: every
\* node that was found can be reached and reported its role and the leader,
\* every node that was lost cannot, and the peers are known as soon as one
\* seed was found.
CleanAttempt ==
  /\ \A n \in Node :
       /\ stage[n] \in {"info", "found"} => n \in up /\ health[n] = CalmRole(n)
       /\ stage[n] = "found" => vote[n] = Leader
       /\ stage[n] = "lost" => n \notin up
       /\ stage[n] = "no" <=> n \notin seeds \cup (IF dpc = "peers" THEN peers ELSE {})
  /\ peers = IF AskedSeed THEN Node \ seeds ELSE {}
  /\ dpc = "peers" => \A n \in seeds : stage[n] \in {"found", "lost"}
  /\ fresh => seeds \cap up # {}

\* Nobody asks and nobody is asked.
Quiet == seeds = {} /\ peers = {} /\ fresh = FALSE /\ \A n \in Node : stage[n] = "no"

\* In the calm cluster every node follows the leader, which can be reached.
CalmInv ==
  /\ calm => Leader \in up /\ view = [n \in Node |-> Leader]
  /\ dpc \in {"idle", "rzid"} => Quiet

\* In the calm cluster RzPoint resolves every node within its three requests.
LEMMA CalmResolves == calm => FALSE \notin Resolved
<1> SUFFICES ASSUME calm, NEW a \in RzPointAnswers PROVE Resolves(a)
  BY DEF Resolved
<1>1. a \in [1 .. 3 -> {"ok", "missing", "failed"}] /\ \A i \in 1 .. 3 : a[i] # "missing"
  BY DEF RzPointAnswers
<1>2. a[1] = "ok" \/ a[2] = "ok" \/ a[3] = "ok"
  <2>1. \E i \in 1 .. 3 : a[i] = "ok"
    BY DEF RzPointAnswers
  <2> QED
    BY <2>1
<1>3. \A i \in 1 .. 3 : a[i] = "ok" \/ a[i] = "failed"
  BY <1>1
<1>4. CASE a[1] = "ok"
  BY <1>4 DEF Resolves
<1>5. CASE a[1] = "failed" /\ a[2] = "ok"
  <2>1. 2 \in 1 .. 3 /\ \A j \in 1 .. 2 - 1 : a[j] = "failed"
    BY <1>5
  <2> QED
    BY <1>5, <2>1 DEF Resolves
<1>6. CASE a[1] = "failed" /\ a[2] = "failed" /\ a[3] = "ok"
  <2>1. 3 \in 1 .. 3 /\ \A j \in 1 .. 3 - 1 : a[j] = "failed"
    BY <1>6
  <2> QED
    BY <1>6, <2>1 DEF Resolves
<1>7. 1 \in 1 .. 3 /\ 2 \in 1 .. 3
  OBVIOUS
<1> QED
  BY <1>2, <1>3, <1>4, <1>5, <1>6, <1>7

\* There a node that can be reached reports its role, and any other is lost.
LEMMA CalmHealth ==
  ASSUME TypeOK, CalmInv, calm, NEW n \in Node
  PROVE  HealthAnswers(n) = {CalmRole(n)} /\ view[n] = Leader /\ (CanFail(n) <=> n \notin up)
<1>1. view[n] = Leader /\ Leader # NoId
  BY NodeAssumption DEF CalmInv
<1> QED
  BY <1>1 DEF HealthAnswers, CalmRole, CanFail

\* Asking nobody.
LEMMA LeaveIsQuiet ==
  ASSUME NEW next, Leave(next)
  PROVE  dpc' = next /\ Quiet'
  BY DEF Leave, Probing, Quiet

\* Asking some nodes.
LEMMA TryBegins ==
  ASSUME NEW ids \in SUBSET Node, NEW b, TrySeeds(ids, b)
  PROVE  /\ dpc' = "seeds" /\ seeds' = ids /\ fresh' = b /\ peers' = {}
         /\ \A n \in Node : stage'[n] = IF n \in ids THEN "asked" ELSE "no"
  BY DEF TrySeeds, Probing

\* CalmInv holds initially.
LEMMA CalmInit == Init => CalmInv
  BY DEF Init, CalmInv, Quiet

\* Every step keeps it: nothing changes the calm cluster, and an attempt leaves
\* no probe behind.
LEMMA CalmInvStep == TypeOK /\ CalmInv /\ [Next]_vars => CalmInv'
<1> SUFFICES ASSUME TypeOK, CalmInv, [Next]_vars PROVE CalmInv'
  OBVIOUS
<1>1. ASSUME NEW n \in Node, NodeMoves(n) \/ NodeTurns(n) PROVE CalmInv'
  BY <1>1 DEF NodeMoves, NodeTurns, Moves, CalmInv, Quiet
<1>2. CASE Settle
  BY <1>2 DEF Settle, CalmInv, Quiet
<1>3. CASE DiscoverStep
  <2>1. UNCHANGED <<calm, up, view>>
    BY <1>3 DEF DiscoverStep, Discover, FetchShardNodes, ProbePeers, Succeed, Fail,
       ProbeHealth, ProbeInfo
  <2>2. dpc' \in {"idle", "rzid"} => Quiet'
    <3>1. CASE Discover
      BY <3>1, LeaveIsQuiet DEF Discover, TrySeeds
    <3>2. CASE FetchShardNodes
      BY <3>2, LeaveIsQuiet DEF FetchShardNodes, TrySeeds
    <3>3. CASE ProbePeers
      BY <3>3 DEF ProbePeers
    <3>4. CASE Succeed \/ Fail
      BY <3>4, LeaveIsQuiet DEF Succeed, Fail
    <3>5. ASSUME NEW n \in Node, ProbeHealth(n) \/ ProbeInfo(n) PROVE ~(dpc' \in {"idle", "rzid"})
      <4>1. stage[n] # "no" /\ dpc' = dpc
        BY <3>5 DEF ProbeHealth, ProbeInfo
      <4> QED
        BY <4>1 DEF CalmInv, Quiet
    <3> QED
      BY <1>3, <3>1, <3>2, <3>3, <3>4, <3>5 DEF DiscoverStep
  <2> QED
    BY <2>1, <2>2 DEF CalmInv
<1>4. CASE UNCHANGED vars
  BY <1>4 DEF vars, CalmInv, Quiet
<1> QED
  BY <1>1, <1>2, <1>3, <1>4 DEF Next

\* An attempt that asks nobody is clean.
LEMMA QuietIsClean == Quiet => CleanAttempt
  BY DEF Quiet, CleanAttempt, AskedSeed

\* An attempt that has just begun is clean.
LEMMA BegunIsClean ==
  ASSUME NEW ids \in SUBSET Node, NEW b, TrySeeds(ids, b), b => ids \cap up' # {}
  PROVE  CleanAttempt'
  BY TryBegins DEF CleanAttempt, AskedSeed

\* Each probe of a clean attempt gets the calm cluster's answer.
LEMMA CleanProbe ==
  ASSUME TypeOK, CalmInv, calm, CleanAttempt, NEW n \in Node, ProbeHealth(n) \/ ProbeInfo(n)
  PROVE  CleanAttempt'
<1>0. HealthAnswers(n) = {CalmRole(n)} /\ view[n] = Leader /\ (CanFail(n) <=> n \notin up)
  BY CalmHealth
<1>1. CalmRole(n) # "unavailable"
  BY DEF CalmRole
<1>2. CASE ProbeHealth(n)
  <2>1. \/ n \in up /\ stage' = [stage EXCEPT ![n] = "info"]
           /\ health' = [health EXCEPT ![n] = CalmRole(n)]
        \/ n \notin up /\ stage' = [stage EXCEPT ![n] = "lost"] /\ health' = health
    BY <1>0, <1>1, <1>2, CalmResolves DEF ProbeHealth
  <2>2. UNCHANGED <<up, dpc, seeds, fresh, vote, peers>> /\ stage[n] = "asked"
    BY <1>2 DEF ProbeHealth
  <2>3. stage'[n] \in {"info", "lost"} /\ \A m \in Node \ {n} : stage'[m] = stage[m] /\ health'[m] = health[m]
    BY <2>1 DEF TypeOK
  <2>4. stage'[n] = "info" => n \in up /\ health'[n] = CalmRole(n)
    BY <2>1 DEF TypeOK
  <2>5. stage'[n] = "lost" => n \notin up
    BY <2>1 DEF TypeOK
  <2>6. AskedSeed' <=> AskedSeed
    BY <2>2, <2>3 DEF AskedSeed, TypeOK
  <2>7. ~(dpc = "peers" /\ n \in seeds)
    BY <2>2 DEF CleanAttempt
  <2>8. \A m \in Node : CalmRole(m)' = CalmRole(m)
    BY DEF CalmRole
  <2> QED
    BY <2>2, <2>3, <2>4, <2>5, <2>6, <2>7, <2>8 DEF CleanAttempt, TypeOK
<1>3. CASE ProbeInfo(n)
  <2>1. stage[n] = "info" /\ n \in up
    BY <1>3 DEF ProbeInfo, CleanAttempt
  <2>2. /\ vote' = [vote EXCEPT ![n] = Leader] /\ stage' = [stage EXCEPT ![n] = "found"]
        /\ peers' = IF dpc = "seeds" THEN peers \cup NewPeers(PeersOf(n)) ELSE peers
    BY <1>0, <1>3, <2>1 DEF ProbeInfo
  <2>3. UNCHANGED <<up, dpc, seeds, fresh, health>>
    BY <1>0, <1>3, <2>1 DEF ProbeInfo
  <2>4. stage'[n] = "found" /\ vote'[n] = Leader
        /\ \A m \in Node \ {n} : stage'[m] = stage[m] /\ vote'[m] = vote[m]
    BY <2>2 DEF TypeOK
  <2>5. dpc \in {"seeds", "peers"}
    BY <2>1 DEF TypeOK, CalmInv, Quiet
  <2>6. \A m \in Node : CalmRole(m)' = CalmRole(m)
    BY DEF CalmRole
  <2>7. CASE dpc = "seeds"
    <3>1. n \in seeds
      BY <2>1, <2>7 DEF CleanAttempt
    <3>2. AskedSeed'
      BY <2>3, <2>4, <3>1 DEF AskedSeed
    <3>3. peers' = Node \ seeds
      BY <2>2, <2>7, <3>1 DEF NewPeers, PeersOf, TypeOK
    <3> QED
      BY <2>1, <2>3, <2>4, <2>6, <2>7, <3>2, <3>3 DEF CleanAttempt
  <2>8. CASE dpc = "peers"
    <3>1. n \notin seeds /\ peers' = peers
      BY <2>1, <2>2, <2>8 DEF CleanAttempt
    <3>2. AskedSeed' <=> AskedSeed
      BY <2>3, <2>4, <3>1 DEF AskedSeed, TypeOK
    <3> QED
      BY <2>1, <2>3, <2>4, <2>6, <2>8, <3>1, <3>2 DEF CleanAttempt, TypeOK
  <2> QED
    BY <2>5, <2>7, <2>8
<1> QED
  BY <1>2, <1>3

\* A clean attempt whose probes are done and that found a node has found all
\* that can be reached, and they all voted for the leader.
LEMMA CleanFound ==
  ASSUME TypeOK, CalmInv, calm, CleanAttempt, dpc = "peers", ProbesDone
  PROVE  /\ Found # {} => Found = up
         /\ fresh => Found # {}
         /\ Votes(Leader) = Found /\ \A l \in Node \ {Leader} : Votes(l) = {}
<1>1. Votes(Leader) = Found /\ \A l \in Node \ {Leader} : Votes(l) = {}
  BY DEF Votes, Found, CleanAttempt
<1>2. ASSUME NEW n \in Found PROVE Found = up
  <2>1. n \in Node /\ stage[n] = "found"
    BY DEF Found
  <2>2. AskedSeed
    <3>1. CASE n \in seeds
      BY <2>1, <3>1 DEF AskedSeed
    <3>2. CASE n \notin seeds
      <4>1. peers # {}
        BY <2>1, <3>2 DEF CleanAttempt
      <4> QED
        BY <4>1, Zenon DEF CleanAttempt
    <3> QED
      BY <3>1, <3>2
  <2>3. seeds \cup peers = Node
    BY <2>2 DEF CleanAttempt, TypeOK
  <2>4. \A m \in Node : stage[m] \in {"found", "lost"}
    BY <2>3 DEF CleanAttempt, ProbesDone
  <2> QED
    BY <2>4 DEF CleanAttempt, Found, TypeOK
<1>3. ASSUME fresh PROVE Found # {}
  <2>1. PICK n \in seeds \cap up : TRUE
    BY <1>3 DEF CleanAttempt
  <2>2. n \in Node /\ stage[n] \in {"found", "lost"}
    BY <2>1 DEF CleanAttempt, TypeOK
  <2>3. stage[n] = "found"
    BY <2>1, <2>2 DEF CleanAttempt
  <2> QED
    BY <2>2, <2>3 DEF Found
<1> QED
  BY <1>1, <1>2, <1>3

\* So it returns the truth, or fails because no seed could be reached.
LEMMA CleanEnds ==
  ASSUME TypeOK, CalmInv, calm, CleanAttempt
  PROVE  (Succeed => topo' = Truth) /\ (Fail => ~fresh)
<1>1. ASSUME dpc = "peers", ProbesDone
      PROVE  /\ Found # {} => Found = up
             /\ fresh => Found # {}
             /\ Votes(Leader) = Found /\ \A l \in Node \ {Leader} : Votes(l) = {}
  BY <1>1, CleanFound
<1>2. Leader \in up /\ Leader \in Node
  BY NodeAssumption DEF CalmInv
<1>3. ASSUME Succeed PROVE topo' = Truth
  <2>0. dpc = "peers" /\ ProbesDone
    BY <1>3 DEF Succeed
  <2>1. PICK l \in Winners : \E n \in InRole(l, "active_leader") :
          topo' = [leader |-> HostOf[n], followers |-> Hosts(InRole(l, "active_follower"))]
    BY <1>3 DEF Succeed
  <2>2. PICK n \in InRole(l, "active_leader") :
          topo' = [leader |-> HostOf[n], followers |-> Hosts(InRole(l, "active_follower"))]
    BY <2>1
  <2>3. l = Leader
    BY <1>1, <2>0 DEF Winners
  <2>4. n \in Found /\ health[n] = "active_leader"
    BY <2>3, <1>1, <2>0 DEF InRole
  <2>5. n = Leader
    BY <2>4 DEF CleanAttempt, CalmRole, Found
  <2>6. Found = up
    BY <1>1, <2>0, <2>4
  <2>7. InRole(l, "active_follower") = up \ {Leader}
    <3>1. InRole(l, "active_follower") = {m \in up : health[m] = "active_follower"}
      BY <1>1, <2>0, <2>3, <2>6 DEF InRole
    <3>2. \A m \in up : health[m] = CalmRole(m)
      BY <2>6 DEF CleanAttempt, Found
    <3> QED
      BY <3>1, <3>2 DEF CalmRole
  <2> QED
    BY <2>2, <2>5, <2>7 DEF Truth
<1>4. ASSUME Fail, fresh PROVE FALSE
  <2>0. dpc = "peers" /\ ProbesDone
    BY <1>4 DEF Fail
  <2>1. Found = up /\ Votes(Leader) = up /\ \A l \in Node \ {Leader} : Votes(l) = {}
    BY <1>1, <1>4, <2>0
  <2>2. \A l \in Winners : l = Leader
    BY <2>1 DEF Winners
  <2>3. Leader \in InRole(Leader, "active_leader")
    <3>1. health[Leader] = CalmRole(Leader)
      BY <1>2, <2>1 DEF CleanAttempt, Found
    <3> QED
      BY <1>2, <2>1, <3>1 DEF InRole, CalmRole
  <2>4. Leader \in Winners
    <3>1. \A m \in Node : Cardinality(Votes(m)) <= Cardinality(Votes(Leader))
      <4>1. IsFiniteSet(up)
        BY NodeAssumption, FS_Subset DEF TypeOK
      <4>2. Cardinality(up) \in Nat /\ Cardinality({}) = 0
        BY <4>1, FS_CardinalityType, FS_EmptySet
      <4> QED
        BY <2>1, <4>2
    <3> QED
      BY <1>2, <2>1, <3>1 DEF Winners
  <2> QED
    BY <1>4, <2>2, <2>3, <2>4 DEF Fail
<1> QED
  BY <1>3, <1>4

\* A clean attempt stays clean, and what follows it is.
LEMMA CleanStep ==
  TypeOK /\ CalmInv /\ CalmInv' /\ calm /\ CleanAttempt /\ [Next]_vars => calm' /\ up' = up /\ CleanAttempt'
<1> SUFFICES ASSUME TypeOK, CalmInv, CalmInv', calm, CleanAttempt, [Next]_vars
             PROVE  calm' /\ up' = up /\ CleanAttempt'
  OBVIOUS
<1>0. ~Settle /\ \A n \in Node : ~NodeMoves(n) /\ ~NodeTurns(n)
  BY DEF Settle, NodeMoves, NodeTurns, Moves
<1>1. calm' = calm /\ up' = up
  BY <1>0 DEF Next, DiscoverStep, Discover, FetchShardNodes, ProbePeers, Succeed, Fail,
     ProbeHealth, ProbeInfo, vars
<1>2. Quiet' => CleanAttempt'
  BY QuietIsClean, PTL
<1>3. CASE Discover
  <2>1. CASE known = {}
    BY <1>2, <1>3, <2>1, LeaveIsQuiet DEF Discover
  <2>2. CASE known # {}
    <3>1. TrySeeds(known, FALSE) /\ known \in SUBSET Node
      BY <1>3, <2>2 DEF Discover, TypeOK
    <3> QED
      BY <1>1, <3>1, BegunIsClean
  <2> QED
    BY <1>1, <2>1, <2>2
<1>4. CASE FetchShardNodes
  <2>1. PICK ids \in ShardNodes : IF ids = {} THEN Leave("idle") ELSE TrySeeds(ids, TRUE)
    BY <1>4 DEF FetchShardNodes
  <2>2. ids \in SUBSET Node /\ ids \cap up # {}
    BY DEF ShardNodes, RzidAnswers
  <2>3. TrySeeds(ids, TRUE)
    BY <2>1, <2>2
  <2>4. ids \cap up' # {}
    BY <1>1, <2>2
  <2>5. CleanAttempt'
    BY <2>2, <2>3, <2>4, BegunIsClean
  <2> QED
    BY <1>1, <2>5
<1>5. CASE ProbePeers
  <2>1. /\ dpc = "seeds" /\ dpc' = "peers" /\ ProbesDone
        /\ UNCHANGED <<up, seeds, fresh, health, vote, peers>>
        /\ stage' = [n \in Node |-> IF n \in peers THEN "asked" ELSE stage[n]]
    BY <1>5 DEF ProbePeers
  <2>2. \A n \in Node : stage'[n] = IF n \in peers THEN "asked" ELSE stage[n]
    BY <2>1
  <2>3. seeds \cap peers = {} /\ seeds \subseteq Node /\ peers \subseteq Node
    BY DEF TypeOK
  <2>4. AskedSeed' <=> AskedSeed
    BY <2>1, <2>2, <2>3 DEF AskedSeed
  <2>5. \A n \in seeds : stage[n] \in {"found", "lost"} /\ stage'[n] = stage[n]
    BY <2>1, <2>2, <2>3 DEF ProbesDone, CleanAttempt
  <2>6. \A m \in Node : CalmRole(m)' = CalmRole(m)
    BY DEF CalmRole
  <2>7. CleanAttempt'
    BY <2>1, <2>2, <2>3, <2>4, <2>5, <2>6 DEF CleanAttempt
  <2> QED
    BY <1>1, <2>7
<1>6. CASE Succeed \/ Fail
  BY <1>1, <1>2, <1>6, LeaveIsQuiet DEF Succeed, Fail
<1>7. ASSUME NEW n \in Node, ProbeHealth(n) \/ ProbeInfo(n) PROVE CleanAttempt'
  BY <1>7, CleanProbe
<1>8. CASE UNCHANGED vars
  BY <1>8 DEF vars, CleanAttempt, AskedSeed, CalmRole
<1> QED
  BY <1>0, <1>1, <1>3, <1>4, <1>5, <1>6, <1>7, <1>8 DEF Next, DiscoverStep

\* What an attempt that began in the calm cluster may do: it changes the topology
\* only to what it is, it ends with that if its seeds came from RzID, and it
\* leaves the cluster as it is.
CalmStep ==
  (calm /\ CleanAttempt) =>
     /\ calm' /\ CleanAttempt' /\ Truth' = Truth
     /\ topo' # topo => topo' = Truth
     /\ dpc = "peers" /\ dpc' # "peers" /\ fresh => topo' = Truth

\* Why discovery converges.  Every attempt that begins in the calm cluster is
\* clean, a clean attempt returns nothing but the leader and all the followers
\* that can be reached, and it fails only when its seeds were the known ones and
\* none of them can be reached; RzID's seeds never fail.
THEOREM CalmAttemptsFindTruth ==
  Spec => [](calm /\ dpc = "idle" => CleanAttempt) /\ [][CalmStep]_vars
<1>1. CalmInv => (calm /\ dpc = "idle" => CleanAttempt)
  BY QuietIsClean DEF CalmInv
<1>2. TypeOK /\ CalmInv /\ CalmInv' /\ [Next]_vars => [CalmStep]_vars
  <2> SUFFICES ASSUME TypeOK, CalmInv, CalmInv', [Next]_vars, calm, CleanAttempt
               PROVE  /\ calm' /\ CleanAttempt' /\ Truth' = Truth
                      /\ topo' # topo => topo' = Truth
                      /\ dpc = "peers" /\ dpc' # "peers" /\ fresh => topo' = Truth
    BY DEF CalmStep
  <2>1. calm' /\ up' = up /\ CleanAttempt'
    BY CleanStep
  <2>2. Truth' = Truth
    BY <2>1 DEF Truth, Hosts
  <2>3. topo' # topo => topo' = Truth
    BY OnlySucceed, CleanEnds
  <2>4. dpc = "peers" /\ dpc' # "peers" => Succeed \/ Fail
    BY DEF Next, DiscoverStep, NodeMoves, NodeTurns, Settle, Discover,
       FetchShardNodes, ProbePeers, ProbeHealth, ProbeInfo, vars
  <2>5. dpc = "peers" /\ dpc' # "peers" /\ fresh => topo' = Truth
    BY <2>4, CleanEnds
  <2> QED
    BY <2>1, <2>2, <2>3, <2>5
<1> QED
  BY <1>1, <1>2, InitType, TypeStep, CalmInit, CalmInvStep, PTL DEF Spec

\* The topology is right, and so will be what the attempt under way returns.
Settled == calm /\ CleanAttempt /\ topo = Truth

\* Once an attempt that began in the calm cluster has returned, the topology is
\* right for ever: no later attempt loses a follower or doubts the leader.
THEOREM TruthStays == Spec => [](Settled => []Settled)
<1>1. [CalmStep]_vars /\ Settled => Settled'
  <2>1. CASE UNCHANGED vars
    BY <2>1 DEF vars, Settled, CleanAttempt, AskedSeed, CalmRole, Truth, Hosts
  <2>2. CASE CalmStep
    BY <2>2 DEF CalmStep, Settled
  <2> QED
    BY <2>1, <2>2
<1> QED
  BY <1>1, CalmAttemptsFindTruth, PTL

-----------------------------------------------------------------------------
\* The phases of an attempt, and what is left of a probe.
Phase ==
  CASE dpc = "idle" -> 0
    [] dpc = "peers" /\ fresh -> 1
    [] dpc = "seeds" /\ fresh -> 2
    [] dpc = "rzid" -> 3
    [] dpc = "peers" /\ ~fresh -> 4
    [] dpc = "seeds" /\ ~fresh -> 5

Todo(s) == CASE s = "asked" -> 2 [] s = "info" -> 1 [] OTHER -> 0

ProbeAdvances(n) ==
  /\ Todo(stage'[n]) < Todo(stage[n])
  /\ \A m \in Node \ {n} : stage'[m] = stage[m]

\* A step of an attempt comes closer to its end: to a later phase, or in the
\* same one with one probe further on and none further back.
AttemptAdvances ==
  (dpc # "idle" /\ DiscoverStep) =>
     Phase' < Phase \/ (Phase' = Phase /\ \E n \in Node : ProbeAdvances(n))

\* "It never loops forever" (topology.rs): the phases and the probes bound an
\* attempt, whatever the nodes, RzPoint and RzID answer and however the cluster
\* changes meanwhile; AttemptEnds follows with the fairness of the scheduler.
THEOREM AttemptsAreBounded == Spec => [][AttemptAdvances]_vars
<1>1. TypeOK /\ CalmInv /\ [Next]_vars => [AttemptAdvances]_vars
  <2> SUFFICES ASSUME TypeOK, CalmInv, dpc # "idle", DiscoverStep
               PROVE  Phase' < Phase \/ (Phase' = Phase /\ \E n \in Node : ProbeAdvances(n))
    BY DEF AttemptAdvances
  <2>0. fresh \in BOOLEAN
    BY DEF TypeOK
  <2>1. CASE Discover
    BY <2>1 DEF Discover
  <2>2. CASE FetchShardNodes
    <3>1. dpc = "rzid" /\ (dpc' = "idle" \/ (dpc' = "seeds" /\ fresh' = TRUE))
      BY <2>2 DEF FetchShardNodes, Leave, TrySeeds
    <3> QED
      BY <3>1 DEF Phase
  <2>3. CASE ProbePeers
    <3>1. dpc = "seeds" /\ dpc' = "peers" /\ fresh' = fresh
      BY <2>3 DEF ProbePeers
    <3> QED
      BY <2>0, <3>1 DEF Phase
  <2>4. CASE Succeed
    <3>1. dpc = "peers" /\ dpc' = "idle"
      BY <2>4 DEF Succeed, Leave
    <3> QED
      BY <2>0, <3>1 DEF Phase
  <2>5. CASE Fail
    <3>1. dpc = "peers" /\ dpc' = IF fresh THEN "idle" ELSE "rzid"
      BY <2>5 DEF Fail, Leave, AfterFailure
    <3> QED
      BY <2>0, <3>1 DEF Phase
  <2>6. ASSUME NEW n \in Node, ProbeHealth(n) \/ ProbeInfo(n)
        PROVE  Phase' = Phase /\ ProbeAdvances(n)
    <3>1. dpc' = dpc /\ fresh' = fresh
      BY <2>6 DEF ProbeHealth, ProbeInfo
    <3>2. Phase' = Phase
      BY <3>1 DEF Phase
    <3>3. \/ stage[n] = "asked" /\ stage' = [stage EXCEPT ![n] = "info"]
          \/ stage[n] = "asked" /\ stage' = [stage EXCEPT ![n] = "lost"]
          \/ stage[n] = "info" /\ stage' = [stage EXCEPT ![n] = "found"]
          \/ stage[n] = "info" /\ stage' = [stage EXCEPT ![n] = "lost"]
      BY <2>6 DEF ProbeHealth, ProbeInfo
    <3>4. ProbeAdvances(n)
      BY <3>3 DEF ProbeAdvances, Todo, TypeOK
    <3> QED
      BY <3>2, <3>4
  <2> QED
    BY <2>1, <2>2, <2>3, <2>4, <2>5, <2>6 DEF DiscoverStep
<1> QED
  BY <1>1, InitType, TypeStep, CalmInit, CalmInvStep, PTL DEF Spec

=============================================================================
