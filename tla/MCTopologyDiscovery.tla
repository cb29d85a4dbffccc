------------------------ MODULE MCTopologyDiscovery -------------------------
EXTENDS TopologyDiscovery
CONSTANTS n1, n2, n3
MCNode == {n1, n2, n3}
MCJoining == {n3}
MCHostOf == [n \in Node |-> <<n>>]
=============================================================================
