-------------------------- MODULE MCClusterHandler --------------------------
(* Instances of ClusterHandler for TLC.                                    *)
EXTENDS ClusterHandler

CONSTANTS n1, n2, r1, w1

TwoNodes == {n1, n2}
OneReader == {r1}
OneWriter == {w1}

=============================================================================
