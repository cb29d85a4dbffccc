---------------------------- MODULE MCLeaderPool ----------------------------
(* Instances of LeaderPool for TLC.                                        *)
EXTENDS LeaderPool

CONSTANTS h1, h2, w1, w2

TwoHosts == {h1, h2}
TwoWriters == {w1, w2}

=============================================================================
