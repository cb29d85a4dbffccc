------------------------------ MODULE MCBridge ------------------------------
(* Instance of Bridge for TLC.                                             *)
EXTENDS Bridge

CONSTANTS k1, k2, l1

TwoClients == {k1, k2}
OneLink == {l1}

=============================================================================
