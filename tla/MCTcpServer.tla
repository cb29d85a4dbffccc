---------------------------- MODULE MCTcpServer -----------------------------
(* Instances of TcpServer for TLC.                                         *)
EXTENDS TcpServer

CONSTANTS k1, k2, k3

ThreeClients == {k1, k2, k3}

\* Every kind of item, at the front of a buffer and behind others.
FewChunks == {<<"part">>, <<"huge">>, <<"stray", "work">>, <<"garbage", "keepalive">>}

=============================================================================
