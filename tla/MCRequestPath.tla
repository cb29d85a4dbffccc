--------------------------- MODULE MCRequestPath ----------------------------
(* Instances of RequestPath for TLC.                                       *)
EXTENDS RequestPath, TLC

CONSTANTS q1, q2, c1, c2

OneRequest == {q1}
TwoRequests == {q1, q2}
OneConn == {c1}
TwoConns == {c1, c2}

\* Requests and connections are only ever compared.
Symmetric == Permutations(TwoRequests) \cup Permutations(TwoConns)

=============================================================================
