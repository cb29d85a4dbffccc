--------------------------- MODULE MCFollowerPool ---------------------------
(* Instances of FollowerReads for TLC.                                     *)
EXTENDS FollowerReads, TLC

CONSTANTS n1, n2, r1

TwoNodes == {n1, n2}
OneReader == {r1}

\* Node names are only ever compared, and hash maps are iterated in any order.
Symmetric == Permutations(TwoNodes)

=============================================================================
