CONSTANTS
  n1 = n1
  n2 = n2
  n3 = n3
  Node <- MCNode
  HostOf <- MCHostOf
  Leader = n1
  NoId = NoId
  Joining <- MCJoining
  MaxMoves = 1
SPECIFICATION FairSpec
CHECK_DEADLOCK TRUE
INVARIANT RolesDisjoint
PROPERTIES SeedsKept Converges AttemptEnds
