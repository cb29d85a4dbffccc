SPECIFICATION ReadsSpec
CONSTANTS
  Node <- TwoNodes
  Reader <- OneReader
  ConnPerNode = 2
  Sync = sync
  Free = free
  n1 = n1
  n2 = n2
  r1 = r1
SYMMETRY Symmetric
INVARIANTS TypeOK FreeIdsSuffice OneIndexPerNode LoneReadFindsOpen
PROPERTIES OpenConnsKept
CHECK_DEADLOCK FALSE
