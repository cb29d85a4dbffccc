SPECIFICATION ReadsSpec
CONSTANTS
  Node <- TwoNodes
  Reader <- OneReader
  ConnPerNode = 1
  Sync = sync
  Free = free
  n1 = n1
  n2 = n2
  r1 = r1
INVARIANTS NoneMeansNoneOpen
CHECK_DEADLOCK FALSE
