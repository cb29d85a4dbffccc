SPECIFICATION FairSpec
CONSTANTS
  Node <- TwoNodes
  Reader <- OneReader
  Writer <- OneWriter
  ConnPerNode = 1
  Sync = sync
  Free = free
  None = none
  n1 = n1
  n2 = n2
  r1 = r1
  w1 = w1
CHECK_DEADLOCK FALSE
PROPERTIES WritesServed
