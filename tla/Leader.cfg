SPECIFICATION FairSpec
CONSTANTS
  Host <- TwoHosts
  Writer <- TwoWriters
  ConnPerNode = 3
  None = none
  h1 = h1
  h2 = h2
  w1 = w1
  w2 = w2
INVARIANTS TypeOK SlotsPointAtLeader FillsOnlyUnusable
PROPERTIES WriteFindsOpenSlot ClosedSlotsReplaced
