SPECIFICATION FairSpec
CONSTANTS
  Client <- ThreeClients
  MaxConnections = 2
  Chunk <- FewChunks
  StraySpan = 2
  MaxBuffer = 3
  FrameTimeout = 1
  IdleTimeout = 1
  k1 = k1
  k2 = k2
  k3 = k3
INVARIANTS SlotsAccounted LimitHolds
PROPERTIES HeldFramesLeave ShutdownEnds
CHECK_DEADLOCK FALSE
