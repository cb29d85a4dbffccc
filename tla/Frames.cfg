SPECIFICATION FairSpec
CONSTANTS
  Utf8 <- Ascii
  Streams <- MCStreams
  Responses <- MCResponses
  Pieces <- MCPieces
  ResyncLimit = 5
  ResyncKeep = 2
INVARIANTS ChunkIndependent GarbageBounded SlicesInRange GarbageSkipped
PROPERTIES DrainEnds
CHECK_DEADLOCK FALSE
