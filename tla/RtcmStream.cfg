CONSTANTS
  Pieces <- MCPieces
  MaxPieces = 3
  ChunkSizes <- MCChunks
  Crc24q <- MCCrc
SPECIFICATION Spec
INVARIANT ChunksDoNotMatter
INVARIANT FramesDispatched
INVARIANT RemainderIsOpenFrame
CHECK_DEADLOCK FALSE
