SPECIFICATION Spec
CONSTANTS
  FrameMaxBytes = 3
  ChunkBytes = 3
  StreamBytes = 8
CHECK_DEADLOCK FALSE
INVARIANTS
  FramesExact
  BufferBounded
