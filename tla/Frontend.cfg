CONSTANTS
  MaxBuffers = 3
  MaxFrame = 4
  BufferChunks = 4
  MaxChunk = 8
  ChunksPerFrame = 2
SPECIFICATION FrontendSpec
INVARIANTS NeverTorn SoundIsWhole NeverFull
PROPERTIES ShowsEveryFrame EmulatorIsNeverHeldUp SoundIsHeard
CHECK_DEADLOCK FALSE
