SPECIFICATION Spec
CONSTANTS
  Modes <- OnlyChunked
  WriteSizes = {1, 2}
  ReadSizes = {1, 2}
  MaxBytes = 3
INVARIANT NoFinalChunkMeansClosed
