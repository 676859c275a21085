SPECIFICATION Spec
CONSTANTS
  Chunk = {1, 2}
  Corpus = {"old", "new"}
  ChunksOf <- MCChunksOf
  Model = {"bge", "minilm"}
  ChunkPieces <- MCChunkPieces
  RowPieces <- MCRowPieces
  MaxCrashes = 0
  TargetTokens = 8
  MinTokens = 3
  LineKind <- MCLineKind
  MaxLines = 0
PROPERTY WritesTheSameBytes
