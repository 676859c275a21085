SPECIFICATION Spec
CONSTANTS
  Chunk = {1, 2}
  Corpus = {"old", "new"}
  ChunksOf <- MCChunksOf
  Model = {"bge", "minilm"}
  ChunkPieces <- MCChunkPieces
  RowPieces <- MCRowPieces
  MaxCrashes = 1
  TargetTokens = 8
  MinTokens = 3
  LineKind <- MCLineKind
  MaxLines = 6
INVARIANTS
  TypeOK
  LoadedCanBeSearched
  EndedIngestIsWhole
  VectorsAreByTheirModel
  ChunksAreExact
PROPERTY ReusesEverything
