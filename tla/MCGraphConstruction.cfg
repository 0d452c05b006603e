SPECIFICATION Spec
CONSTANTS
  None = None
  Size = 4
  PerNode = 2
  Inputs <- MCInputs
  Thresholds <- MCThresholds
  ChunkSizes <- MCChunkSizes
  PassCounts <- MCPassCounts
\* The program ends.
CHECK_DEADLOCK FALSE
INVARIANTS
  TypeOK
  RoomForTheRest
  StoredOnce
  EveryVertexListed
