SPECIFICATION Spec
CONSTANTS
  None = None
  Size = 4
  PerNode = 2
  Inputs <- FewInputs
  Thresholds <- MCThresholds
  ChunkSizes <- MCChunkSizes
  PassCounts <- MCPassCounts
\* The program ends.
CHECK_DEADLOCK FALSE
PROPERTY EndIsReturned
