SPECIFICATION Spec
CONSTANTS
  Rank <- Ranks2
  Vertex <- Square
  Delegate <- SquareHubs
  Master <- SquareMaster
  Stored <- SquareStored
  Controllers <- SquareControllers
  OwnedVertices <- SquareOwned
  Programs <- CountingPrograms
  TrussGraphs <- TrussSamples
INVARIANTS
  TrianglesAreCounted
  SupportsAgree
  TrussIsExact
  SourcesAreExpected
