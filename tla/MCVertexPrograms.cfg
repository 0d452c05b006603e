SPECIFICATION Spec
CONSTANTS
  Rank <- Ranks3
  Vertex <- House
  Delegate <- HouseHubs
  Master <- HouseMaster
  Stored <- HouseStored
  Controllers <- HouseControllers
  OwnedVertices <- HouseOwned
  Batch = 4
  BcastCost <- Cost3
  Program <- Programs
  Source = 0
  LevelBits = 2
  NoParent = NoParent
  Weight <- HouseWeight
  Infinity = 100
  VertexPasses <- NotFive
  EdgePasses <- UncutEdges
  DefaultLabel = 100
  Files <- HouseFiles
INVARIANTS
  LevelsAreDistances
  ParentsFormTree
  LevelsNeverTooLow
  PathsAreShortest
  LabelsAreComponents
  EveryEdgeCountsOnce
  FilterIsSound
  MetadataIsEverywhere
  DegreesAreEverywhere
