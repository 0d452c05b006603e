SPECIFICATION FairSpec
CONSTANTS
  Rank <- Ranks2
  Vertex <- Kite
  Delegate <- KiteHubs
  Master <- KiteMaster
  Stored <- KiteStored
  Controllers <- KiteControllers
  OwnedVertices <- KiteOwned
  Search <- AllSearches
  BatchRanks = 1
INVARIANTS
  MatchesSurvive
  SourcesAreRight
PROPERTIES
  SurvivorsFit
  Terminates
