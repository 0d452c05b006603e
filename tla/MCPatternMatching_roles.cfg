SPECIFICATION FairSpec
CONSTANTS
  Rank <- Ranks2
  Vertex <- Kite
  Delegate <- KiteHubs
  Master <- KiteMaster
  Stored <- KiteStored
  Controllers <- KiteControllers
  OwnedVertices <- KiteOwned
  Search <- OneEndOnly
  BatchRanks = 1
INVARIANT
  RolesAreSynced
