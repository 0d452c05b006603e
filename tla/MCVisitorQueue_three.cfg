SPECIFICATION FairSpec
CONSTANTS
  Rank <- ThreeRanks
  Vertex <- Vertices
  Delegate <- Hubs
  Master <- Masters
  Payload <- Hops
  AlgData <- Bit
  Batch = 2
  BcastCost <- OneNode3
  InitialWork <- FromSource
  PreVisit <- AnyPreVisit
  Visit <- AnyVisit
  InitVisit <- AnyVisit
  MaxHops = 1
  MaxFanout = 2
INVARIANTS
  LeaveOnlyWhenQuiescent
  LeaveTogether
PROPERTIES
  EveryRankEnds
