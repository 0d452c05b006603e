SPECIFICATION Spec
CONSTANTS
  Rank <- TwoRanks
  Vertex <- Vertices
  Delegate <- Hubs
  Master <- Masters
  Payload <- Hops
  AlgData <- Bit
  Batch = 1
  BcastCost <- OneNode2
  InitialWork <- FromAll
  PreVisit <- AnyPreVisit
  Visit <- AnyVisit
  InitVisit <- AnyVisit
  MaxHops = 2
  MaxFanout = 1
INVARIANTS
  PopFindsVisitor
