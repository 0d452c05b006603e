SPECIFICATION JobSpec
CONSTANTS
  Nodes = 2
  Cores = 2
  LocalBits = 1
  Kind <- AllKinds
  Batch = 2
  MaxMade <- Some
INVARIANTS
  TypeOK
  GoneMeansEmpty
  NodesAreFound
PROPERTIES
  ImplementsExchange
  EveryMailboxCloses
