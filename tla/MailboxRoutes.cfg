SPECIFICATION RouteSpec
CONSTANTS
  Nodes = 7
  Cores = 4
  LocalBits = 2
INVARIANTS
  DeliveredOnce
