SPECIFICATION FairSpec
CONSTANTS
  Size = 2
  Message <- OneMessage
  FirstTag = 1
  ExtraCount <- ExtraOfZero
  MaxQueued = 2
  MaxExchanges = 2
INVARIANTS
  NothingStray
PROPERTIES
  ImplementsExchange
  EveryExchangeEnds
