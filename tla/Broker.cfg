SPECIFICATION FairBrokerSpec
CONSTANTS
  a = a
  b = b
  Names = {a, b}
  Requests = {r1}
  Admins = {r1}
  Refresher = refresher
  Nobody = nobody
  Filled <- Old
  Curated <- New
  MaxEvents = 1
PROPERTIES
  NoWriteIsMissed
  PoolCatchesUp
  LockIsGivenUp
CHECK_DEADLOCK FALSE
