\* Two limited pools with different rates, and two without the limiter.
SPECIFICATION FairSpec
CONSTANTS
  Clients = {c1, c2, c3}
  NoPool = NoPool
  code = code
  search = search
  freeCode = freeCode
  freeSearch = freeSearch
  Pools <- MCPools
  Kind <- MCKind
  Limited <- MCLimited
  Rate <- MCRate
  Workers <- MCWorkers
INVARIANTS
  TypeOK
  RunningBounded
  TokensConserved
PROPERTIES
  Served
  ImplementsThrottle
