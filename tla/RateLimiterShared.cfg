\* The search pool may make the limiter, with a rate the code pool does not allow.
SPECIFICATION Spec
CONSTANTS
  Clients = {c1, c2, c3}
  NoPool = NoPool
  code = code
  search = search
  freeCode = freeCode
  freeSearch = freeSearch
  Pools <- MCPools
  Kind <- MCKind
  Limited <- MCLimited
  Rate <- MCRate
  Workers <- MCWorkers
INVARIANTS
  CodeWithinRate
