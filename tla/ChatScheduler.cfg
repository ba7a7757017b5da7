\* Two calls of generate_sequences, a cache just large enough for one of them,
\* and the fairness of the event loop (hence no symmetry).
SPECIFICATION FairSpec
CONSTANTS
  Batches = 2
  Rows = {r1, r2}
  Servers = {1, 2}
  Tools = {t1}
  MaxCacheSize = 2
  MaxTurns = 4
  PromptLen = 1
INVARIANTS
  TypeOK
  RouteKnown
PROPERTIES
  Sticky
  GenerateReturns
