\* More conversations than cache entries.
SPECIFICATION Spec
CONSTANTS
  Batches = 1
  Rows = {r1, r2, r3}
  Servers = {1, 2}
  Tools = {t1}
  MaxCacheSize = 2
  MaxTurns = 4
  PromptLen = 1
CHECK_DEADLOCK FALSE
INVARIANTS
  RouteKnown
