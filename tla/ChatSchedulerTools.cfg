\* Up to two tool calls per turn, and a cache that may lose a route: the
\* driver then waits for ever, which is a deadlock of the model.
SPECIFICATION Spec
CONSTANTS
  Batches = 1
  Rows = {r1, r2, r3}
  Servers = {1, 2}
  Tools = {t1, t2}
  MaxCacheSize = 2
  MaxTurns = 4
  PromptLen = 1
SYMMETRY Symmetry
CHECK_DEADLOCK FALSE
INVARIANTS
  DoneMeansEnded
  WithinLimits
  ConversationsSpread
PROPERTIES
  ImplementsRollout
