\* The same instance; a ratio below one though every categorical size was larger.
SPECIFICATION Spec
CONSTANTS
  Ranks = {0, 1}
  Sizes = {0, 2, 3}
  None = None
  BetaNum = 1
  BetaDen = 2
  Eps <- MCEps
  WMin <- MCWMin
  WMax <- MCWMax
  Warmup = 2
  MaxSteps = 5
INVARIANTS
  LargerStaysNeutral
