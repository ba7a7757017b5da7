\* The default range of weights, five steps, the first of them a warm-up, and restarts at any time.
SPECIFICATION Spec
CONSTANTS
  Ranks = {0, 1}
  Sizes = {0, 2, 3}
  None = None
  BetaNum = 1
  BetaDen = 2
  Eps <- MCEps
  WMin <- MCWMin
  WMax <- MCWMax
  Warmup = 2
  MaxSteps = 5
INVARIANTS
  TypeOK
  WeightsDirected
  NeutralUntilBoth
  AverageWithin
  FairWhenCountsAgree
