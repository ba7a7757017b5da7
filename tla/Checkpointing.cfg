\* Two crashes, two ranks, actor and critic kept in different numbers.
SPECIFICATION FairSpec
CONSTANTS
  LastRank = 1
  UseCritic = TRUE
  Keep <- KeepTwoAndThree
  Total = 7
  SaveFreq = 2
  MaxRuns = 3
INVARIANTS
  TypeOK
  TrackedIsWhole
  KeptByRun
PROPERTIES
  ImplementsResumableRun
  Ends
