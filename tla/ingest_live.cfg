SPECIFICATION FairSpec
CONSTANTS
  w1 = w1
  w2 = w2
  b1 = b1
  NoLease = NoLease
  Workers <- MCTwoWorkers
  Sweeps <- MCSweeps
  Corpus = 4
  Fit <- MCFit
  Unfit <- MCUnfit
  Batch = 2
  Limit = 1
  BudgetRows = 1
  StreakLimit = 2
  MaxSkip = 2
  MaxFailures = 2
  MaxSweeps = 0
  MaxFaults = 3
INVARIANTS
  NothingSteppedOver
PROPERTIES
  EveryFitIsPublished
  RejectionsAreRetested
