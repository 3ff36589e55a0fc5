SPECIFICATION FairSpec
CONSTANTS
  w1 = w1
  w2 = w2
  b1 = b1
  NoLease = NoLease
  Workers <- MCWorkers
  Sweeps <- MCSweeps
  Corpus = 4
  Fit <- MCBehindDead
  Unfit <- MCUnfit
  Batch = 2
  Limit = 1
  BudgetRows = 1
  StreakLimit = 2
  MaxSkip = 2
  MaxFailures = 2
  MaxSweeps = 0
  MaxFaults = 0
PROPERTY
  NeverStalls
