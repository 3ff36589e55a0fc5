SPECIFICATION Spec
CONSTANTS
  w1 = w1
  w2 = w2
  b1 = b1
  NoLease = NoLease
  Workers <- MCWorkers
  Sweeps <- MCSweeps
  Corpus = 4
  Fit <- MCFit
  Unfit <- MCUnfit
  Batch = 2
  Limit = 1
  BudgetRows = 1
  StreakLimit = 2
  MaxSkip = 2
  MaxFailures = 2
  MaxSweeps = 1
  MaxFaults = 2
INVARIANTS
  TypeOK
  NothingSteppedOver
  SweptIsReached
  
