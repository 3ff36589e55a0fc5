SPECIFICATION FairSpec
CONSTANTS
  r1 = r1
  r2 = r2
  Requests <- MCRequests
  Decisions <- MCDecisions
  MaxProcs = 1
  MaxEvents = 2
PROPERTY FailedMeansHeldElsewhere
