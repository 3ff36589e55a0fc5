SPECIFICATION FairSpec
CONSTANTS
  r1 = r1
  r2 = r2
  Requests <- MCRequests
  Decisions <- MCDecisions
  MaxProcs = 2
  MaxEvents = 2
INVARIANTS
  TypeOK
  UntrackedOnlyByLateExit
  RunStateTracksChild
PROPERTIES
  AutoStartsRespectOff
  QuitLeavesNobody
  OffMeansOff
  OffIsRecorded
  TakenLeaseStopsWorker
  OnIsHonoured
