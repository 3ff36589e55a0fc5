SPECIFICATION FairSpec
CONSTANTS
  discover = discover
  drain = drain
  Escalation = escalation
  Stage = stage
  ContentLanes = {discover}
  OpsLanes = {drain, escalation}
  Place <- MCPlace
  Gated = {discover}
  Watchdog <- MCWatchdog
  Cooldown = 1
  Concurrency = 1
  Reap = 3
  BootReap = 2
  Sat = 4
  MaxGhosts = 1
  MaxFaults = 1
INVARIANTS
  TypeOK
  LanesApart
PROPERTIES
  ClosedStays
  PassEnds
  LanesComeBack
  OrphansReaped
