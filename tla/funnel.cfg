SPECIFICATION FairSpec
CONSTANTS
  a1 = a1
  a2 = a2
  s1 = s1
  s2 = s2
  Host = Host
  Artifacts = {a1, a2}
  Slugs = {s1, s2}
  SlugOf <- MCSameSlug
  Needy = {a1}
  Doctrinal = {a1}
  MaxRounds = 1
  Budget = 1
  MaxReads = 2
  MaxUpsets = 1
INVARIANTS
  TypeOK
  PublishedHasContent
  NoOrphanRepair
PROPERTIES
  PublishesTheJudged
  ExhaustedWaits
  PublishedKept
  FunnelDrains
CHECK_DEADLOCK FALSE
