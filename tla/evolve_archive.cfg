\* Two identities: cold start, union cell, hub, archive.
CONSTANTS
  seed = seed
  child = child
  hub1 = hub1
  Digest <- MCDigest
  HubId = {hub1}
  HubTree <- MCHubTree
  Seed = seed
  Identity = {i1, i2}
  Score <- Two
  NoCell = NoCell
  None = None
  UnionLabel = UnionLabel
  UnionMean <- MeanOverUnion
  Iterations = 2
  MaxConsecutiveErrors = 2
  AttemptRefsCap = 1
  UnionFloor = 1
SPECIFICATION SpecMonitored
INVARIANTS EveryCellCanBePicked ElitesAreAccountedFor MonitorShowsTheArchive
PROPERTY ImplementsArchive
CHECK_DEADLOCK FALSE
