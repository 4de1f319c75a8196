\* One identity and a long run: the breaker and what the monitor says of it.
CONSTANTS
  seed = seed
  child = child
  hub1 = hub1
  Digest <- MCDigest
  HubId = {hub1}
  HubTree <- MCHubTree
  Seed = seed
  Identity = {i1}
  Score <- Two
  NoCell = NoCell
  None = None
  UnionLabel = UnionLabel
  UnionMean <- MeanOverUnion
  Iterations = 4
  MaxConsecutiveErrors = 2
  AttemptRefsCap = 2
  UnionFloor = 1
SPECIFICATION SpecMonitored
INVARIANTS BreakerTripsExactlyOnAStreak StoryIsTrue
PROPERTY Terminates
CHECK_DEADLOCK FALSE
