\* Requests for the same and related solutions, interleaved, delayed and failed,
\* and genesis, run twice, between any two of their commits.
CONSTANTS
  r1 = r1
  r2 = r2
  r3 = r3
  s1 = s1
  s2 = s2
  arc = arc
  wiz = wiz
  Request = {r1, r2, r3}
  Solution = {s1, s2}
  Identity = {arc, wiz}
  Seed = {1}
  MaxLevel = 2
  EvidenceOf <- Evaluations
  Parents <- MCParents
  NoRow = NoRow
  MaxGenesis = 2
  MaxClock = 2
  MeanOf <- MCMeanOf
  Floor <- MCFloor
  DigestRank <- MCRank
SYMMETRY MCSymmetry
SPECIFICATION Spec
INVARIANTS FirstIsEarliest MilestonesAreEarned AnsweredIsComplete
PROPERTIES ScoresAreNeverLost RepeatsChangeNoScore SurpassingCostsNothing
CHECK_DEADLOCK FALSE
