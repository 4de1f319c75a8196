\* Two nodes, rotations, bumps, upgrades and outages.
CONSTANTS
  good = good
  bad = bad
  arc = arc
  wiz = wiz
  Node = {n1, n2}
  Program = {good, bad}
  Rank <- MCRank
  Identities <- MCIdentities
  Breaks <- MCBreaks
  Limit = 1
  None = None
  MaxSecret = 2
  MaxMajor = 2
  MaxChanges = 2
  MaxFloorRuns = 1
  MaxBlips = 1
SPECIFICATION Spec
INVARIANTS RowsAreComparable ReportsAreOnTheBoard
PROPERTIES EveryProgramIsSettled NodesComeToRest
