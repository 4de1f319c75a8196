\* Three identities and three scores: a tie, a gain and a loss can all differ.
CONSTANTS
  Identity = {i1, i2, i3}
  Digest = {d1, d2, d3}
  Score <- Three
  NoCell = NoCell
  UnionLabel = UnionLabel
  UnionMean <- MeanOverUnion
  MaxInserts = 3
SPECIFICATION OfferSpec
INVARIANTS HoldsTheBest NoEliteDominated
SYMMETRY Symmetry
CHECK_DEADLOCK FALSE
