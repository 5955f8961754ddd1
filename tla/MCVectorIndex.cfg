CONSTANTS
  v1 = v1
  v2 = v2
  dim = 2
  Ids = {1, 2, 3, 4}
  Limits = {0, 1, 3}
  Vectors <- MCVectors
  Unit <- MCUnit
  Queries <- MCQueries
  TextRanks <- MCTextRanks
SPECIFICATION Spec
INVARIANTS
  IdsExact
  SlotsWhole
  SearchExactUntilShift
  FusionRespectsBoth
