CONSTANTS
  d1 = d1
  d2 = d2
  d3 = d3
  moo = moo
  cow = cow
  MaxLen = 2
  MaxPostings = 3
  Limits = {0, 1}
  Ids <- MCIds
  Terms <- MCTerms
  Texts <- MCTexts
SPECIFICATION Spec
INVARIANTS
  ArraysParallel
  SearchExactWhileSorted
