CONSTANTS
  d1 = d1
  d2 = d2
  d3 = d3
  moo = moo
  cow = cow
  MaxLen = 1
  MaxPostings = 4
  Limits = {0}
  Ids <- MCIds
  Terms <- MCTerms
  Texts <- MCTexts
SPECIFICATION Spec
INVARIANT SearchInBounds
