CONSTANTS
  f = f
  g = g
  IdKey = IdKey
  Missing = Missing
  NotArray = NotArray
  NotBool = NotBool
  NotOps = NotOps
  NotObject = NotObject
  Panic = Panic
  Unbounded = Unbounded
  Null = 0
  Ids <- MCIds
  Fields <- MCFields
  Values <- MCValues
  Elements <- MCElements
  Members <- MCMembers
  Criteria <- MCCriteria
  Nesting <- MCNesting
  SortFilters <- MCSortFilters
  Pages <- MCPages
SPECIFICATION Spec
INVARIANTS
  IndexIsFreshLoad
  PlanMatchesScan
  IndexOrder
  SortAgrees
