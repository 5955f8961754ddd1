CONSTANTS
  a = a
  u = u
  g1 = g1
  num = num
  vec = vec
  Null = Null
  Missing = Missing
  IdKey = IdKey
  Absent = Absent
  NotString = NotString
  NotObject = NotObject
  Deleted = Deleted
  MaxId = 1
  MaxBatch = 2
  Dims = {1}
  Ids <- MCIds
  HexId <- MCHexId
  Fields <- MCFields
  Values <- MCValues
  Numbers <- MCNumbers
  Plus <- MCPlus
  Dim <- MCDim
  Texts = {}
  RawInputs <- MCRawInputs
  UpdateInputs <- MCUpdateInputs
SPECIFICATION TxSpec
PROPERTIES
  CommitAllOrNothing
