CONSTANTS
  a = a
  u = u
  g1 = g1
  g2 = g2
  num = num
  vec = vec
  Null = Null
  Missing = Missing
  IdKey = IdKey
  Absent = Absent
  NotString = NotString
  NotObject = NotObject
  MaxId = 2
  MaxBatch = 3
  Dims = {}
  Ids <- MCIds
  HexId <- MCHexId
  Fields <- MCFields
  Values <- MCValues
  Numbers <- MCNumbers
  Plus <- MCPlus
  Dim <- MCDim
  Texts = {}
  RawInputs <- MCRawInputs
  UpdateInputs <- MCUpdateInputs
SPECIFICATION CmdSpec
PROPERTIES
  InsertAnswersStoredIds
  CountsAreTrue
