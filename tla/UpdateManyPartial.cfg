CONSTANTS
  a = a
  u = u
  g1 = g1
  g2 = g2
  num = num
  vec = vec
  txt = txt
  Null = Null
  Missing = Missing
  IdKey = IdKey
  Absent = Absent
  NotString = NotString
  NotObject = NotObject
  MaxId = 2
  MaxBatch = 2
  Dims = {1}
  Ids <- MCIds
  HexId <- MCHexId
  Fields <- MCFields
  Values <- MCValues
  Numbers <- MCNumbers
  Plus <- MCPlus
  Dim <- MCDim
  Texts <- MCTexts
  RawInputs <- MCRawInputs
  UpdateInputs <- MCUpdateInputs
SPECIFICATION Spec
PROPERTY UpdateManyAllOrNothing
