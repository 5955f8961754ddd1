CONSTANTS
  Missing = Missing
  MaxI64 = 3
  MaxStream = 4
  GroupKeys <- MCGroupKeys
  FieldValues <- MCFieldValues
SPECIFICATION Spec
INVARIANT SumIsTotal
CHECK_DEADLOCK FALSE
