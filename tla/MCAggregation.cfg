CONSTANTS
  Missing = Missing
  MaxI64 = 3
  MaxStream = 4
  GroupKeys <- MCGroupKeys
  FieldValues <- MCFieldValues
SPECIFICATION Spec
INVARIANTS
  GroupsExact
  SumExactUnlessReseeded
  GroupOrder
CHECK_DEADLOCK FALSE
