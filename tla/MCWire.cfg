SPECIFICATION Spec
CONSTANTS
  None = None
  Zero = Zero
  NegZero = NegZero
  Half = Half
  NaN = NaN
  MaxDepth = 5
  MaxTables = 12
  IdSpace = 2
  Calls <- MCCalls
  Foreign <- MCForeign
  Docs <- MCDocs
  Scores <- MCScores
INVARIANTS
  RequestFaithful
  AnswerFaithful
