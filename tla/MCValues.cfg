CONSTANTS
    MaxIndex = 9
    MaxNodes = 4
    Width = 4
    FracBits = 2
    ExpBits = 4
    Texts <- MCTexts
    Paths <- MCPaths
    Written <- MCWritten
    Numbers <- MCNumbers
    Compared <- MCCompared
SPECIFICATION Spec
CHECK_DEADLOCK FALSE
INVARIANTS
    PathGrammar
    SetStaysOnPath
    RemoveIsExact
    OrderIsTotalAndExact
