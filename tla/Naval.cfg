SPECIFICATION Spec
CONSTANTS
    None = None
    Comment = Comment
    RowMax = 9
    MaxLines = 6
    Scenarios <- MCScenarios
INVARIANTS GameExact Alternates BoardsTrue InStep
PROPERTY Ends
CHECK_DEADLOCK FALSE
