SPECIFICATION Spec
CONSTANTS
    Columns = 3
    Rows = 4
    XModulus = 16
    LenModulus = 7
    MaxArgs = 3
    PromptLen = 1
    MaxKeys = 8
INVARIANTS
    TypeOK
    ScreenShowsLine
    ArgvIsWords
CHECK_DEADLOCK FALSE
