SPECIFICATION Spec
CONSTANTS
    Frames <- MCFrames
    ProgramSizes = {1, 2}
    Growths = {1, 2}
    LastPage = 5
    MaxRuns = 3
INVARIANTS
    TypeOK
    FramesApart
    LoadedIsRun
CHECK_DEADLOCK FALSE
