SPECIFICATION Spec
CONSTANTS
    Files = {1, 2}
    MaxOpenFiles = 2
    MaxOpenInodes = 2
    PageSize = 2
    UintModulus = 64
    RefModulus = 4
    OnDisk <- MCOnDisk
    Frames = 4
    OpenFlags <- MCOpenFlags
    Lengths = {1, 2, 3}
    SeekOffsets <- MCSeekOffsets
    LastPage = 6
    MaxOffset = 8
    MaxExits = 0
PROPERTY
    WriteKeepsToItsFile
CHECK_DEADLOCK FALSE
