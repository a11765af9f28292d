SPECIFICATION Spec
CONSTANTS
    Files = {1, 2}
    MaxOpenFiles = 2
    MaxOpenInodes = 1
    PageSize = 2
    UintModulus = 64
    RefModulus = 3
    OnDisk <- MCOnDisk
    Frames = 2
    OpenFlags <- MCOpenFlags
    Lengths = {3}
    SeekOffsets <- MCSeekOffsets
    LastPage = 2
    MaxOffset = 4
    MaxExits = 1
INVARIANTS
    TypeOK
    OneInodePerId
    InodeCoherent
    BasesDistinct
    NoDoubleFree
PROPERTIES
    DescriptorsKept
    SizeNeverShrinks
CHECK_DEADLOCK FALSE
