SPECIFICATION Spec
CONSTANTS
    Names <- MCNames
    Prefixes <- MCPrefixes
    EntriesPerBlock = 4
    U32 = 6
    FirstDataBlock = 1
    LastBlock = 5
    InodeRoom = 5
    LastInode = 5
    Junk <- MCJunk
    MaxCreated = 3
    MaxStopped = 1
INVARIANTS
    TypeOK
    NoSharedBlocks
    EntryHasInode
    UniqueUntilStopped
    FirstFreeIsFree
    RootInStep
    EveryFileEntered
CHECK_DEADLOCK FALSE
