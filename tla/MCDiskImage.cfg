SPECIFICATION Spec
CONSTANTS
    Trees <- MCTrees
    PerBlock = 3
    DiskBlocks = 13
    WordBits = 2
    BitsPerBlock = 16
INVARIANTS
    ImageHoldsTree
CHECK_DEADLOCK FALSE
